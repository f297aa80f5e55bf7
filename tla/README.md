# GearShare in TLA+

GearShare (`src/`) is a marketplace for renting outdoor gear: a Go API process
(`cmd/api`, two replicas), two services (`cmd/notification-service`,
`cmd/search-indexer`, two replicas each) and a thumbnail function, around MySQL
with a read replica, Redis, Kafka, RabbitMQ, Elasticsearch and MongoDB. Its
correctness is in what its goroutines and processes do to shared state: rows,
cache entries, channels, offsets, deliveries and breakers. This directory models
those parts in TLA+, checks small instances with TLC and proves the central
results with TLAPS for every value of the constants.

`PROJECT.json` holds the machine-readable side: components, runs, mutants, the
map from definitions to source lines, findings, hazards and theorems.

## 1. Inventory

| Component | State | Operations | Hard part | Module |
|---|---|---|---|---|
| Booking creation: `booking/handler.go`, `service.go`, `tx.go`, `availability/repository.go`, `db/tx.go` | tables `bookings` and `availability_blocks`, InnoDB locks, attempts | `POST /bookings`: decode, load listing, transaction of locking read and two inserts with retry, re-read, evict, publish, notify, answer | races for the same dates, gap-lock deadlocks, retries, commits cut off, replica lag, crashes | `BookingTx`, `AtomicBooking` |
| Booking lifecycle: `booking/model.go`, `repository.go`, `service.go`, `app/dispute.go` | status of a booking | approve, reject, cancel, activate, complete, dispute | check-then-write without a lock, on a value from the replica; side effects after a write | `BookingLifecycle` |
| Realtime hub: `realtime/hub.go`, `sse.go`, `websocket.go` | subscriber maps, buffered channels, `sync.Once` | subscribe, cancel, publish; handler and read pump | close outside the lock, two goroutines that cancel, slow and dead clients | `Hub` |
| Domain events: `eventbus/kafka_*.go`, `cmd/search-indexer/main.go` | partition, committed offset, channel, workers | publish, fetch, handle, commit, shut down | workers commit out of order, handler errors, crash, drain | `EventConsumer` |
| Email and thumbnail queues: `queue/*.go`, `cmd/notification-service` | broker topology, ready and unacked jobs, DLQ | declare, publish, deliver, ack, nack, shut down | either side boots first, redelivery, lost connections | `WorkQueue` |
| Listings, reviews, listing cache: `listing/*.go`, `review/*.go`, `cache/listing_cache.go` | listing rows, replica, Redis entry with TTL | create, review, read through the cache, evict | a slow reader stores what an eviction removed | `ListingReads` |
| Accounts: `user/*.go` | `users`, `oauth_identities` | register, login, Google callback | first logins that race, unique keys, replica lag | `Accounts`, `AtomicAccounts` |
| Search: `search/*.go`, `middleware/breaker.go`, `esindex.go` | two circuit breakers | search, index, fall back to MySQL | breakers in series, competing trials, cancelled clients, a hung indexer that uses up the request's time | `SearchPath` |
| API process: `cmd/api/main.go`, `app/server.go`, `grpc_server.go`, `routes.go` | phase of `main`, Redis found or not, listeners, open requests, WebSockets and gRPC calls | boot, serve, SIGTERM, GracefulStop, Shutdown, close, exit, restart | requests longer than the shutdown timeout, a stop without one, connections Shutdown does not know, closes under running requests | `APIServer` |
| Rate limiting: `cache/ratelimiter.go`, `middleware/ratelimit.go` | Redis counter per address and window | admit or refuse | both limiters and all replicas count into one key; errors fail open | `APIServer` |
| Long polling: `realtime/polling.go`, `web/js/polling.js` | the client's cursor | poll a booking for a change | `updated_at` has seconds, the row comes from the replica, answers later than `WriteTimeout` are lost | `LongPolling` |
| Authentication: `auth/*.go` | none, or a signed token with an expiry | issue, verify | the token expires between two polls | in part: `APIServer`, `Accounts` |
| MongoDB documents, partner, admin and category pages, thumbnails, configuration, metrics | single documents or rows | single reads and writes | no concurrency of their own | not modelled |

How they interact: booking creation and lifecycle evict the listing cache, publish to
Kafka, queue emails in RabbitMQ and push to the hub, always after the write that
they announce; the indexer consumes listing events and shares one Elasticsearch
breaker between them and searches; every read that goes through `Reader()` may see an old
state of what another component, or the same request, has just written. Each
module keeps the neighbours it depends on as steps that may fail: a broker
outage is a fault of `BookingTx` and `BookingLifecycle`, the eviction is a
process of `ListingReads`, the breaker's refusal a handler error of
`EventConsumer`. `LongPolling` is composed with `APIServer`: it extends it, puts
its requests on the processes and behind the gate, and lets one clock run for
both.

## 2. Modules and their correspondence to the code

A module is a state machine at the grain at which other goroutines or processes
can interfere: one step per SQL round trip, channel operation, lock section,
broker or Redis call. Names of actions follow the functions they model; where a
call has several outcomes, each is an action (`Commit`, `CommitFails`). Payloads
are reduced to what a property tells apart. Names with "Mutant" in the comment
above them are wrong variants that serve only to show that a property can fail;
no `Next` uses them. An `MC...` module extends a specification for TLC.

**BookingTx.** `pc[r]` follows one request through `Handler.Create`,
`Service.CreateBooking`, `TxRunner.CreateAtomic` and `DB.WithinTransaction`.
`attempt`, `err` are the loop variables of `WithinTransaction`; `txBookings` and
`txBlocks` the uncommitted rows; `locks` the keys of the index (listing_id,
start_date, end_date) that the transaction has locked. InnoDB is external and
modelled from what the code relies on: the FOR UPDATE scan takes next-key locks
on the whole range it reads, at least up to the end date and possibly beyond;
gap locks are compatible with each other; an insert waits for the gap locks of
others; a scan waits for rows others have written or locked, keeping what it
has; a cycle of waits ends with one victim (1213), any wait can time out (1205).
The last gap of a scan really ends at the first entry of the next listing, or at the
end of the index; the model confines it to the listing. The difference only adds waits
between inserts of neighbouring listings, which end like any other wait.
`Faults` switches on a missing listing, lock timeouts, broken connections
(including a COMMIT of unknown outcome), broker outages and crashes.

**AtomicBooking** states what booking creation promises without any of that: a
request takes its days in one step if all are free, 409 is sent only for a day
that is taken, 201 only for a booking, 500 says nothing. `BookingTx` implements
it with `want <- req`, `booked <-` the requests with a committed row,
`answer <- reply`.

**BookingLifecycle.** `history` is the sequence of values the status column has
had, `applied` the prefix the replica has. `UpdateStatusRead` is `GetByID` with
`CanTransition`, `UpdateStatusWrite` the `UPDATE`, `Reread` to
`RespondDispute` the rest of `Service.transition` and of the two handlers. `readAt`,
`wroteAt` and `shown` are the versions a request has checked, written and re-read; the
event, the owner's feed and the answer carry the status of `shown`.

**Hub.** A connection is named like its channel. `Register` and `Unregister` are
the write-locked sections, `CloseChannel` the `close(ch)` after the unlock,
`PublishStart` to `PublishEnd` one call of `publish` under the read lock.
WebSocket connections have a handler and a read pump that both run the
`sync.Once`.

**EventConsumer.** The fetch loop, the channel `jobs`, the workers and the
unbuffered `done` of `Consumer.Run`; a message is its offset. kafka-go is external: a commit
sets the group's offset; after a restart, or a rebalance that gives the partition back, the
reader starts over behind it (`Restart`, `Rebalance`), in the second case while channel and
workers keep what they have. The messages kafka-go has prefetched (100 by default) and
`FetchMessage` has not returned yet are part of the partition: nothing in the code sees them.

**WorkQueue.** `Declare` in its order for the API and each replica, publishing
without waiting for the confirm, deliveries up to the prefetch, the select loop
of `Consumer.Run`, dead-lettering, and what the client library has buffered when
a channel ends. RabbitMQ is external.

**JobPool** is what that queue promises: a job whose `Publish` returned nil is in
the pool until it is settled, once, after its handler succeeded or failed; it may be
handled again, also later; it may be lost only before it was ever handled, because
nobody reads the publisher confirms. `WorkQueue` implements it with `pool <-` the jobs
on the wire, ready or unacked and `accepted <-` the published ones.

**ListingReads.** One page (the detail page, the default feed or another feed)
whose content is a version number: creation, reviews, replication, the Redis
entry with its remaining life, the two deletions of `InvalidateDetail`, and
readers between their `GET`, load and `SET`. Time passes in ticks; body and entry count the ticks for which they
have been out of date. Readers of `/api/v1` have the 30 s of the router's
timeout, those of `/partner/v1` none.

**Accounts.** Registration (one INSERT), login (read of the replica and bcrypt),
and the OAuth callback (SELECT, two INSERTs in a transaction with retry, re-read
of the user through `Reader()`). An insert waits for an open row with the same
unique key and fails with 1062 for a committed one.

**AtomicAccounts** is what they promise: an account appears in one step, together with the
identity that opens it if it has no password; no address or subject is used twice; a token
goes only to somebody who has shown the password or the identity of the account it is for;
409 is sent only for a taken address. `Accounts` implements it with `want <- req`,
`members <-` the committed users, `links <- identities`, `answer <- status`.

**SearchPath.** `search.Service.Search` with its breaker and fallback, and
`Index.Search` / `Upsert` / `Delete` behind the breaker of the indexer. A client that leaves
(`Leave`) and a request whose 30 s are over (`Expire`) both end the ctx that the gRPC call and
the fallback share, but in the second case somebody still waits. `Delete` ignores the status of
the response, so that an error of Elasticsearch counts as a success there. gobreaker is external: closed,
open, half open, and results of earlier generations ignored. Its specification is called
`SearchSpec`, so that one proof module can extend it together with `EventConsumer`.

**APIServer.** `phase[a]` follows `main` of one API process: boot (MySQL is
needed, `redis` has the processes that found Redis), serving,
`GracefulStop` of the gRPC server (it waits for the open call, without a
deadline, and nothing says that the call ends: it may be a health or reflection
stream), `Shutdown` of the HTTP server (it waits for the open requests until
its context is done; `late` records that it gave up), the deferred closes, exit.
A WebSocket request is hijacked by `Upgrade`, so that `Shutdown` does not wait for it;
`Snapshot` is its MySQL query. Kafka, RabbitMQ, MongoDB, search, Google and SAML, which `main`
can do without too, only decide which handlers there are.
A process that is down, by exit or crash, boots again. The gate in front of
`/api/v1` is one Redis counter per window, which `INCR` raises for admitted and
refused requests of both limiters alike and which fails open; a process without Redis uses
httprate, whose decision is left open. The access token is the time it has left.

**LongPolling.** `poll[c]` follows `Poll` for the open request of client c:
`check` (the query), `wait` (the select), `answer`. `stamps` is the sequence of
`updated_at` values of one booking, `applied` the prefix the replica has. The
browser's loop is `Send` to `Return`; `Delivered` moves `since` to the server's
clock as `tick()` does, `Lost` is an answer after `WriteTimeout` or a broken
connection. `OpenStream` is the SSE request the dashboard opens instead, which
occupies the process until it ends.

Proof modules: `BookingTxProofs`, `BookingLifecycleProofs`, `HubProofs`,
`LongPollingProofs`, `EventConsumerProofs` (which also has the proofs about the
breakers of `SearchPath`), `WorkQueueProofs`, `ListingReadsProofs`, `AccountsProofs`.

## 3. Runs

TLC checks deadlock in every run. Where a system comes to rest (all requests
answered, queue drained), an explicit stuttering action (`Terminated`, `Done`,
`Idle`, `Quiet`) says when that is in order, so that any other stop is an error.

| Run | Instance | Distinct states | Shows |
|---|---|---|---|
| `booking_faults` | 2 requests, 2 listings, 2 days, 2 attempts, replica, all faults | 60 k | `NoDoubleBooking` and the other invariants of booking creation, the refinement of `AtomicBooking`, and that every request ends |
| `booking_replica` | 1 request, replica, no faults | stops at the error | finding 1 |
| `lifecycle_safe` | 2 callers, replica, all faults | 836 k | what holds although the check and the write are apart |
| `lifecycle_invalid` | 2 callers, no replica, no faults | stops at the error | finding 2 |
| `hub_all` | 1 SSE and 1 WebSocket connection, 2 publishers, 2 topics, buffer 1 | 43 k | `NoPanic`, `NoLeak`, connections end, publishers never wait |
| `consumer_all` | 2 workers, channel of 1, 4 messages, 2 errors, 1 restart or rebalance | 217 k | what a crash can cost, no stall, drain after a fetch error, clean shutdown |
| `consumer_loss` | 2 workers, 2 messages, 1 restart or rebalance, no errors | stops at the error | finding 3 |
| `queue_all` | 2 jobs, 2 replicas, prefetch 2, 2 losses | 139 k | conservation, reasons, duplicates, the refinement of `JobPool`, progress of jobs |
| `listing_all` | 2 readers, one a partner, TTL 2, timeout 1, 2 versions | 117 k | how stale a cached page can be, and that it becomes current |
| `accounts_all` | 3 requests, 2 addresses, 1 password, 1 subject, 2 attempts | 301 k | the refinement of `AtomicAccounts`, no half accounts, one user per subject, no wait for ever |
| `search_all` | 2 searchers and the index writer, 2 failures to trip | 727 k | degradation, recovery |
| `polling_all` | 1 process, 1 client, replica, all faults, limits 2 and 1 per window of 2, shutdown after 2, token for 3, write timeout 1, poll timeout 3 | 119 k | what long polling reports and overlooks, what a shutdown costs and when it ends |

### Why the bounds are enough

- *Dates.* Two days give equal, nested, adjacent and disjoint ranges, and the
  reversed range the price calculation rejects; adjacency is what the inclusive
  comparison decides (the mutant with half-open ranges fails at once). Two
  listings show that bookings of one do not conflict with those of the other.
- *Requests.* Two are enough for a deadlock of gap locks. Two
  attempts show a retry and its exhaustion. Races of three and more, and any
  number of attempts, are covered by the theorems.
- *Callers.* An invalid transition needs two. A third adds longer histories of
  the same kind; the theorems cover any number.
- *Buffers and pools.* A buffer, channel or prefetch of one or two is full after
  one or two steps, so that full, empty and in between all occur. Two workers
  are enough to commit out of order. Four messages fill the channel, both workers and
  the fetch loop at once, so that the fetch loop waits for room.
- *Failures.* Two errors or losses include the failure during recovery from the
  first one. Bounds on them are in the guards (`MaxErrors`, `MaxResumes`,
  `MaxLosses`).
- *Time.* Only the order of TTL and timeout matters; with TTL 2 and timeout 1 an
  entry can age, expire, and be set late by a reader in its last tick.
- *Polling.* One tick is half a second, so that two clock values share a second,
  which is what decides whether a change is overlooked. The constants keep the order of the real ones
  (write timeout < shutdown timeout < poll timeout: 10, 15 and 25 s; the login limit below the
  API limit; a token that outlives a window), and each timer can run out in every phase of
  the others. From `MaxClock` on the clock stands still, which
  allows more orders and not fewer: later changes then lie in the same second. One change
  after the creation is enough for a stale replica, a late report and an overlooked change.
- *Breakers.* `TripAt` is 3 in the code and 2 in the run: one failure that does not trip
  and one that does.
- *Accounts.* Three requests are two callbacks that race plus a registration or
  a login that meets them; two addresses allow the same subject to arrive with
  another one.

### Fairness

Weak fairness, on steps the Go scheduler, a server or a timer takes by
itself: a goroutine whose next operation can proceed, InnoDB's deadlock
detector (`DeadlockVictim`), replication, the broker's routing and delivery,
the breaker's open timeout, time. Never on faults, clients, signals or new
requests; the exceptions are `search_all`, where searches keep coming, because gobreaker
leaves the half-open state only when somebody calls, and `hub_all`, where a
write to a client that has *gone* returns (TCP reports it). A connected client
that never reads is allowed, and `PublishersNeverBlock` holds all the same.
No fairness is assumed of gRPC calls to the API process, which have no deadline, and of
index writes, which have none either, only while Elasticsearch works.
`polling_all` also uses strong fairness, once each for four things a patient
client meets again and again although they can be taken away in between: being
let in by the limiter while the window has room (for login and for poll), a
query that succeeds early enough, and an answer that gets through. Without
them a fault at every single try would be a legal behaviour. They are not
assumed of a request beyond the limit: that the window ends is what the run
shows. `QueueDrains` is conditional on one replica that stays subscribed, because the code
never subscribes again after a lost connection.

### What the properties say

- `NoDoubleBooking`, `CheckedDatesStayFree`: what `CountOverlapping` found free
  stays free until the commit, so two committed blocks never share a day.
- `BookingIffBlock`, `OneBookingPerRequest`: committed bookings and blocks
  correspond at every moment; retries and cut-off commits leave one at most.
- `AnswerAgreesWithTables`, `EffectsFollowCommit`: neither answers nor events
  contradict the tables.
- `EveryStatusWasEarned`: even with the race, a status is only written if an
  earlier one permits it; `EffectsFollowWrite`: nothing is announced before an UPDATE wrote
  the status asked for, and what is announced, the re-read row, is no older than what the
  request checked (but it may be older than what it wrote, section 4); `SettledIsFinal`: a booking that is over, and known to be
  over, with no writer on the way, stays so.
- `NoPanic`, `NoLeak`, `DisconnectedConnectionEnds`, `PublishersNeverBlock`.
- `LossIsBounded`: fewer messages than workers plus errors lie below the committed offset
  without having been handled, however long the channel is: the bound on the loss of finding 3;
  `EveryMessageHandled`, `CancelledRunReturns`; `FetchErrorDrains`: a fetch error ends the consumer,
  but nothing it had fetched is left unhandled.
- `JobsConserved`, `SettledForAReason`, `DuplicatesCostALoss`, `QueueDrains`;
  `ImplementsJobPool`: a settled job never comes back, and one that a handler has
  seen is never lost.
- `BoundedStaleness`: a page stored by a request with a deadline is outdated for less than
  TTL and timeout together; `EventuallyFresh`: after the last change the stored page ends up current.
- `NoHalfAccount`, `OneUserPerSubject`, `EveryRequestEnds`; `ImplementsAtomicAccounts`: no
  interleaving, retry or late replica leads to a token or a 409 that the accounts do not justify
  when it is given, and an answer is final.
- `DegradesNotFails`: a search fails only when MySQL is down, its client has left or its time is
  used up; `Recovers`: once everything works, both breakers close for good.
- `EachReportIsNews`: no version of a booking is reported twice or after a newer
  one; `OverlooksNothingLater`: what `Poll` overlooks was changed no later than
  in the second of the last answer; `ChangeIsReported`: with that exception
  the last change reaches the client.
- `ShutdownCostsNoAnswer`: MySQL is closed only under polls whose answer
  `WriteTimeout` would no longer let through; `ShutdownEndsAfterCalls`: after SIGTERM a process
  whose gRPC calls end ends too.

The violated ones (`CommittedIsAnswered201`, `OnlyValidTransitions`, `AtLeastOnce`) state
what the repository says of itself; section 4.

Every property of a passing run has a mutant in `PROJECT.json`: a plausible
slip in one definition that makes TLC report it violated.

## 4. Findings

1. `booking_replica`. `CreateAtomic` re-reads the booking it has just committed
   through `Reader()`. ADR 0002 says the replica is never used on this path. With a replica that lags,
   the renter is answered 500, no event, eviction or notification follows, and a second try
   gets 409 from the renter's own block.
2. `lifecycle_invalid`. `UpdateStatus` checks the status it read and then
   updates `WHERE id = ?` only. Two requests that pass the check together, for
   instance approve and cancel, take the booking from cancelled to approved, which
   the comment above the function excludes.
3. `consumer_loss`. Workers commit their own offset as soon as they are done; a
   commit covers all lower offsets. A crash while another worker still has an
   earlier message loses it, against the "at-least-once" of ADR 0002.

Other things the modelling showed, which no run is about. Five of them contradict a comment or a
document, and the exact claim a passing run makes takes them into account:

- *The status announced.* `transition` re-reads the row it has just updated through `Reader()`
  (`service.go:156`), although the comment on `Reader()` asks callers that must read their own
  write to use the primary; the event, the owner's feed and the answer carry that row's
  status. With a replica that lags, `BookingApproved` is published with status `requested`.
  `EffectsFollowWrite` therefore bounds the status by what was checked, not by what was written.
- *A hung search-indexer.* The gRPC call has no deadline of its own and shares the request's ctx with the
  fallback (`search/service.go:61`). An indexer that hangs uses up the 30 s, and the LIKE query fails at
  once with a ctx that is done: a 500 with MySQL up and the client waiting, where `service.go` promises a
  fallback "on any failure" and `fallback_mysql.go` something "better than a 5xx".
  (`HTTP_WRITE_TIMEOUT`, 10 s, has cut the client off by then.) `DegradesNotFails` excepts
  requests whose time is used up. Three of them open the breaker, and the next search takes the
  fallback at once.
- *Feed pages.* `InvalidateDetail` deletes the detail page and the feed page (20, 0)
  (`listing_cache.go:65`); its comment says that it drops the feed pages, all of them. A
  feed with another limit or offset stays until its TTL ends, which is all `BoundedStaleness`
  and `EventuallyFresh` rely on.
- *A shutdown without an end.* `main` calls `GracefulStop`, which has no deadline, before the bounded
  `Shutdown` (`main.go:312`): a gRPC call or a health or reflection stream that stays open keeps the
  process from ending, against the "bounded-timeout drain" of `twelve-factor.md`.
  `ShutdownEndsAfterCalls` has the calls' end as its condition.
- *WebSockets at shutdown.* `Shutdown` does not wait for hijacked connections. A WebSocket
  request between its upgrade (`websocket.go:57`) and its snapshot query finds MySQL closed, although
  `Shutdown` returned in time; the error is dropped and the viewer gets no snapshot.
  `ShutdownCostsNoAnswer` is about polls only.

The rest:

- Publishing to Kafka and RabbitMQ is fire and forget after the commit; there is no outbox, so an
  event or email that meets a broker outage is lost (`service.go:102`).
- A Kafka message whose handler failed is not handled again unless the process
  restarts before a later one is committed; a fetch error ends `Run` while the
  process keeps serving. `rabbitmq.go` speaks of retry-then-DLQ, `Consumer.Run`
  dead-letters at the first error, so that a shutdown, whose context makes the
  contact lookup fail, can dead-letter good jobs.
- `POST /listings` re-reads through `Reader()` too: under lag it answers 500 and the
  listing is never announced to the index.
- Reviews evict nothing, and a reader that loaded before an eviction may store after it. The TTL
  bounds the harm, except that `/partner/v1` has no timeout, so that `BoundedStaleness`
  leaves partners out.
- If the re-read of `transition` fails, the status has changed, the caller gets 500 and
  nothing is announced (`service.go:156`); a damage report that is not saved leaves the booking disputed
  with a warning (`dispute.go:80`).
- `Index.Delete` does not look at the response's status: a delete that Elasticsearch refuses is
  committed as done and counts as a success of the breaker.
- Index writes have no deadline: one that hangs as the trial of the half-open breaker keeps
  searches out of Elasticsearch until it returns.
- Cancelled and rejected bookings keep their `availability_blocks` row.
- A first Google login whose address already has a password account always
  fails with 500, since `UpsertOAuthIdentity` inserts and does not link.
- Both rate limiters count into one Redis key per address, so that 20 ordinary
  API calls use up the budget of the login routes until the next window.
- `HTTP_WRITE_TIMEOUT` is 10 s and counts from the request, while `Poll` waits for
  25 s: its `changed = false` never reaches a client, and a change found after
  10 s is reported by the next poll only. The SSE stream keeps out of the
  router's 30 s timeout (`routes.go`) but not of this one: the first event after
  10 s is lost with the connection, and `EventSource` connects again.
- A change in the second of the last answer is not reported by long polling until
  the row changes again.
- `GracefulStop` runs before `Shutdown`: while HTTP requests are still served, the
  process no longer answers the contact lookup that a dispute leads to.
- A login right after the registration reads the replica and may be refused.
- `PublishListing` has no caller: the WebSocket feed sends its snapshot only.
- `NewBreaker`'s comment says "after MaxRequests consecutive failures"; it trips
  after three, and MaxRequests is one. Cancelled clients count as failures.

## 5. Proofs

TLAPS checks each theorem from the constants' named assumptions, which only
exclude empty parameters (`MaxTxRetries` at least 1, `BufferSize` at least 1),
restrict `Faults` to its kinds, and for `ShutdownCostsNoAnswer` say that `WriteTimeout` does
not exceed `ShutdownTimeout` (10 and 15 s in `config.go`). Numbers of requests, callers, connections,
days, workers, jobs and retries are arbitrary. Sets need not be finite, with two exceptions
where consumers are counted: `Workers` of `EventConsumer` (finite and not empty;
the code starts 4) and `Consumers` of `WorkQueue` (finite). Every safety invariant and
every action property of a passing run is a theorem; each component below
has one inductive invariant, which TLC checked before it was proved.

**Booking creation.** Three layers, each inductive relative to the one before.
`TypeInv` adds to the types that an open transaction has begun and that a loop
going round has attempts left. `SafeInv` is the argument for the locks:
`RangeLocked` (from the locking read to the commit a request holds every key at
which an overlapping block could start) and `PendingApart` (a block about to be
committed starts at a key nobody else has locked) together give
`CheckedDatesStayFree`, and that with `TxRows` gives `NoDoubleBooking` at the
commit. `NoDoubleBooking` alone is not inductive: nothing in it forbids two
transactions that both stand before their commit with overlapping blocks.
`ValidDates` is needed because an empty range overlaps nothing, and
`CommittedIsOver` for `OneBookingPerRequest`. `AnswerInv` relates `pc`, `err`,
`reply` and `effects` to the tables. From all three, `Refinement` proves
`Spec => Atomic!Spec`: a commit is `Book`, an answer one of the other actions,
everything else stutters; the key step is that the SQL predicate `Matches` on
rows coincides with sharing a day.

**Lifecycle.** `LifeInv` adds that a request about to write has read a version
that permits it (`CheckedVersion`), that after the write `wroteAt` holds a
version with its status, that the re-read, which comes from the same reader as the first read,
is no older than that one, and that versions are never rewritten. It implies
`EveryStatusWasEarned` and `EffectsFollowWrite`; `SettledIsFinal` follows from it
as an action property.

**Hub.** `HubInv` ties the phase of each goroutine to the maps, the once and the
number of closes (`SSEPhase`, `WSPhase`), and says that whatever a publisher has
still to visit is registered as long as it holds the read lock (`Snapshot`): a channel can be closed only
after it was unregistered, and unregistering waits for the readers. `NoPanic`
and `NoLeak` follow.

**Long polling and the API process.** `PollInv` has four parts: stamps are whole
seconds, not in the future, and do not decrease (`StampsOK`); the cursor is the
time of the last answer (`CursorOK`); what the client was shown is a version the reader
has, stamped no later than the cursor (`SeenOK`); and what a handler has read is at
least that, with a stamp above the cursor if it answers and not above it if it
waits (`ReadOK`). `EachReportIsNews` needs all but the rounding: got and seen
differ because their stamps lie on different sides of the cursor, and are in order
because a reader never goes back. `OverlooksNothingLater` adds that an even number
not above t is not above `Second(t)`. `ShutdownCostsNoAnswer` rests on one more fact, about time
(`DrainOK`): `Shutdown` begins with `ShutdownTimeout` left and nothing is accepted any more, so that
a poll that is still open is either past `WriteTimeout` or its age and the time left add up
to at least `ShutdownTimeout`; when `Shutdown` gives up no time is left, and in both cases the
answer could no longer be written.

**Kafka consumer.** `ConsumerInv` follows a message: what the fetch loop, the channel
and the workers hold has been published and fetched (`Fetched`); a worker about to commit has handled its message
(`PhasesOK`), so that the committed offset is that of a handled message
(`CommittedWasHandled`), also over restarts and rebalances; and as long as only
the fetching failed, what was fetched is handled or held (`NothingLost`), while a consumer
that has returned holds nothing, which gives `FetchErrorDrains`. `LossIsBounded` needs
three more facts, which hold until the group first resumes (a rebalance fetches again what is
still held). `Ordered`: workers take messages in the order of the offsets, so that what is in the
channel or with the fetch loop lies above the committed offset and above what the workers hold.
`FreeHand`: some worker holds nothing below the committed offset, the one that committed
last, until it takes a message from above. `FewMissing`: until a cancellation or a resume,
the messages that are neither handled nor in the process are as many as the errors at most,
since only a failing handler drops one. What a commit covers unhandled is then missing or with one of
the other workers.

**Breakers.** `SearchTypeCorrect` has the types of all variables, and `DegradesNotFails`
needs no more: of the steps of a search only `Fallback` writes 500, and only with MySQL down or
the ctx over. What the two breakers do in between is left to `Recovers`.

**Work queue.** `QueueInv`. `TopologyOK`: what a side has declared exists, and nobody is
past its start-up without all six declarations; so the broker never looks for a missing
binding. `PlacesOK`: the places of a job exclude each other, and a requested job is in one
while the publisher is there. `ConsumersOK`: on an open channel the client holds only what
the broker counts as unacked, and a consumer that is to ack or nack has a reason.
`DuplicatesCostALoss` is far from inductive; `Budget` counts, for each job, the emails sent,
one while it is queued, one for every consumer that holds a delivery and has not sent it (also
on a channel that has ended), and one for every shutdown that has yet to end a channel, and bounds
the sum by 1 + losses: a delivery moves one unit from the queue to a consumer, an email from
a consumer to `sends`, and only a channel's end creates one, which a loss has paid for. For
`Refinement`, `HandledOK` adds that whatever was handled, or is held by anyone, is a job the
broker has; what is lost with the API's connection is therefore new to everybody.

**Cached pages.** `ReadsInv`: how long a body has been outdated is bounded by the
time its request has run before the Set, and with the entry's remaining life by
TTL + timeout after it (`AgesOK`); `BoundedStaleness` alone says nothing of a body that a
reader still holds. `VersionsOK` (a body on its way to the cache is of a listing that exists) is for the types.

**Accounts.** `AccountsInv`: the rows of a callback's open transaction are those its place in the
code calls for, both or none at the commit (`TxOK`), which gives `NoHalfAccount`; the
unique key on subjects holds over committed and open rows together (`SubjectsOK`), which is
what makes the commit of the second of two racing callbacks harmless. `AnswersAgree` is
inductive with these because rows are never removed, and `OneUserPerSubject` follows from it
and the key. `Refinement` proves `Spec => Atomic!Spec`. Its steps are the INSERT of a
registration, which is `Register`, and the commit of a callback that had to insert, which is `Connect`,
also when the answer to the COMMIT is lost; all other steps answer or stutter. For these two to be allowed
atomically, the unique key on addresses has to hold over committed and open rows (`EmailsOK`), and a
request whose account exists must be past its inserts (`IdsOK`); what a login reads from the
replica is in the table too, since rows are never removed.
`AccountsApart` is proved of the abstract specification and carried over: addresses and subjects
are unique.

**Model-checked only.** All liveness, which needs fairness and `ENABLED`, outside the
prover's reach: `EveryRequestEnds` of bookings and accounts, `DisconnectedConnectionEnds`,
`PublishersNeverBlock`, `EveryMessageHandled`, `CancelledRunReturns`, `QueueDrains`,
`EventuallyFresh`, `Recovers`, `ShutdownEndsAfterCalls` and `ChangeIsReported`. The type
invariants are theorems (`TypeCorrect`, `SearchTypeCorrect`) and not among the runs' properties, and
`CommittedWasHandled` and `AnswersAgree` are theorems only.

## 6. Not modelled

Cryptographic checks and sessions (`internal/auth` except the expiry of access
tokens, the use of bcrypt and of the verified identity), MongoDB reads, the admin, partner and category
pages, the thumbnail transformation, sharding (no caller), the naive feed and
its data loader (benchmark fixtures), configuration other than timeouts, metrics and generated code:
they keep no state that other steps race for, or are pure. Prices and
formatting are left out of the modules that would compute them: no property is about them. Requests
are authenticated ones.

## 7. Plan

Order of work, most important behaviour first:

1. done: `BookingTx` with `AtomicBooking`, `BookingLifecycle`, `Hub`,
   `EventConsumer`, and their proofs;
2. done: `WorkQueue`, `ListingReads`, `Accounts`, `SearchPath`, and their proofs;
3. done: `APIServer` (process life cycle, limiters, access tokens) and
   `LongPolling` on top of it, with their safety proofs;
4. done: `JobPool` and `AtomicAccounts`, the abstract specifications that `WorkQueue` and
   `Accounts` implement, as `AtomicBooking` is for bookings, with their refinement proofs;
   the bound on what the Kafka consumer can lose;
5. left: the way of a listing from the INSERT to the index as one composition of
   `ListingReads`, `EventConsumer` and `SearchPath`.

To reproduce: `tlc -config BookingTx_faults.cfg MCBookingTx` and likewise for the
other configurations, `tlapm BookingTxProofs.tla` and likewise for the other
proof modules.
