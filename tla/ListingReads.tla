---------------------------- MODULE ListingReads ----------------------------
(***************************************************************************)
(* One page that shows a listing, as readers see it: the listing's         *)
(* creation, the reviews that change its content, the MySQL replica the    *)
(* page is computed from, and the Redis cache-aside layer in front of it   *)
(* (internal/cache/listing_cache.go, internal/listing/handler.go), which   *)
(* booking.Service evicts.                                                 *)
(*                                                                         *)
(* The content is a version: 0 before the listing exists, then 1, 2, ...   *)
(* Time passes in ticks; an entry, or the version a reader has loaded,     *)
(* counts the ticks for which the replica has had a later one.  Redis and  *)
(* the replication are external.                                           *)
(***************************************************************************)
EXTENDS Integers

CONSTANTS
    Readers,      \* GET requests in progress at a time
    Partners,     \* those under /partner/v1, which has no timeout
    TTL,          \* life of an entry in ticks, 30 s
    Timeout,      \* deadline of a request in ticks, 30 s
    MaxVersion,   \* bound on the changes
    Faults        \* which of FaultKinds may happen

\* The listing's own page, the feed with limit 20 and offset 0, any other feed.
\* Each has a key of its own in Redis, so that one is enough to look at.
Pages == {"detail", "feed", "other feed"}

\* Redis or the replica does not answer.
FaultKinds == {"redis", "mysql"}

ASSUME ReadsAssumption ==
    /\ Partners \subseteq Readers
    /\ TTL \in Nat \ {0} /\ Timeout \in Nat /\ MaxVersion \in Nat \ {0}
    /\ Faults \subseteq FaultKinds

VARIABLES
    primary,   \* version in the primary
    replica,   \* version the replica has applied
    creator,   \* where POST /listings is
    indexed,   \* ListingCreated was published
    page,      \* the page that is looked at
    cache,     \* Redis: what is stored under its key
    evictor,   \* where booking.Service's invalidateListingCache is
    pc,        \* where each reader is
    elapsed,   \* ticks since its request began, up to Timeout + 1
    body       \* what it has loaded

store == <<primary, replica>>
create == <<creator, indexed>>
redis == <<page, cache, evictor>>
reader == <<pc, elapsed, body>>
vars == <<store, create, redis, reader>>

\* Counts of ticks stop here, above every bound that is claimed.
Cap == TTL + Timeout

\* A version with the ticks for which it has been outdated, and whether a partner
\* loaded it.
Body == [version : 0 .. MaxVersion, behind : 0 .. Cap, partner : BOOLEAN]
Absent == [present |-> FALSE]
Entry == [present : {TRUE}, body : Body, left : 1 .. TTL]

TypeOK ==
    /\ primary \in 0 .. MaxVersion
    /\ replica \in 0 .. primary
    /\ creator \in {"insert", "refetch", "created", "failed"}
    /\ indexed \in BOOLEAN
    /\ page \in Pages
    /\ cache \in Entry \cup {Absent}
    /\ page = "detail" /\ cache.present => cache.body.version > 0
    /\ evictor \in {"idle", "feed"}
    /\ pc \in [Readers -> {"idle", "get", "load", "set"}]
    /\ elapsed \in [Readers -> 0 .. Timeout + 1]
    /\ body \in [Readers -> Body]

NoBody == [version |-> 0, behind |-> 0, partner |-> FALSE]

Init ==
    /\ primary = 0 /\ replica = 0
    /\ creator = "insert" /\ indexed = FALSE
    /\ page \in Pages
    /\ cache = Absent
    /\ evictor = "idle"
    /\ pc = [r \in Readers |-> "idle"]
    /\ elapsed = [r \in Readers |-> 0]
    /\ body = [r \in Readers |-> NoBody]

----------------------------------------------------------------------------
(***************************************************************************)
(* What changes the content.                                               *)
(***************************************************************************)

\* Service.Create: the INSERT.
Insert ==
    /\ creator = "insert"
    /\ primary' = 1
    /\ creator' = "refetch"
    /\ UNCHANGED <<replica, indexed, redis, reader>>

\* ListingCreated is published, or the broker is down, which is only printed.
publishEvent == indexed' \in BOOLEAN

\* GetByID on the reader finds the row: publishEvent, and the answer is 201.
Refetch ==
    /\ creator = "refetch"
    /\ replica > 0
    /\ creator' = "created"
    /\ publishEvent
    /\ UNCHANGED <<store, redis, reader>>

\* The replica does not have the row yet, or fails: 500, and no event.
RefetchFails ==
    /\ creator = "refetch"
    /\ replica = 0 \/ "mysql" \in Faults
    /\ creator' = "failed"
    /\ UNCHANGED <<store, indexed, redis, reader>>

\* review.Service.Create: one INSERT, which changes the rating.  It evicts
\* nothing.
Review ==
    /\ primary \in 1 .. MaxVersion - 1
    /\ primary' = primary + 1
    /\ UNCHANGED <<replica, create, redis, reader>>

Replicate ==
    /\ replica < primary
    /\ replica' = replica + 1
    /\ UNCHANGED <<primary, create, redis, reader>>

----------------------------------------------------------------------------
(***************************************************************************)
(* Eviction, from booking.Service after every booking change.              *)
(***************************************************************************)

\* Redis deletes the key of page p, or does not and the error is ignored.
Del(p) ==
    \/ p = page /\ cache' = Absent
    \/ (p # page \/ "redis" \in Faults) /\ UNCHANGED cache

\* InvalidateDetail: Del of the detail key ...
InvalidateDetail ==
    /\ evictor = "idle"
    /\ primary > 0
    /\ Del("detail")
    /\ evictor' = "feed"
    /\ UNCHANGED <<store, create, page, reader>>

\* ... and then of one feed key, feedKey(20, 0).
InvalidateFeed ==
    /\ evictor = "feed"
    /\ Del("feed")
    /\ evictor' = "idle"
    /\ UNCHANGED <<store, create, page, reader>>

----------------------------------------------------------------------------
(***************************************************************************)
(* Readers: Handler.Feed and Handler.GetDetail.                            *)
(***************************************************************************)

Goto(r, l) == pc' = [pc EXCEPT ![r] = l] /\ UNCHANGED elapsed

\* The response is written and the request over.
Answer(r) ==
    /\ pc' = [pc EXCEPT ![r] = "idle"]
    /\ elapsed' = [elapsed EXCEPT ![r] = 0]
    /\ body' = [body EXCEPT ![r] = NoBody]

\* The request's context is still live.
Alive(r) == r \in Partners \/ elapsed[r] <= Timeout

\* A partner reads feeds only.
Request(r) ==
    /\ pc[r] = "idle"
    /\ page = "detail" => r \notin Partners
    /\ Goto(r, "get")
    /\ UNCHANGED <<store, create, redis, body>>

\* Mutant: a hit extends the life of the entry.
HitExtends(r) ==
    /\ pc[r] = "get" /\ Alive(r)
    /\ cache.present
    /\ cache' = [cache EXCEPT !.left = TTL]
    /\ Answer(r)
    /\ UNCHANGED <<store, create, page, evictor>>

\* A hit is answered with the stored body.
Hit(r) ==
    /\ pc[r] = "get" /\ Alive(r)
    /\ cache.present
    /\ Answer(r)
    /\ UNCHANGED <<store, create, redis>>

\* No entry, no Redis, or no time left: the same as a miss.
Miss(r) ==
    /\ pc[r] = "get"
    /\ ~cache.present \/ "redis" \in Faults \/ ~Alive(r)
    /\ Goto(r, "load")
    /\ UNCHANGED <<store, create, redis, body>>

\* The page is computed from the replica; the detail page needs the listing.
Load(r) ==
    /\ pc[r] = "load" /\ Alive(r)
    /\ page = "detail" => replica > 0
    /\ body' = [body EXCEPT ![r] = [NoBody EXCEPT !.version = replica,
                                                  !.partner = r \in Partners]]
    /\ Goto(r, "set")
    /\ UNCHANGED <<store, create, redis>>

\* No such listing, or a failed query: 404 for the detail page, 500 for a feed.
LoadFails(r) ==
    /\ pc[r] = "load"
    /\ (page = "detail" /\ replica = 0) \/ "mysql" \in Faults \/ ~Alive(r)
    /\ Answer(r)
    /\ UNCHANGED <<store, create, redis>>

\* Mutant: the entry is stored without an expiry.
SetForever(r) ==
    /\ pc[r] = "set" /\ Alive(r)
    /\ cache' = [present |-> TRUE, body |-> body[r], left |-> TTL + 1]
    /\ Answer(r)
    /\ UNCHANGED <<store, create, page, evictor>>

\* SetFeed or SetDetail, then the answer.
Set(r) ==
    /\ pc[r] = "set" /\ Alive(r)
    /\ cache' = [present |-> TRUE, body |-> body[r], left |-> TTL]
    /\ Answer(r)
    /\ UNCHANGED <<store, create, page, evictor>>

\* An error of Set is ignored.
SetFails(r) ==
    /\ pc[r] = "set"
    /\ "redis" \in Faults \/ ~Alive(r)
    /\ Answer(r)
    /\ UNCHANGED <<store, create, redis>>

----------------------------------------------------------------------------
(***************************************************************************)
(* Time.                                                                   *)
(***************************************************************************)

Older(b) ==
    IF b.version < replica /\ b.behind < Cap THEN [b EXCEPT !.behind = @ + 1] ELSE b

\* An entry after one tick; above TTL it has no expiry.
Aged(e) ==
    IF ~e.present \/ e.left = 1 THEN Absent
    ELSE [e EXCEPT !.left = IF @ > TTL THEN @ ELSE @ - 1, !.body = Older(@)]

Tick ==
    /\ cache' = Aged(cache)
    /\ body' = [r \in Readers |-> IF pc[r] = "set" THEN Older(body[r]) ELSE body[r]]
    /\ elapsed' = [r \in Readers |->
                     IF pc[r] # "idle" /\ elapsed[r] <= Timeout
                       THEN elapsed[r] + 1 ELSE elapsed[r]]
    /\ UNCHANGED <<store, create, page, evictor, pc>>

Read(r) ==
    Hit(r) \/ Miss(r) \/ Load(r) \/ LoadFails(r) \/ Set(r) \/ SetFails(r)
Write == Insert \/ Refetch \/ RefetchFails \/ Review \/ Replicate
Evict == InvalidateDetail \/ InvalidateFeed

Next ==
    \/ Write \/ Evict \/ Tick
    \/ \E r \in Readers : Request(r) \/ Read(r)

Spec == Init /\ [][Next]_vars

\* Requests that have begun go on, time passes and the replica catches up;
\* nobody need read, review or book.
Fairness ==
    /\ WF_vars(Tick) /\ WF_vars(Replicate)
    /\ \A r \in Readers : WF_vars(Read(r))

FairSpec == Spec /\ Fairness

----------------------------------------------------------------------------
(***************************************************************************)
(* Properties.                                                             *)
(***************************************************************************)

\* A page stored by a request with a deadline is outdated for less than the
\* request's timeout and the TTL together, however slow the reader was and
\* however many others read, store and evict the page in between.
BoundedStaleness ==
    cache.present /\ ~cache.body.partner => cache.body.behind < TTL + Timeout

\* Once the last change is made, the stored page is up to date from some point
\* on and stays so, also a feed that is never evicted, and although slow readers
\* may store what they loaded long before.
EventuallyFresh ==
    primary = MaxVersion ~> [](cache.present => cache.body.version = MaxVersion)

============================================================================
