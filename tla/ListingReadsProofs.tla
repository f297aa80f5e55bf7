------------------------- MODULE ListingReadsProofs -------------------------
(***************************************************************************)
(* Proofs about the cached pages, for any number of readers and versions   *)
(* and any TTL and timeout.                                                *)
(*                                                                         *)
(* How long a stored page has been outdated is bounded by what its reader  *)
(* could lose before the Set, the time since its request began, and what   *)
(* the entry has lived since (AgesOK).  That no detail page of a listing   *)
(* that does not exist is stored needs to know what the readers hold that  *)
(* may still be stored (VersionsOK).                                       *)
(***************************************************************************)
EXTENDS ListingReads, TLAPS

\* A reader that can still store a page has not been at it for longer than its
\* request; a stored page has used up its life for as long as it is outdated.
AgesOK ==
    /\ \A r \in Readers : pc[r] = "set" =>
          /\ body[r].partner <=> r \in Partners
          /\ Alive(r) /\ r \notin Partners => body[r].behind <= elapsed[r]
    /\ cache.present /\ ~cache.body.partner =>
          cache.body.behind + cache.left <= TTL + Timeout

\* What was loaded is not newer than the replica, and is a listing if it is a
\* detail page.
Known(b) ==
    /\ b.version <= replica
    /\ page = "detail" => b.version > 0

VersionsOK ==
    /\ \A r \in Readers : pc[r] = "set" => Known(body[r])
    /\ cache.present => Known(cache.body)

\* Versions are those of a listing that exists.
CreatorOK == creator = "insert" <=> primary = 0

ReadsInv == TypeOK /\ AgesOK /\ VersionsOK /\ CreatorOK

----------------------------------------------------------------------------
(***************************************************************************)
(* Bodies and entries.                                                     *)
(***************************************************************************)

LEMMA CapFacts == Cap \in Nat /\ TTL \in Nat \ {0} /\ Timeout \in Nat /\ MaxVersion \in Nat
BY ReadsAssumption DEF Cap

LEMMA NoBodyTyped == NoBody \in Body
BY CapFacts DEF NoBody, Body

LEMMA LoadedTyped ==
    ASSUME NEW b \in Body, NEW v \in 0 .. MaxVersion, NEW p \in BOOLEAN
    PROVE  [b EXCEPT !.version = v, !.partner = p] \in Body
BY CapFacts DEF Body

\* A tick makes a body at most one tick staler and changes nothing else.
LEMMA OlderFacts ==
    ASSUME NEW b \in Body
    PROVE  /\ Older(b) \in Body
           /\ Older(b).version = b.version
           /\ Older(b).partner = b.partner
           /\ Older(b).behind \in {b.behind, b.behind + 1}
BY CapFacts DEF Body, Older

\* A tick takes one off the life of an entry, or ends it.
LEMMA AgedFacts ==
    ASSUME NEW e \in Entry \cup {Absent}
    PROVE  /\ Aged(e) \in Entry \cup {Absent}
           /\ Aged(e).present =>
                 e.present /\ Aged(e).body = Older(e.body) /\ Aged(e).left = e.left - 1
<1>1. CASE e = Absent
  <2>1. Aged(e) = Absent
    BY <1>1 DEF Aged, Absent
  <2> QED  BY <2>1 DEF Absent
<1>2. CASE e \in Entry
  <2>1. PICK b \in Body, n \in 1 .. TTL : e = [present |-> TRUE, body |-> b, left |-> n]
    BY <1>2 DEF Entry
  <2>2. e.present = TRUE /\ e.body = b /\ e.left = n
    BY <2>1
  <2>3. Older(b) \in Body
    BY <2>1, OlderFacts
  <2>4. CASE n = 1
    <3>1. Aged(e) = Absent
      BY <2>2, <2>4 DEF Aged
    <3> QED  BY <3>1 DEF Absent
  <2>5. CASE n # 1
    <3>1. Aged(e) = [e EXCEPT !.left = IF @ > TTL THEN @ ELSE @ - 1, !.body = Older(@)]
      BY <2>2, <2>5 DEF Aged
    <3>5. ~(n > TTL)
      BY CapFacts
    <3>2. Aged(e) = [present |-> TRUE, body |-> Older(b), left |-> n - 1]
      BY <2>1, <3>1, <3>5
    <3>3. n - 1 \in 1 .. TTL
      BY <2>5, CapFacts
    <3>4. Aged(e) \in Entry
      BY <2>3, <3>2, <3>3 DEF Entry
    <3> QED  BY <2>2, <3>2, <3>4
  <2> QED  BY <2>4, <2>5
<1> QED  BY <1>1, <1>2

\* The key holds nothing or an entry.
LEMMA CacheCases ==
    ASSUME cache \in Entry \cup {Absent}
    PROVE  \/ cache = Absent /\ cache.present = FALSE
           \/ cache.present = TRUE /\ cache.body \in Body /\ cache.left \in 1 .. TTL
<1>1. CASE cache = Absent
  BY <1>1 DEF Absent
<1>2. CASE cache \in Entry
  <2>1. PICK b \in Body, n \in 1 .. TTL : cache = [present |-> TRUE, body |-> b, left |-> n]
    BY <1>2 DEF Entry
  <2> QED  BY <2>1
<1> QED  BY <1>1, <1>2

----------------------------------------------------------------------------
(***************************************************************************)
(* The invariant is inductive: one lemma per group of actions.             *)
(***************************************************************************)

\* What happens to the listing leaves Redis and the readers alone; the replica
\* only moves forward.
LEMMA WriteStep ==
    ASSUME ReadsInv, Write
    PROVE  ReadsInv'
<1> USE CapFacts
<1>1. /\ UNCHANGED <<redis, reader>>
      /\ primary' \in 0 .. MaxVersion /\ replica' \in replica .. primary'
      /\ creator' \in {"insert", "refetch", "created", "failed"} /\ indexed' \in BOOLEAN
      /\ CreatorOK'
  <2> USE DEF ReadsInv, TypeOK, CreatorOK, store, create
  <2>1. CASE Insert
    BY <2>1, ReadsAssumption DEF Insert
  <2>2. CASE Refetch
    BY <2>2 DEF Refetch, publishEvent
  <2>3. CASE RefetchFails
    BY <2>3 DEF RefetchFails
  <2>4. CASE Review
    BY <2>4 DEF Review
  <2>5. CASE Replicate
    BY <2>5 DEF Replicate
  <2> QED  BY <2>1, <2>2, <2>3, <2>4, <2>5 DEF Write
<1>2. replica \in Nat /\ replica' \in Nat /\ replica <= replica'
  BY <1>1 DEF ReadsInv, TypeOK
<1>3. TypeOK'
  BY <1>1, <1>2 DEF ReadsInv, TypeOK, redis, reader
<1>4. AgesOK'
  BY <1>1 DEF ReadsInv, AgesOK, Alive, redis, reader
<1>5. VersionsOK'
  <2>1. ASSUME NEW b \in Body, Known(b) PROVE Known(b)'
    BY <1>1, <1>2, <2>1 DEF Known, Body, redis
  <2>2. \A r \in Readers : body[r] \in Body
    BY DEF ReadsInv, TypeOK
  <2>3. cache.present => cache.body \in Body
    BY CacheCases DEF ReadsInv, TypeOK
  <2> QED  BY <1>1, <1>2, <2>1, <2>2, <2>3 DEF ReadsInv, VersionsOK, redis, reader
<1> QED  BY <1>1, <1>3, <1>4, <1>5 DEF ReadsInv

\* An eviction empties the key, or does nothing.
LEMMA EvictStep ==
    ASSUME ReadsInv, Evict
    PROVE  ReadsInv'
<1>1. /\ cache' = Absent \/ UNCHANGED cache
      /\ UNCHANGED <<store, create, page, reader>> /\ evictor' \in {"idle", "feed"}
  BY DEF Evict, InvalidateDetail, InvalidateFeed, Del
<1>2. CASE UNCHANGED cache
  BY <1>1, <1>2
     DEF ReadsInv, TypeOK, AgesOK, VersionsOK, CreatorOK, Known, Alive, store, create, reader
<1>3. CASE cache' = Absent
  <2>1. ~cache'.present
    BY <1>3 DEF Absent
  <2> QED  BY <1>1, <1>3, <2>1
           DEF ReadsInv, TypeOK, AgesOK, VersionsOK, CreatorOK, Known, Alive, store, create,
               reader
<1> QED  BY <1>1, <1>2, <1>3

\* A step of a reader that stores nothing: it moves on with what it has, loads the
\* page from the replica, or ends.
LEMMA ReaderStep ==
    ASSUME ReadsInv, NEW r \in Readers, UNCHANGED <<store, create, page, evictor>>,
           \/ /\ pc' \in {[pc EXCEPT ![r] = "get"], [pc EXCEPT ![r] = "load"]}
              /\ UNCHANGED <<elapsed, body>>
           \/ Load(r)
           \/ Answer(r)
    PROVE  /\ pc' \in [Readers -> {"idle", "get", "load", "set"}]
           /\ elapsed' \in [Readers -> 0 .. Timeout + 1]
           /\ body' \in [Readers -> Body]
           /\ \A s \in Readers : pc'[s] = "set" =>
                 /\ body'[s].partner <=> s \in Partners
                 /\ Alive(s)' /\ s \notin Partners => body'[s].behind <= elapsed'[s]
                 /\ Known(body[s])'
<1> USE CapFacts DEF ReadsInv, TypeOK, store
<1>0. UNCHANGED <<replica, page>>
  OBVIOUS
<1>1. CASE UNCHANGED <<elapsed, body>>
           /\ pc' \in {[pc EXCEPT ![r] = "get"], [pc EXCEPT ![r] = "load"]}
  <2>1. /\ pc' \in [Readers -> {"idle", "get", "load", "set"}]
        /\ \A s \in Readers : pc'[s] = "set" => pc[s] = "set"
    BY <1>1
  <2> QED  BY <1>0, <1>1, <2>1 DEF AgesOK, VersionsOK, Alive, Known
<1>2. CASE Load(r)
  <2> DEFINE b == [NoBody EXCEPT !.version = replica, !.partner = r \in Partners]
  <2>1. /\ body' = [body EXCEPT ![r] = b] /\ pc' = [pc EXCEPT ![r] = "set"]
        /\ elapsed' = elapsed /\ (page = "detail" => replica > 0)
    BY <1>2 DEF Load, Goto
  <2>2. b \in Body /\ b.version = replica /\ b.behind = 0 /\ (b.partner <=> r \in Partners)
    <3>1. (r \in Partners) \in BOOLEAN /\ replica \in 0 .. MaxVersion
      OBVIOUS
    <3>2. b \in Body
      BY <3>1, NoBodyTyped, LoadedTyped, Zenon
    <3> QED  BY <3>2 DEF NoBody
  <2>3. b.version <= replica /\ (page = "detail" => b.version > 0)
    BY <2>1, <2>2 DEF VersionsOK
  <2> HIDE DEF b
  <2>4. /\ body'[r] = b /\ \A s \in Readers : s # r => body'[s] = body[s] /\ pc'[s] = pc[s]
        /\ body' \in [Readers -> Body] /\ pc' \in [Readers -> {"idle", "get", "load", "set"}]
    BY <2>1, <2>2
  <2>5. elapsed[r] \in Nat
    OBVIOUS
  <2>6. ASSUME NEW s \in Readers, pc'[s] = "set", s # r
        PROVE  /\ body'[s].partner <=> s \in Partners
               /\ Alive(s)' /\ s \notin Partners => body'[s].behind <= elapsed'[s]
               /\ Known(body[s])'
    BY <1>0, <2>1, <2>4, <2>6 DEF AgesOK, VersionsOK, Alive, Known
  <2>7. /\ body'[r].partner <=> r \in Partners
        /\ Alive(r)' /\ r \notin Partners => body'[r].behind <= elapsed'[r]
        /\ Known(body[r])'
    BY <1>0, <2>1, <2>2, <2>3, <2>4, <2>5 DEF Known
  <2> QED  BY <2>1, <2>4, <2>6, <2>7
<1>3. CASE Answer(r)
  <2>1. /\ pc' = [pc EXCEPT ![r] = "idle"] /\ elapsed' = [elapsed EXCEPT ![r] = 0]
        /\ body' = [body EXCEPT ![r] = NoBody]
    BY <1>3 DEF Answer
  <2>2. /\ pc' \in [Readers -> {"idle", "get", "load", "set"}]
        /\ elapsed' \in [Readers -> 0 .. Timeout + 1] /\ body' \in [Readers -> Body]
        /\ \A s \in Readers : pc'[s] = "set" =>
               pc[s] = "set" /\ body'[s] = body[s] /\ elapsed'[s] = elapsed[s]
    BY <2>1, NoBodyTyped
  <2> QED  BY <1>0, <2>2 DEF AgesOK, VersionsOK, Alive, Known
<1> QED  BY <1>1, <1>2, <1>3

\* Requests keep the invariant; only Set writes to Redis.
LEMMA ReadStep ==
    ASSUME ReadsInv, NEW r \in Readers, Request(r) \/ Read(r)
    PROVE  ReadsInv'
<1> USE CapFacts
<1> DEFINE Readers1 ==
             /\ pc' \in [Readers -> {"idle", "get", "load", "set"}]
             /\ elapsed' \in [Readers -> 0 .. Timeout + 1]
             /\ body' \in [Readers -> Body]
             /\ \A s \in Readers : pc'[s] = "set" =>
                   /\ body'[s].partner <=> s \in Partners
                   /\ Alive(s)' /\ s \notin Partners => body'[s].behind <= elapsed'[s]
                   /\ Known(body[s])'
<1>1. CASE Request(r) \/ Hit(r) \/ Miss(r) \/ Load(r) \/ LoadFails(r) \/ SetFails(r)
  <2>1. UNCHANGED <<store, create, page, cache, evictor>>
    BY <1>1 DEF Request, Hit, Miss, Load, LoadFails, SetFails, redis
  <2>2. Readers1
    <3>1. \/ /\ pc' \in {[pc EXCEPT ![r] = "get"], [pc EXCEPT ![r] = "load"]}
             /\ UNCHANGED <<elapsed, body>>
          \/ Load(r)
          \/ Answer(r)
      BY <1>1 DEF Request, Hit, Miss, LoadFails, SetFails, Goto
    <3> QED  BY <2>1, <3>1, ReaderStep
  <2>3. TypeOK'
    BY <2>1, <2>2 DEF ReadsInv, TypeOK, store, create
  <2>4. AgesOK'
    BY <2>1, <2>2 DEF ReadsInv, AgesOK
  <2>5. VersionsOK'
    <3>1. UNCHANGED <<replica, page, cache>>
      BY <2>1 DEF store
    <3>2. cache.present => Known(cache.body)'
      BY <3>1 DEF ReadsInv, VersionsOK, Known
    <3> QED  BY <2>2, <3>1, <3>2 DEF ReadsInv, VersionsOK
  <2> QED  BY <2>1, <2>3, <2>4, <2>5 DEF ReadsInv, CreatorOK, store, create
<1>2. CASE Set(r)
  <2>1. /\ UNCHANGED <<store, create, page, evictor>>
        /\ pc[r] = "set" /\ Alive(r) /\ Answer(r)
        /\ cache' = [present |-> TRUE, body |-> body[r], left |-> TTL]
    BY <1>2 DEF Set
  <2>2. Readers1
    BY <2>1, ReaderStep
  <2>3. /\ cache' \in Entry /\ cache'.present = TRUE /\ cache'.body = body[r]
        /\ cache'.left = TTL /\ body[r] \in Body
    BY <2>1 DEF ReadsInv, TypeOK, Entry
  <2>4. UNCHANGED <<primary, replica, page, creator, indexed, evictor>>
    BY <2>1 DEF store, create
  <2>5. Known(body[r])
    BY <2>1 DEF ReadsInv, VersionsOK
  <2>6. page = "detail" => body[r].version > 0
    BY <2>5 DEF Known
  <2>7. TypeOK'
    BY <2>2, <2>3, <2>4, <2>6 DEF ReadsInv, TypeOK
  <2>8. ~body[r].partner => body[r].behind + TTL <= TTL + Timeout
    <3>1. SUFFICES ASSUME ~body[r].partner PROVE body[r].behind + TTL <= TTL + Timeout
      OBVIOUS
    <3>2. r \notin Partners
      BY <2>1, <3>1 DEF ReadsInv, AgesOK
    <3>3. elapsed[r] <= Timeout /\ body[r].behind <= elapsed[r]
      BY <2>1, <3>2 DEF ReadsInv, AgesOK, Alive
    <3>4. elapsed[r] \in Nat /\ body[r].behind \in Nat
      BY <2>3 DEF ReadsInv, TypeOK, Body
    <3> QED  BY <3>3, <3>4
  <2>9. AgesOK'
    BY <2>2, <2>3, <2>8 DEF AgesOK
  <2>10. VersionsOK'
    <3>1. Known(cache.body)'
      BY <2>3, <2>4, <2>5 DEF Known
    <3> QED  BY <2>2, <2>4, <3>1 DEF ReadsInv, VersionsOK
  <2> QED  BY <2>4, <2>7, <2>9, <2>10 DEF ReadsInv, CreatorOK
<1> QED  BY <1>1, <1>2 DEF Read

\* A tick: whatever gets one tick staler has one tick less to live, or has waited
\* one tick longer.
LEMMA TickStep ==
    ASSUME ReadsInv, Tick
    PROVE  ReadsInv'
<1> USE CapFacts
<1>1. UNCHANGED <<primary, replica, creator, indexed, page, evictor, pc>>
  BY DEF Tick, store, create
<1>2. /\ cache' \in Entry \cup {Absent}
      /\ cache'.present => /\ cache.present /\ cache'.body = Older(cache.body)
                           /\ cache'.left = cache.left - 1
  BY AgedFacts DEF Tick, ReadsInv, TypeOK
<1>3. cache.present => cache.body \in Body /\ cache.left \in 1 .. TTL
  BY CacheCases DEF ReadsInv, TypeOK
<1>4. ASSUME NEW r \in Readers
      PROVE  /\ body[r] \in Body /\ body'[r] \in Body
             /\ pc[r] = "set" => body'[r] = Older(body[r])
             /\ elapsed[r] \in 0 .. Timeout + 1 /\ elapsed'[r] \in 0 .. Timeout + 1
             /\ pc[r] = "set" => elapsed'[r] = elapsed[r] + 1 \/ elapsed'[r] = Timeout + 1
  <2>1. /\ body[r] \in Body
        /\ body'[r] = IF pc[r] = "set" THEN Older(body[r]) ELSE body[r]
    BY DEF Tick, ReadsInv, TypeOK
  <2>2. Older(body[r]) \in Body
    BY <2>1, OlderFacts
  <2>3. /\ elapsed[r] \in 0 .. Timeout + 1
        /\ elapsed'[r] = IF pc[r] # "idle" /\ elapsed[r] <= Timeout
                           THEN elapsed[r] + 1 ELSE elapsed[r]
    BY DEF Tick, ReadsInv, TypeOK
  <2> QED  BY <2>1, <2>2, <2>3
<1>5. ASSUME NEW b \in Body, Known(b)
      PROVE  /\ Older(b).version <= replica' /\ (page' = "detail" => Older(b).version > 0)
  BY <1>1, <1>5, OlderFacts DEF Known
<1>6. VersionsOK'
  <2>1. \A r \in Readers : pc'[r] = "set" => Known(body[r])'
    BY <1>1, <1>4, <1>5 DEF ReadsInv, VersionsOK, Known
  <2>2. cache'.present => Known(cache.body)'
    BY <1>2, <1>3, <1>5 DEF ReadsInv, VersionsOK, Known
  <2> QED  BY <1>1, <2>1, <2>2 DEF ReadsInv, VersionsOK
<1>7. TypeOK'
  <2>1. body' \in [Readers -> Body] /\ elapsed' \in [Readers -> 0 .. Timeout + 1]
    BY <1>4 DEF Tick
  <2>2. page' = "detail" /\ cache'.present => cache'.body.version > 0
    BY <1>6 DEF VersionsOK, Known
  <2> QED  BY <1>1, <1>2, <2>1, <2>2 DEF ReadsInv, TypeOK
<1>8. AgesOK'
  <2>1. ASSUME NEW r \in Readers, pc'[r] = "set"
        PROVE  /\ body'[r].partner <=> r \in Partners
               /\ Alive(r)' /\ r \notin Partners => body'[r].behind <= elapsed'[r]
    <3>1. /\ body'[r].partner = body[r].partner
          /\ body'[r].behind \in {body[r].behind, body[r].behind + 1}
      BY <1>1, <1>4, <2>1, OlderFacts
    <3>2. body'[r].partner <=> r \in Partners
      BY <1>1, <2>1, <3>1 DEF ReadsInv, AgesOK
    <3>3. body[r].behind \in Nat /\ elapsed[r] \in Nat
      BY <1>4 DEF Body
    <3>4. Alive(r)' /\ r \notin Partners =>
            elapsed'[r] = elapsed[r] + 1 /\ Alive(r)
      BY <1>1, <1>4, <2>1, <3>3 DEF Alive
    <3>5. Alive(r) /\ r \notin Partners => body[r].behind <= elapsed[r]
      BY <1>1, <2>1 DEF ReadsInv, AgesOK
    <3> QED  BY <3>1, <3>2, <3>3, <3>4, <3>5
  <2>2. cache'.present /\ ~cache'.body.partner =>
          cache'.body.behind + cache'.left <= TTL + Timeout
    <3>1. SUFFICES ASSUME cache'.present, ~cache'.body.partner
                   PROVE  cache'.body.behind + cache'.left <= TTL + Timeout
      OBVIOUS
    <3>2. /\ cache.body \in Body /\ cache.left \in 1 .. TTL
          /\ cache'.left = cache.left - 1
          /\ cache'.body.behind \in {cache.body.behind, cache.body.behind + 1}
          /\ cache'.body.partner = cache.body.partner
      BY <1>2, <1>3, <3>1, OlderFacts
    <3>3. cache.body.behind + cache.left <= TTL + Timeout
      BY <1>2, <3>1, <3>2 DEF ReadsInv, AgesOK
    <3>4. cache.body.behind \in Nat
      BY <3>2 DEF Body
    <3> QED  BY <3>2, <3>3, <3>4
  <2> QED  BY <2>1, <2>2 DEF AgesOK
<1> QED  BY <1>1, <1>6, <1>7, <1>8 DEF ReadsInv, CreatorOK

----------------------------------------------------------------------------
(***************************************************************************)
(* Theorems.                                                               *)
(***************************************************************************)

LEMMA ReadsInvariant == Spec => []ReadsInv
<1>1. Init => ReadsInv
  <2> SUFFICES ASSUME Init PROVE ReadsInv
    OBVIOUS
  <2>1. cache = Absent /\ ~cache.present
    BY DEF Init, Absent
  <2>2. /\ pc \in [Readers -> {"idle", "get", "load", "set"}]
        /\ elapsed \in [Readers -> 0 .. Timeout + 1]
        /\ body \in [Readers -> Body]
        /\ \A r \in Readers : pc[r] # "set"
    BY CapFacts, NoBodyTyped DEF Init
  <2>3. indexed \in BOOLEAN
    BY DEF Init
  <2>4. TypeOK
    BY <2>1, <2>2, <2>3, CapFacts DEF Init, TypeOK
  <2>5. AgesOK /\ VersionsOK
    BY <2>1, <2>2 DEF Init, AgesOK, VersionsOK
  <2> QED  BY <2>4, <2>5 DEF Init, ReadsInv, CreatorOK
<1>2. ReadsInv /\ [Next]_vars => ReadsInv'
  <2> SUFFICES ASSUME ReadsInv, [Next]_vars PROVE ReadsInv'
    OBVIOUS
  <2>1. CASE UNCHANGED vars
    BY <2>1
       DEF ReadsInv, TypeOK, AgesOK, VersionsOK, CreatorOK, Known, Alive, vars, store,
           create, redis, reader
  <2> QED  BY <2>1, WriteStep, EvictStep, TickStep, ReadStep DEF Next
<1> QED  BY <1>1, <1>2, PTL DEF Spec

\* The variables keep their types; in particular no detail page of a listing that
\* does not exist is ever stored.
THEOREM TypeCorrect == Spec => []TypeOK
BY ReadsInvariant, PTL DEF ReadsInv

\* A page that a request with a deadline stored is outdated for less than the TTL
\* and the timeout together, for any number of readers and evictions.
THEOREM BoundedStalenessHolds == Spec => []BoundedStaleness
<1>1. ReadsInv => BoundedStaleness
  <2> SUFFICES ASSUME ReadsInv, cache.present, ~cache.body.partner
               PROVE  cache.body.behind < TTL + Timeout
    BY DEF BoundedStaleness
  <2>1. cache.body \in Body /\ cache.left \in 1 .. TTL
    BY CacheCases DEF ReadsInv, TypeOK
  <2>2. cache.body.behind + cache.left <= TTL + Timeout
    BY DEF ReadsInv, AgesOK
  <2>3. cache.body.behind \in Nat
    BY <2>1, CapFacts DEF Body
  <2> QED  BY <2>1, <2>2, <2>3, CapFacts
<1> QED  BY <1>1, ReadsInvariant, PTL

=============================================================================
