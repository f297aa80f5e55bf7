----------------------------- MODULE SearchPath -----------------------------
(***************************************************************************)
(* GET /search: search.Service tries search-indexer over gRPC behind the   *)
(* API's circuit breaker and falls back to MySQL; search-indexer asks      *)
(* Elasticsearch behind a breaker of its own, which it shares with the     *)
(* consumer that upserts the documents.                                    *)
(*                                                                         *)
(* gobreaker is external: a closed breaker counts consecutive failures and *)
(* opens when ReadyToTrip says so; after Timeout it is half open and lets  *)
(* MaxRequests trials through, whose success closes and whose failure      *)
(* opens it; the result of a call counts only if the breaker has not       *)
(* changed state, or its Interval ended, since the call began.             *)
(***************************************************************************)
EXTENDS Integers, FiniteSets

CONSTANTS
    Searchers,    \* search requests in progress at a time
    Indexer,      \* the consumer of listing.events in search-indexer
    TripAt        \* consecutive failures that open a breaker, 3

ASSUME SearchAssumption == TripAt \in Nat \ {0} /\ Indexer \notin Searchers

\* Trials of a half-open breaker; as it is 1, the first success closes it.
MaxRequests == 1

Breakers == {"api", "elasticsearch"}
Dependencies == {"grpc", "elasticsearch", "mysql"}
Callers == Searchers \cup {Indexer}

VARIABLES
    up,        \* which of the dependencies work
    state,     \* of each breaker
    failures,  \* consecutive failures it has counted
    trials,    \* requests it has let through half open
    pc,        \* where each caller is
    inside,    \* the calls whose result a breaker will count
    gone,      \* searchers whose client has left
    expired,   \* searchers whose request has used up its 30 s
    result     \* what a searcher's call returned; "500" after a search that failed

breaker == <<state, failures, trials, inside>>
searchVars == <<up, breaker, pc, gone, expired, result>>

Results == {"none", "ok", "error", "500"}

SearchTypeOK ==
    /\ up \in [Dependencies -> BOOLEAN]
    /\ state \in [Breakers -> {"closed", "half-open", "open"}]
    /\ failures \in [Breakers -> 0 .. TripAt - 1]
    /\ trials \in [Breakers -> 0 .. MaxRequests]
    /\ pc \in [Callers -> {"idle", "execute", "rpc", "query", "delete", "return", "fallback"}]
    /\ inside \in [Breakers -> SUBSET Callers]
    /\ gone \subseteq Searchers /\ expired \subseteq Searchers
    /\ result \in [Searchers -> Results]

SearchInit ==
    /\ up = [d \in Dependencies |-> TRUE]
    /\ state = [b \in Breakers |-> "closed"]
    /\ failures = [b \in Breakers |-> 0]
    /\ trials = [b \in Breakers |-> 0]
    /\ pc = [c \in Callers |-> "idle"]
    /\ inside = [b \in Breakers |-> {}]
    /\ gone = {} /\ expired = {}
    /\ result = [s \in Searchers |-> "none"]

----------------------------------------------------------------------------
(***************************************************************************)
(* Breakers.                                                               *)
(***************************************************************************)

\* The breaker changes state, or starts counting anew.
NewGeneration(b, to) ==
    /\ state' = [state EXCEPT ![b] = to]
    /\ failures' = [failures EXCEPT ![b] = 0]
    /\ trials' = [trials EXCEPT ![b] = 0]
    /\ inside' = [inside EXCEPT ![b] = {}]

OpenTimeout(b) ==
    /\ state[b] = "open"
    /\ NewGeneration(b, "half-open")
    /\ UNCHANGED <<up, pc, gone, expired, result>>

IntervalEnds(b) ==
    /\ state[b] = "closed"
    /\ failures[b] > 0 \/ inside[b] # {}
    /\ NewGeneration(b, "closed")
    /\ UNCHANGED <<up, pc, gone, expired, result>>

\* Execute does not return ErrOpenState or ErrTooManyRequests.
Allows(b) ==
    \/ state[b] = "closed"
    \/ state[b] = "half-open" /\ trials[b] < MaxRequests

BeforeRequest(b, c) ==
    /\ Allows(b)
    /\ trials' = [trials EXCEPT ![b] = IF state[b] = "half-open" THEN @ + 1 ELSE @]
    /\ inside' = [inside EXCEPT ![b] = @ \cup {c}]
    /\ UNCHANGED <<state, failures>>

\* ReadyToTrip of NewBreaker, before the failure is counted.
ReadyToTrip(b) == failures[b] + 1 >= TripAt

\* c's call returns; the result of an earlier generation is ignored.
AfterRequest(b, c, ok) ==
    IF c \notin inside[b] THEN UNCHANGED breaker
    ELSE IF state[b] = "half-open"
           THEN NewGeneration(b, IF ok THEN "closed" ELSE "open")
         ELSE IF ~ok /\ ReadyToTrip(b) THEN NewGeneration(b, "open")
         ELSE /\ inside' = [inside EXCEPT ![b] = @ \ {c}]
              /\ failures' = [failures EXCEPT ![b] = IF ok THEN 0 ELSE @ + 1]
              /\ UNCHANGED <<state, trials>>

----------------------------------------------------------------------------
(***************************************************************************)
(* The API.                                                                *)
(***************************************************************************)

Goto(c, l) == pc' = [pc EXCEPT ![c] = l]

\* ctx, which the gRPC call and the MySQL query share, is over.
Done(s) == s \in gone \cup expired

\* The answer is written and the request, with its ctx, over.
End(s, answer) ==
    /\ Goto(s, "idle")
    /\ result' = [result EXCEPT ![s] = IF answer = 500 THEN "500" ELSE "none"]
    /\ gone' = gone \ {s}
    /\ expired' = expired \ {s}

Search(s) ==
    /\ pc[s] = "idle"
    /\ Goto(s, "execute")
    /\ result' = [result EXCEPT ![s] = "none"]
    /\ UNCHANGED <<up, breaker, gone, expired>>

\* breaker.Execute calls grpcClient.Search ...
Execute(s) ==
    /\ pc[s] = "execute"
    /\ BeforeRequest("api", s)
    /\ Goto(s, "rpc")
    /\ UNCHANGED <<up, gone, expired, result>>

\* ... or refuses.
ExecuteRefused(s) ==
    /\ pc[s] = "execute"
    /\ ~Allows("api")
    /\ Goto(s, "fallback")
    /\ UNCHANGED <<up, breaker, gone, expired, result>>

\* The call does not reach search-indexer, or ctx is over; it has no deadline of
\* its own.
CallFails(s) ==
    /\ pc[s] = "rpc"
    /\ ~up["grpc"] \/ Done(s)
    /\ result' = [result EXCEPT ![s] = "error"]
    /\ Goto(s, "return")
    /\ UNCHANGED <<up, breaker, gone, expired>>

\* Mutant: an open breaker's error is passed on to the client.
ExecuteReturnsFailing(s) ==
    /\ pc[s] = "return"
    /\ AfterRequest("api", s, result[s] = "ok")
    /\ End(s, IF result[s] = "ok" THEN 200 ELSE 500)
    /\ UNCHANGED up

\* Execute counts the result, every error as a failure.
ExecuteReturns(s) ==
    /\ pc[s] = "return"
    /\ AfterRequest("api", s, result[s] = "ok")
    /\ \/ result[s] = "ok" /\ End(s, 200)
       \/ result[s] # "ok" /\ Goto(s, "fallback") /\ UNCHANGED <<gone, expired, result>>
    /\ UNCHANGED up

\* FallbackMySQL.Search, with the ctx the call has had, and the answer: 200, or
\* 500 if the query fails.
Fallback(s) ==
    /\ pc[s] = "fallback"
    /\ \/ up["mysql"] /\ ~Done(s) /\ End(s, 200)
       \/ (~up["mysql"] \/ Done(s)) /\ End(s, 500)
    /\ UNCHANGED <<up, breaker>>

----------------------------------------------------------------------------
(***************************************************************************)
(* search-indexer.                                                         *)
(***************************************************************************)

\* searchServer.Search calls Index.Search, whose breaker lets it through ...
Serve(s) ==
    /\ pc[s] = "rpc"
    /\ up["grpc"]
    /\ BeforeRequest("elasticsearch", s)
    /\ Goto(s, "query")
    /\ UNCHANGED <<up, gone, expired, result>>

\* ... or does not: Unavailable.
ServeRefused(s) ==
    /\ pc[s] = "rpc"
    /\ up["grpc"]
    /\ ~Allows("elasticsearch")
    /\ result' = [result EXCEPT ![s] = "error"]
    /\ Goto(s, "return")
    /\ UNCHANGED <<up, breaker, gone, expired>>

\* Elasticsearch answers, fails, or the call ends with its ctx; the
\* answer may still be lost on the way to the API.
Query(s) ==
    /\ pc[s] = "query"
    /\ \E ok \in BOOLEAN :
         /\ ok <=> up["elasticsearch"] /\ ~Done(s)
         /\ AfterRequest("elasticsearch", s, ok)
         /\ result' = [result EXCEPT ![s] = IF ok /\ up["grpc"] THEN "ok" ELSE "error"]
    /\ Goto(s, "return")
    /\ UNCHANGED <<up, gone, expired>>

\* The consumer's handler: Index.Upsert, or Index.Delete, behind the same breaker.
\* A refusal is an error of the handler (EventConsumer).
Write(call) ==
    /\ pc[Indexer] = "idle"
    /\ BeforeRequest("elasticsearch", Indexer)
    /\ Goto(Indexer, call)
    /\ UNCHANGED <<up, gone, expired, result>>
Upsert == Write("query")
Delete == Write("delete")

\* Mutant: the outcome of an upsert is not reported to the breaker.
UpsertReturnsUnreported ==
    /\ pc[Indexer] = "query"
    /\ Goto(Indexer, "idle")
    /\ UNCHANGED <<up, breaker, gone, expired, result>>

UpsertReturns ==
    /\ pc[Indexer] = "query"
    /\ AfterRequest("elasticsearch", Indexer, up["elasticsearch"])
    /\ Goto(Indexer, "idle")
    /\ UNCHANGED <<up, gone, expired, result>>

\* Delete does not look at the status of the response: an Elasticsearch that
\* answers with an error counts as a success.
DeleteReturns ==
    /\ pc[Indexer] = "delete"
    /\ \E ok \in BOOLEAN :
         /\ ok \/ ~up["elasticsearch"]
         /\ AfterRequest("elasticsearch", Indexer, ok)
    /\ Goto(Indexer, "idle")
    /\ UNCHANGED <<up, gone, expired, result>>

----------------------------------------------------------------------------

\* A dependency fails or recovers.
Toggle(d) ==
    /\ up' = [up EXCEPT ![d] = ~@]
    /\ UNCHANGED <<breaker, pc, gone, expired, result>>

\* The 30 s of the request are over while search-indexer or Elasticsearch keeps
\* it waiting; the client is still there.  (A MySQL that is too slow counts as
\* down.)
Expire(s) ==
    /\ pc[s] \in {"rpc", "query"}
    /\ s \notin expired
    /\ expired' = expired \cup {s}
    /\ UNCHANGED <<up, breaker, pc, gone, result>>

\* The client closes the connection.
Leave(s) ==
    /\ pc[s] # "idle"
    /\ s \notin gone
    /\ gone' = gone \cup {s}
    /\ UNCHANGED <<up, breaker, pc, expired, result>>

Step(s) ==
    \/ Search(s) \/ Execute(s) \/ ExecuteRefused(s) \/ CallFails(s) \/ ExecuteReturns(s)
    \/ Fallback(s) \/ Serve(s) \/ ServeRefused(s) \/ Query(s)

SearchNext ==
    \/ \E s \in Searchers : Step(s) \/ Leave(s) \/ Expire(s)
    \/ Upsert \/ UpsertReturns \/ Delete \/ DeleteReturns
    \/ \E b \in Breakers : OpenTimeout(b) \/ IntervalEnds(b)
    \/ \E d \in Dependencies : Toggle(d)

SearchSpec == SearchInit /\ [][SearchNext]_searchVars

\* Searches keep coming and return, at the latest when their ctx is over; an
\* index write has no deadline and returns while Elasticsearch works; the
\* breakers' timers run.
FairSearchSpec ==
    /\ SearchSpec
    /\ \A s \in Searchers : WF_searchVars(Step(s))
    /\ WF_searchVars(up["elasticsearch"] /\ (UpsertReturns \/ DeleteReturns))
    /\ \A b \in Breakers : WF_searchVars(OpenTimeout(b))

----------------------------------------------------------------------------
(***************************************************************************)
(* Properties.                                                             *)
(***************************************************************************)

\* A search fails only if MySQL does, its client has left, or search-indexer has
\* used up the whole time of the request; no state of the breakers and no error
\* behind them makes it fail.
DegradesNotFails ==
    [][\A s \in Searchers :
          result[s] # "500" /\ result'[s] = "500" => ~up["mysql"] \/ Done(s)]_searchVars

\* Once the dependencies stay up, the clients stay and no request runs out of
\* time, both breakers end up closed for good: the trials of one that meet the
\* other one open, or lose their trial to the consumer's writes, do not keep each
\* other open.
Recovers ==
    <>[](up["grpc"] /\ up["elasticsearch"] /\ gone = {} /\ expired = {})
        => <>[](\A b \in Breakers : state[b] = "closed")

============================================================================
