--------------------------- MODULE AtomicBooking ---------------------------
(***************************************************************************)
(* What booking creation promises, with no transactions, locks, retries or *)
(* replicas: a request takes all the days it asks for in one step, only    *)
(* when every one of them is free, and is answered at most once.           *)
(* (internal/booking/tx.go:18-24, docs/adr/0002-cap-tradeoffs.md)          *)
(***************************************************************************)
EXTENDS Integers

CONSTANTS Requests, Listings, MaxDay

VARIABLES
    want,    \* what each request asks for
    booked,  \* the requests that hold their days
    answer   \* the HTTP status sent, or "none"

vars == <<want, booked, answer>>

Days == 1 .. MaxDay

DaysOf(r) == {d \in Days : want[r].start <= d /\ d <= want[r].end}

\* Two requests compete for a day of one listing.
Compete(r, q) ==
    /\ want[r].listing = want[q].listing
    /\ DaysOf(r) \cap DaysOf(q) # {}

Init ==
    /\ want \in [Requests -> [listing : Listings, start : Days, end : Days]]
    /\ booked = {}
    /\ answer = [r \in Requests |-> "none"]

Free(r) == /\ DaysOf(r) # {}
           /\ \A q \in booked : ~Compete(r, q)

\* r takes its days; it may learn so later, or the answer is lost in the same
\* moment.
Book(r) ==
    /\ answer[r] = "none"
    /\ r \notin booked
    /\ Free(r)
    /\ booked' = booked \cup {r}
    /\ answer' \in {answer, [answer EXCEPT ![r] = "500"]}
    /\ UNCHANGED want

Confirm(r) ==
    /\ answer[r] = "none"
    /\ r \in booked
    /\ answer' = [answer EXCEPT ![r] = "201"]
    /\ UNCHANGED <<want, booked>>

\* Only a day that is taken is a conflict.
Refuse(r) ==
    /\ answer[r] = "none"
    /\ r \notin booked
    /\ \E q \in booked : Compete(r, q)
    /\ answer' = [answer EXCEPT ![r] = "409"]
    /\ UNCHANGED <<want, booked>>

RejectInput(r) ==
    /\ answer[r] = "none"
    /\ r \notin booked
    /\ answer' = [answer EXCEPT ![r] = "400"]
    /\ UNCHANGED <<want, booked>>

\* An internal error says nothing about the outcome.
Fail(r) ==
    /\ answer[r] = "none"
    /\ answer' = [answer EXCEPT ![r] = "500"]
    /\ UNCHANGED <<want, booked>>

Next == \E r \in Requests :
            Book(r) \/ Confirm(r) \/ Refuse(r) \/ RejectInput(r) \/ Fail(r)

Spec == Init /\ [][Next]_vars

============================================================================
