------------------------------ MODULE JobPool ------------------------------
(***************************************************************************)
(* What the work queue promises, with no broker, channels or replicas: a   *)
(* job that was accepted stays in the pool until it is settled, and is     *)
(* settled once, done after its handler succeeded or dead after it failed  *)
(* (internal/queue/consumer.go:10-17).  It may be handled again, also      *)
(* after that, and be lost only before it was ever handled.                *)
(***************************************************************************)
EXTENDS Integers

CONSTANT Jobs

VARIABLES
    accepted,  \* jobs for which Publish returned nil
    pool,      \* jobs to be done
    acked,     \* done for good
    dead,      \* given up
    sends,     \* how often each was done
    failed     \* jobs whose handler has failed

settled == <<acked, dead>>
vars == <<accepted, pool, settled, sends, failed>>

Init ==
    /\ accepted = {} /\ pool = {} /\ acked = {} /\ dead = {} /\ failed = {}
    /\ sends = [j \in Jobs |-> 0]

Accept(j) ==
    /\ j \notin accepted
    /\ accepted' = accepted \cup {j}
    /\ pool' = pool \cup {j}
    /\ UNCHANGED <<settled, sends, failed>>

\* The API loses its connection, and with it jobs nobody has seen yet.
Lose(lost) ==
    /\ lost \subseteq pool
    /\ \A j \in lost : sends[j] = 0 /\ j \notin failed
    /\ pool' = pool \ lost
    /\ UNCHANGED <<accepted, settled, sends, failed>>

\* A job that was not lost is handled, once more perhaps.
Handle(j) ==
    /\ j \in pool \cup acked \cup dead
    /\ \/ sends' = [sends EXCEPT ![j] = @ + 1] /\ UNCHANGED failed
       \/ failed' = failed \cup {j} /\ UNCHANGED sends
    /\ UNCHANGED <<accepted, pool, settled>>

Settle(j) ==
    /\ j \in pool
    /\ pool' = pool \ {j}
    /\ \/ sends[j] > 0 /\ acked' = acked \cup {j} /\ UNCHANGED dead
       \/ j \in failed /\ dead' = dead \cup {j} /\ UNCHANGED acked
    /\ UNCHANGED <<accepted, sends, failed>>

Next ==
    \/ \E j \in Jobs : Accept(j) \/ Handle(j) \/ Settle(j)
    \/ \E lost \in SUBSET pool : Lose(lost)

Spec == Init /\ [][Next]_vars

============================================================================
