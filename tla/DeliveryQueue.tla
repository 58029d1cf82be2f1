--------------------------- MODULE DeliveryQueue ---------------------------
(***************************************************************************)
(* What the broadcast queue promises of its jobs, with no processes,       *)
(* pages, counters or crashes in sight: a queued job is taken, perhaps put *)
(* back and taken again, and ended once and for all; a user gets a job     *)
(* with a fixed set of recipients at most once for each turn it had.       *)
(***************************************************************************)
EXTENDS Naturals

CONSTANTS Jobs, Users

VARIABLES
    state,    \* of each job
    exact,    \* the jobs whose recipients are not a filter's
    putBack,  \* how often each job was put back
    got       \* how often each user got each job

queue == <<state, exact, putBack, got>>

Init ==
    /\ state = [j \in Jobs |-> "none"]
    /\ exact = {}
    /\ putBack = [j \in Jobs |-> 0]
    /\ got = [j \in Jobs |-> [u \in Users |-> 0]]

\* The turns that a job has had, the present one included.  (A job that ends
\* while it waits is ended by the turn it was taken from.)
Turns(j) == putBack[j] + (IF state[j] = "waiting" THEN 0 ELSE 1)

Enter(j) ==
    /\ state[j] = "none"
    /\ state' = [state EXCEPT ![j] = "waiting"]
    /\ exact' \in {exact, exact \cup {j}}
    /\ UNCHANGED <<putBack, got>>

Take(j) ==
    /\ state[j] = "waiting"
    /\ state' = [state EXCEPT ![j] = "taken"]
    /\ UNCHANGED <<exact, putBack, got>>

\* Jobs go back all together, whoever works on them.
PutBack ==
    /\ state' = [j \in Jobs |-> IF state[j] = "taken" THEN "waiting" ELSE state[j]]
    /\ putBack' = [j \in Jobs |-> IF state[j] = "taken" THEN putBack[j] + 1 ELSE putBack[j]]
    /\ UNCHANGED <<exact, got>>

\* Whoever the job was taken from may still deliver for the turn it had.
Deliver(j, u) ==
    /\ state[j] # "none"
    /\ j \in exact => got[j][u] < Turns(j)
    /\ got' = [got EXCEPT ![j][u] = @ + 1]
    /\ UNCHANGED <<state, exact, putBack>>

End(j) ==
    /\ state[j] \in {"waiting", "taken"}
    /\ state' = [state EXCEPT ![j] = "ended"]
    /\ UNCHANGED <<exact, putBack, got>>

Next ==
    \/ \E j \in Jobs : Enter(j) \/ Take(j) \/ End(j)
    \/ \E j \in Jobs, u \in Users : Deliver(j, u)
    \/ PutBack

Spec == Init /\ [][Next]_queue

=============================================================================
