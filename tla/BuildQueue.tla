------------------------------ MODULE BuildQueue ------------------------------
(***************************************************************************)
(* What the console promises about the builds of one page: they are taken  *)
(* up in the order of their numbers and tried a limited number of times, a  *)
(* build ends once, as completed only if its deployment went live, and as   *)
(* failed only if it was tried.                                            *)
(***************************************************************************)
EXTENDS Naturals

CONSTANTS
    Build,  \* numbers
    Limit   \* of the tries of one build

VARIABLES
    state,  \* "absent", "queued", "active", "completed" or "failed"
    tries,
    live    \* builds whose deployment went live

vars == <<state, tries, live>>

Init ==
    /\ state = [b \in Build |-> "absent"]
    /\ tries = [b \in Build |-> 0]
    /\ live = {}

First(b, s) == state[b] = s /\ \A other \in Build : state[other] = s => b <= other
Becomes(b, s) == state' = [state EXCEPT ![b] = s]
Unfinished(b) == state[b] \in {"queued", "active"}

Submit(b) == First(b, "absent") /\ Becomes(b, "queued") /\ UNCHANGED <<tries, live>>

Claim(b) ==
    /\ First(b, "queued") /\ tries[b] < Limit
    /\ Becomes(b, "active") /\ tries' = [tries EXCEPT ![b] = @ + 1]
    /\ UNCHANGED live

(* An attempt is taken back. *)
Retry(b) == state[b] = "active" /\ Becomes(b, "queued") /\ UNCHANGED <<tries, live>>

GoLive(b) == tries[b] > 0 /\ live' = live \cup {b} /\ UNCHANGED <<state, tries>>

Complete(b) ==
    Unfinished(b) /\ b \in live /\ Becomes(b, "completed") /\ UNCHANGED <<tries, live>>

Fail(b) ==
    Unfinished(b) /\ tries[b] > 0 /\ Becomes(b, "failed") /\ UNCHANGED <<tries, live>>

Next ==
    \E b \in Build :
        Submit(b) \/ Claim(b) \/ Retry(b) \/ GoLive(b) \/ Complete(b) \/ Fail(b)

Spec == Init /\ [][Next]_vars
=============================================================================
