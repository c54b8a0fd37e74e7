----------------------------- MODULE RoutingProps -----------------------------
(* What readers of the three-level lookup may rely on. *)
EXTENDS Routing

(* Redis, every L1 and every request hold activations that PostgreSQL has  *)
(* committed: "writers MUST run after the matching PostgreSQL operation".   *)
CacheAfterCommit ==
    /\ kvActive <= dbActive
    /\ \A s \in Server : l1Active[s] <= dbActive
    /\ \A r \in Request : got[r] <= dbActive

Answers(v) == \A r \in Request : pc[r] = "answered" => got[r] = v

(* Once the console has settled on an activation of a live site, every     *)
(* answer is in the end that activation, never an older one and never     *)
(* "not found": stale backfills and lost writes are healed by the TTLs.     *)
Converges ==
    \A v \in Version :
        <>[](dbActive = v /\ dbLive) => <>[]Answers(v)
=============================================================================
