---------------------------- MODULE BuildJobProps ----------------------------
(* What the build runner and its log sink have to keep.                     *)
EXTENDS BuildJob

(* No line vanishes: each is waiting, or the console has it, or droppedBytes *)
(* counts it.  What dispose() throws away without counting it was printed    *)
(* after the last flush(), or stood behind a drain when flush() was called.  *)
(* pendingBytes is what waits, and never above its limit.                    *)
Accounted ==
    /\ Line = UNION {buffer, batch, sent, dropped, lost}
    /\ buffer \cap UNION {batch, sent, flying, dropped, lost} = {}
    /\ \A l \in lost : l \in behind \/ l > mark
    /\ ~ disposed => pending = Cardinality(buffer) + Cardinality(batch)
    /\ pending <= MaxPending

(* log-sink.ts:11: flushes are serialized so log order is preserved.  A line *)
(* that is new to the console comes after all it has, whatever is sent       *)
(* again, unless the runner had given up the post that brings it.            *)
InOrder ==
    [][\A l \in sent' \ sent : l \in flying \/ \A m \in sent : m < l]_jobVars

(* The console records a build as completed only if the site was deployed    *)
(* and the runner knows it.  A deployed build is recorded as failed only if  *)
(* the CLI's result was not read or the first report did not come through.   *)
OutcomeTruthful ==
    /\ outcome = "completed" => deployed /\ ~ unread
    /\ outcome = "failed" /\ deployed => unread \/ reports = 2

(* log-sink.ts:17: the outcome is always reported, whatever the log delivery *)
(* does, and a job that has begun ends.                                      *)
Completes == jpc = "clone" ~> jpc = "done" /\ reports > 0
=============================================================================
