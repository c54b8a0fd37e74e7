--------------------------- MODULE LogPipelineProps ---------------------------
(* What the log worker has to keep.                                         *)
EXTENDS LogPipeline

(* The counters hold a file if and only if processed_files names it, and    *)
(* each worker adds it at most once, whatever is redelivered, rescanned,    *)
(* interrupted or tried again: with the one machine of the cron, exactly    *)
(* once.  Two workers that overlap may each add it.                         *)
CountedOnce ==
    \A k \in Key :
        /\ counted[k] > 0 <=> k \in processed
        /\ counted[k] <= Cardinality(Worker)

(* A file that the queue or pending_files names is not forgotten: the       *)
(* message goes only when the row is there, the row only when the counters  *)
(* hold the file, although a run may die between any two steps and a        *)
(* message may come twice.  Names outside raw/ are thrown away.             *)
Known == {k \in queue \cup pending \cup processed : k \in Key /\ kind[k] # "outside"}
NothingForgotten == [][Known \subseteq Known']_pipelineVars

(* Nothing ahead of k ends the run, and the files ahead of it that stay     *)
(* pending leave it a place among the MaxFiles rows of a claim.             *)
Stays(k) == kind[k] = "foreign" \/ object[k] # "there"
Unblocked(k) ==
    /\ k \in pending /\ object[k] = "there" /\ kind[k] \in {"tenant", "old"}
    /\ \A j \in ahead[k] : kind[j] # "corrupt"
    /\ Cardinality({j \in ahead[k] : kind[j] # "outside" /\ Stays(j)}) < MaxFiles

(* A staged file with records is counted in the end, unless an older row    *)
(* that fails, or MaxFiles older rows that stay, are in its way.            *)
FoldedUnlessBlocked == \A k \in Key : Unblocked(k) ~> k \in processed
=============================================================================
