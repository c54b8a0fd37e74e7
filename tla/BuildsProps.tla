----------------------------- MODULE BuildsProps -----------------------------
(* What must be true of module Builds. *)
EXTENDS Builds

(* What BuildQueue promises: builds are claimed in their order, at most      *)
(* Limit times; one that is completed or failed stays what it is; none is    *)
(* completed without a live deployment, or failed untried.  Late reports,    *)
(* reports of an older attempt and sweeps that listed the row before do not  *)
(* change that, although they do not look at the row again when they write.  *)
Limit == MaxAttempts + Cardinality(Tick) - 1
Queue == INSTANCE BuildQueue
         WITH state <- status, tries <- attempts, live <- {b \in Build : dep[b] = "live"}
ImplementsBuildQueue == Queue!Spec

(* A build that is completed or failed stays what it is: a late report, a   *)
(* report of an older attempt and a sweep that listed the row before do not *)
(* change it, although none of them looks at the row again before it writes. *)
TerminalIsFinal ==
    [][\A b \in Build : status[b] \in Terminal => status'[b] = status[b]]_buildVars

(* A completed build has a deployment of its own that went live, whichever  *)
(* attempt produced it and however often the runner was killed.             *)
CompletedIsLive == \A b \in Build : status[b] = "completed" => dep[b] = "live"

(* Sweeps that overlap may each requeue a row that they listed before it    *)
(* used up its attempts; nothing else gives an attempt beyond MaxAttempts.  *)
AttemptsBounded ==
    \A b \in Build : attempts[b] <= MaxAttempts + Cardinality(Tick) - 1

(* A queued build does not stay in progress for ever: it is completed, or  *)
(* failed once its attempts are used up.                                    *)
Finishes ==
    \A b \in Build : status[b] = "queued" ~> status[b] \in Terminal
=============================================================================
