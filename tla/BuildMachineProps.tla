-------------------------- MODULE BuildMachineProps --------------------------
(* What must be true of module BuildMachine. *)
EXTENDS BuildMachine

(* Every job ends, although the wake that follows its INSERT may be lost,   *)
(* the controller may stop the machine under a build because it counted     *)
(* before it took the lock, ticks fail or die with the lock, and the        *)
(* machine crashes: the cron's ticks start it again while there is work.    *)
JobsEnd == \A b \in Job : jobs[b] = "queued" ~> jobs[b] = "ended"
=============================================================================
