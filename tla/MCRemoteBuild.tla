---------------------------- MODULE MCRemoteBuild ----------------------------
(* The build queue of the console, one job of the build runner and the      *)
(* machine that the runner is on, in one run.  Each is checked with the     *)
(* others at rest: part names the one that moves.                           *)
EXTENDS BuildsProps, BuildJobProps, BuildMachineProps

VARIABLE part

RemoteBuildInit ==
    /\ part \in {"builds", "job", "machine"}
    /\ BuildsInit /\ JobInit
    /\ part # "machine" => machineState = "stopped"
    /\ MachineInit

BuildsMove == part = "builds" /\ BuildsNext /\ UNCHANGED <<part, jobVars, machineVars>>
JobMoves == part = "job" /\ JobNext /\ UNCHANGED <<part, buildVars, machineVars>>
MachineMoves == part = "machine" /\ MachineNext /\ UNCHANGED <<part, buildVars, jobVars>>

(* The fairness of each module, for the part that moves.                    *)
RemoteBuildSpec ==
    /\ RemoteBuildInit
    /\ [][BuildsMove \/ JobMoves \/ MachineMoves]_<<part, buildVars, jobVars, machineVars>>
    /\ \A c \in Build \X BOOLEAN : WF_buildVars(part = "builds" /\ Complete(c))
    /\ WF_buildVars(part = "builds" /\ \E c \in commits : EndCommit(c))
    /\ WF_buildVars(part = "builds" /\ Runner)
    /\ WF_buildVars(part = "builds" /\ MachineStarts)
    /\ \A b \in Build : WF_buildVars(part = "builds" /\ LeaseExpires(b))
    /\ \A t \in Tick : WF_buildVars(part = "builds" /\ CronTick(t))
    /\ \A t \in Tick : WF_buildVars(part = "builds" /\ Reconcile(t))
    /\ SF_buildVars(part = "builds" /\ Claim)
    /\ \A t \in Tick : SF_buildVars(part = "builds" /\ (Requeue(t) \/ GiveUp(t)))
    /\ WF_jobVars(part = "job" /\ JobStep)
    /\ WF_jobVars(part = "job" /\ Sink(Posts))
    /\ \A c \in Controller : WF_machineVars(part = "machine" /\ Fine(Controls(c)))
    /\ \A c \in Controller : SF_machineVars(part = "machine" /\ Fine(Reclaims(c)))
    /\ WF_machineVars(part = "machine" /\ Fine(Orphaned /\ LockLapses))
    /\ WF_machineVars(part = "machine" /\ Fine(Boots))
    /\ WF_machineVars(part = "machine" /\ Fine(Stops))
    /\ WF_machineVars(part = "machine" /\ Fine(Runs))

(* The type invariants of the three modules.                                *)
RemoteBuildTypeOK == BuildsTypeOK /\ JobTypeOK /\ MachineTypeOK
=============================================================================
