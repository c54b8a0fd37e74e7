----------------------------- MODULE BuildMachine -----------------------------
(***************************************************************************)
(* The one Fly machine of the build queue, and who starts and stops it.     *)
(* A request that creates a job wakes the machine without a lock.  The      *)
(* controller tick, called by a cron and by the runner before it exits,     *)
(* takes back lapsed jobs, counts the work, takes a lock in Redis, asks Fly *)
(* for the state of the machine and starts or stops it.  Module Builds has  *)
(* the jobs in detail and leaves the machine to chance.                     *)
(***************************************************************************)
EXTENDS Naturals, FiniteSets

CONSTANTS
    Controller,  \* controller ticks in flight
    NoController,
    MaxJob,      \* bound: jobs ever created
    MaxTries,    \* BUILD_MAX_ATTEMPTS
    MaxMishaps   \* bound: calls that fail, isolates and machines that die

ASSUME MachineAssumption ==
    /\ Controller # {} /\ NoController \notin Controller
    /\ MaxJob \in Nat \ {0} /\ MaxTries \in Nat \ {0}
    /\ MaxMishaps \in Nat

Job == 1 .. MaxJob
Idle == 0
Work == {"queued", "active"}

VARIABLES
    jobs, tried,    \* table builds: status and attempts
    machineState,   \* what Fly says of the machine
    process, work,   \* the process on the machine and the job it builds
    owner,          \* who holds build:machine:lock
    ctl,            \* where a tick is
    counted, found, \* the counts that a tick has asked for, those above zero
    action,         \* what it has decided
    waking,         \* wakeBuildMachine, for the job just created
    mishaps         \* what has gone wrong so far

table == <<jobs, tried>>
machine == <<machineState, process, work>>
ticks == <<owner, ctl, counted, found, action>>
machineVars == <<table, machine, ticks, waking, mishaps>>

MachineTypeOK ==
    /\ jobs \in [Job -> {"absent", "ended"} \cup Work]
    /\ tried \in [Job -> 0 .. MaxTries]
    /\ machineState \in {"started", "starting", "stopped", "stopping", "suspended"}
    /\ process \in {"off", "claim", "build", "tick", "exit"}
    /\ (process # "off") = (machineState = "started")
    /\ work \in Job \cup {Idle} /\ (work # Idle) = (process = "build")
    /\ owner \in Controller \cup {NoController}
    /\ ctl \in [Controller -> {"none", "reclaim", "count", "lock", "read", "act", "release"}]
    /\ counted \in [Controller -> SUBSET Work]
    /\ \A c \in Controller : found[c] \subseteq counted[c]
    /\ action \in [Controller -> {"start", "stop", "none"}]
    /\ waking \in [Job -> {"none", "read", "start"}]
    /\ mishaps \in 0 .. MaxMishaps

MachineInit ==
    /\ jobs = [b \in Job |-> "absent"] /\ tried = [b \in Job |-> 0]
    /\ machineState \in {"stopped", "suspended"}
    /\ process = "off" /\ work = Idle
    /\ owner = NoController
    /\ ctl = [c \in Controller |-> "none"]
    /\ counted = [c \in Controller |-> {}] /\ found = [c \in Controller |-> {}]
    /\ action = [c \in Controller |-> "none"]
    /\ waking = [b \in Job |-> "none"]
    /\ mishaps = 0

InState(s) == {b \in Job : jobs[b] = s}
First(s) == {b \in InState(s) : \A c \in InState(s) : b <= c}

-----------------------------------------------------------------------------
(* Fly Machines *)

(* POST /start: a machine that runs, boots or still stops stays as it is,   *)
(* which the client takes for success (409) or for an error.                *)
Start ==
    machineState' =
        IF machineState \in {"stopped", "suspended"} THEN "starting" ELSE machineState
(* POST /stop: the process on the machine is killed. *)
Stop ==
    IF machineState \in {"started", "starting"}
    THEN machineState' = "stopping" /\ process' = "off" /\ work' = Idle
    ELSE UNCHANGED machine

Boots ==
    /\ machineState = "starting"
    /\ machineState' = "started" /\ process' = "claim"
    /\ UNCHANGED <<table, work, ticks, waking>>

Stops ==
    /\ machineState = "stopping"
    /\ machineState' = "stopped"
    /\ UNCHANGED <<table, process, work, ticks, waking>>

(* The process ends or crashes; with restart policy "no" the machine stops. *)
Ends == machineState' = "stopped" /\ process' = "off" /\ work' = Idle
Crashes ==
    /\ machineState \in {"started", "starting"}
    /\ Ends
    /\ UNCHANGED <<table, ticks, waking>>

-----------------------------------------------------------------------------
(* POST /api/builds, after its checks: the row, then a wake that never throws *)

CreateJob ==
    /\ \E b \in First("absent") :
          /\ jobs' = [jobs EXCEPT ![b] = "queued"]
          /\ waking' = [waking EXCEPT ![b] = "read"]
    /\ UNCHANGED <<tried, machine, ticks>>

WakeReads(b, s) ==
    /\ waking[b] = "read"
    /\ waking' = [waking EXCEPT ![b] = IF s \in {"stopped", "suspended", "unknown"}
                                      THEN "start" ELSE "none"]
    /\ UNCHANGED <<table, machine, ticks>>

WakeStarts(b) ==
    /\ waking[b] = "start"
    /\ waking' = [waking EXCEPT ![b] = "none"]
    /\ Start
    /\ UNCHANGED <<table, process, work, ticks>>

(* No configuration, an error of Fly, or the isolate is gone. *)
WakeFails(b) ==
    /\ waking[b] # "none"
    /\ waking' = [waking EXCEPT ![b] = "none"]
    /\ UNCHANGED <<table, machine, ticks>>

-----------------------------------------------------------------------------
(* POST /api/internal/builds/controller *)

Goto(c, s) == ctl' = [ctl EXCEPT ![c] = s]

BeginTick(c) ==
    /\ ctl[c] = "none"
    /\ Goto(c, "reclaim")
    /\ counted' = [counted EXCEPT ![c] = {}]
    /\ found' = [found EXCEPT ![c] = {}]
    /\ action' = [action EXCEPT ![c] = "none"]
    /\ UNCHANGED owner

CronTicks(c) ==
    /\ BeginTick(c)
    /\ UNCHANGED <<table, machine, waking>>

(* reconcileBuilds takes back a job whose lease has run out. *)
Reclaim(c, b) ==
    /\ ctl[c] = "reclaim" /\ jobs[b] = "active"
    /\ jobs' = [jobs EXCEPT ![b] = IF tried[b] < MaxTries THEN "queued" ELSE "ended"]
    /\ UNCHANGED <<tried, machine, ticks, waking>>

(* The two stages of the route are isolated: the second follows in any case. *)
ReclaimEnds(c) ==
    /\ ctl[c] = "reclaim"
    /\ Goto(c, "count")
    /\ UNCHANGED <<table, machine, owner, counted, found, action, waking>>

(* countBuildsByStatus: two queries at once, each with a snapshot of its own. *)
Count(c, s) ==
    /\ ctl[c] = "count" /\ s \notin counted[c]
    /\ counted' = [counted EXCEPT ![c] = @ \cup {s}]
    /\ found' = [found EXCEPT ![c] = IF InState(s) = {} THEN @ ELSE @ \cup {s}]
    /\ IF counted'[c] = Work THEN Goto(c, "lock") ELSE UNCHANGED ctl
    /\ UNCHANGED <<table, machine, owner, action, waking>>

(* acquireLock: SET NX.  A tick that does not get it is skipped. *)
TakeLock(c) ==
    /\ ctl[c] = "lock"
    /\ IF owner = NoController
       THEN owner' = c /\ Goto(c, "read")
       ELSE UNCHANGED owner /\ Goto(c, "none")
    /\ UNCHANGED <<table, machine, counted, found, action, waking>>

(* Mutation of Decide: a suspended machine is not started. *)
DecideStopped(s, hasWork) ==
    IF hasWork
    THEN IF s \in {"stopped", "stopping", "unknown"} THEN "start" ELSE "none"
    ELSE IF s \in {"started", "starting"} THEN "stop" ELSE "none"
(* decideControllerAction *)
Decide(s, hasWork) ==
    IF hasWork
    THEN IF s \in {"stopped", "suspended", "stopping", "unknown"} THEN "start" ELSE "none"
    ELSE IF s \in {"started", "starting"} THEN "stop" ELSE "none"

(* getState; a state that the client has no name for is "unknown". *)
ReadState(c, s) ==
    /\ ctl[c] = "read"
    /\ action' = [action EXCEPT ![c] = Decide(s, found[c] # {})]
    /\ Goto(c, IF action'[c] = "none" THEN "release" ELSE "act")
    /\ UNCHANGED <<table, machine, owner, counted, found, waking>>

Act(c) ==
    /\ ctl[c] = "act"
    /\ Goto(c, "release")
    /\ IF action[c] = "start" THEN Start /\ UNCHANGED <<process, work>> ELSE Stop
    /\ UNCHANGED <<table, owner, counted, found, action, waking>>

(* releaseLock deletes the key only if it holds this tick's name. *)
Release(c) ==
    /\ ctl[c] = "release"
    /\ Goto(c, "none")
    /\ owner' = IF owner = c THEN NoController ELSE owner
    /\ UNCHANGED <<table, machine, counted, found, action, waking>>

(* A query or a call fails: the lock, once taken, is still released. *)
TickFails(c) ==
    /\ ctl[c] \in {"count", "lock", "read", "act"}
    /\ Goto(c, IF ctl[c] \in {"read", "act"} THEN "release" ELSE "none")
    /\ UNCHANGED <<table, machine, owner, counted, found, action, waking>>

(* The isolate dies, or the DEL of the lock fails. *)
TickDies(c) ==
    /\ ctl[c] # "none"
    /\ Goto(c, "none")
    /\ UNCHANGED <<table, machine, owner, counted, found, action, waking>>

(* BUILD_MACHINE_LOCK_TTL_SECONDS have passed. *)
LockLapses ==
    /\ owner # NoController
    /\ owner' = NoController
    /\ UNCHANGED <<table, machine, ctl, counted, found, action, waking>>

-----------------------------------------------------------------------------
(* The runner: runUntilIdle *)

Taken ==
    \E b \in First("queued") :
        /\ jobs' = [jobs EXCEPT ![b] = "active"]
        /\ tried' = [tried EXCEPT ![b] = @ + 1]
        /\ work' \in {b, Idle}

TakesJob ==
    /\ process = "claim"
    /\ Taken /\ work' # Idle /\ process' = "build"
    /\ UNCHANGED <<machineState, ticks, waking>>

(* The answer is lost: the job is active, and nobody works on it. *)
TakesUnheard ==
    /\ process = "claim"
    /\ Taken /\ work' = Idle /\ process' = "tick"
    /\ UNCHANGED <<machineState, ticks, waking>>

NothingQueued ==
    /\ process = "claim" /\ InState("queued") = {}
    /\ process' = "tick"
    /\ UNCHANGED <<table, machineState, work, ticks, waking>>

ClaimRefused ==
    /\ process = "claim"
    /\ process' = "tick"
    /\ UNCHANGED <<table, machineState, work, ticks, waking>>

(* The job is done or has failed; its report counts while the job is active. *)
JobDone ==
    /\ process = "build"
    /\ jobs' = [jobs EXCEPT ![work] = IF @ = "active" THEN "ended" ELSE @]
    /\ process' = "claim" /\ work' = Idle
    /\ UNCHANGED <<tried, machineState, ticks, waking>>

ReportLost ==
    /\ process = "build"
    /\ process' = "claim" /\ work' = Idle
    /\ UNCHANGED <<table, machineState, ticks, waking>>

(* The runner does not look at what its tick has done, or whether it failed. *)
RunnerTicks ==
    /\ process = "tick"
    /\ process' = "exit"
    /\ (\E c \in Controller : BeginTick(c)) \/ UNCHANGED ticks
    /\ UNCHANGED <<table, machineState, work, waking>>

Exits ==
    /\ process = "exit"
    /\ Ends
    /\ UNCHANGED <<table, ticks, waking>>

-----------------------------------------------------------------------------
Wakes == \E b \in Job : WakeReads(b, machineState) \/ WakeStarts(b)

(* The steps while nothing goes wrong: the lease of a job runs out only if  *)
(* nobody works on it, the TTL of the lock only if its owner is gone.       *)
Reclaims(c) == \E b \in Job \ {work} : Reclaim(c, b)
Controls(c) ==
    \/ CronTicks(c) \/ Reclaims(c) \/ ReclaimEnds(c)
    \/ (\E s \in Work : Count(c, s))
    \/ TakeLock(c) \/ ReadState(c, machineState) \/ Act(c) \/ Release(c)

Orphaned == owner # NoController /\ ctl[owner] \notin {"read", "act", "release"}

Runs == TakesJob \/ NothingQueued \/ JobDone \/ RunnerTicks \/ Exits

Goes ==
    \/ CreateJob \/ Wakes \/ Boots \/ Stops
    \/ \E c \in Controller : Controls(c)
    \/ (Orphaned /\ LockLapses)
    \/ Runs

(* A call fails or its answer is lost; the machine or an isolate dies; Fly  *)
(* is vague; heartbeats are lost; a call to Fly takes longer than the lock. *)
GoesWrong ==
    \/ \E b \in Job : WakeReads(b, "unknown") \/ WakeFails(b)
    \/ \E c \in Controller :
          \/ (\E b \in Job : b = work /\ Reclaim(c, b))
          \/ ReadState(c, "unknown") \/ TickFails(c) \/ TickDies(c)
    \/ (~Orphaned /\ LockLapses)
    \/ TakesUnheard \/ ClaimRefused \/ ReportLost \/ Crashes

MachineNext ==
    \/ Goes /\ UNCHANGED mishaps
    \/ mishaps < MaxMishaps /\ GoesWrong /\ mishaps' = mishaps + 1

MachineSpec == MachineInit /\ [][MachineNext]_machineVars

Fine(A) == A /\ UNCHANGED mishaps

(* Fairness: the cron ticks, and its ticks, the runner, Fly and the clock   *)
(* go on.  A lease that has run out is seen by one of the ticks.            *)
MachineFairSpec ==
    /\ MachineSpec
    /\ \A c \in Controller : WF_machineVars(Fine(Controls(c)))
    /\ \A c \in Controller : SF_machineVars(Fine(Reclaims(c)))
    /\ WF_machineVars(Fine(Orphaned /\ LockLapses))
    /\ WF_machineVars(Fine(Boots)) /\ WF_machineVars(Fine(Stops)) /\ WF_machineVars(Fine(Runs))
=============================================================================
