-------------------------------- MODULE Builds --------------------------------
(***************************************************************************)
(* Remote builds of ONE page.  The console keeps the jobs in table builds; *)
(* one Fly machine runs the build runner, which claims a job, builds it,    *)
(* deploys the output with the job's token and reports the result; the      *)
(* controller tick (cron, and the runner before it exits) takes back jobs   *)
(* whose lease has run out.                                                 *)
(*                                                                         *)
(* The console's handlers are processes that stop at each await and outlive *)
(* the runner that called them.  The machine is started and stopped from    *)
(* outside (fly.controller.ts), and may be killed at any time.  There is    *)
(* one machine, so worker_id never tells two callers apart.                 *)
(***************************************************************************)
EXTENDS Integers, FiniteSets

CONSTANTS
    BuildRequest,     \* POST /api/builds requests in flight
    Tick,        \* controller ticks in flight
    MaxBuild,    \* bound: jobs ever created
    MaxAttempts  \* BUILD_MAX_ATTEMPTS

ASSUME BuildsAssumption ==
    /\ MaxBuild \in Nat \ {0} /\ MaxAttempts \in Nat \ {0}
    /\ IsFiniteSet(Tick) /\ Tick # {}

Build == 1 .. MaxBuild
NoBuild == 0
NoToken == 0   \* else the attempt that the token was minted for

VARIABLES
    (* PostgreSQL: table builds, and deployments with a build_id *)
    status, attempts,
    token,     \* token_hash, while it is accepted
    lease,     \* lease_expires_at: "none", "held" or "expired"
    dep,       \* the build's deployment: "none", "row" (inserted) or "live"
    (* Redis *)
    pageLock,  \* build:page:{id} is set
    (* handlers of the console *)
    req,       \* a create request
    call,      \* the report of a build as completed (TRUE) or failed (FALSE)
    commits,   \* deploy commits that run for an attempt of a build
    tpc, stale, \* a controller tick, and the rows it has listed
    (* the machine and its runner *)
    wpc, job

rows == <<status, attempts, token, lease, dep>>
handlers == <<req, call, commits>>
tick == <<tpc, stale>>
runner == <<wpc, job>>
buildVars == <<rows, pageLock, handlers, tick, runner>>

Terminal == {"completed", "failed"}
NoJob == [of |-> NoBuild, by |-> NoToken]

Having(s) == {b \in Build : status[b] = s}

RowsOK ==
    /\ status \in [Build -> {"absent", "queued", "active"} \cup Terminal]
    /\ attempts \in [Build -> Nat] /\ token \in [Build -> Nat]
    /\ \A b \in Build : token[b] \in {NoToken, attempts[b]}
    /\ lease \in [Build -> {"none", "held", "expired"}]
    /\ \A b \in Having("absent") \cup Having("queued") : lease[b] = "none" /\ token[b] = NoToken
    /\ dep \in [Build -> {"none", "row", "live"}]

HandlersOK ==
    /\ pageLock \in BOOLEAN
    /\ req \in [BuildRequest -> {"none", "insert", "release"}]
    /\ call \in [Build \X BOOLEAN -> {"none", "load", "finish", "unlock"}]
    /\ commits \subseteq [of : Build, by : Nat \ {0}]
    /\ tpc \in [Tick -> {"none", "reclaim", "unlock"}]
    /\ stale \in [Tick -> SUBSET (Build \X Nat)]

RunnerOK ==
    /\ wpc \in {"off", "claim", "build", "wait", "done", "sent", "broken", "tick"}
    /\ IF wpc \in {"off", "claim", "tick"}
       THEN job = NoJob
       ELSE job \in [of : Build, by : Nat \ {0}]

BuildsTypeOK == RowsOK /\ HandlersOK /\ RunnerOK

BuildsInit ==
    /\ status = [b \in Build |-> "absent"]
    /\ attempts = [b \in Build |-> 0]
    /\ token = [b \in Build |-> NoToken]
    /\ lease = [b \in Build |-> "none"]
    /\ dep = [b \in Build |-> "none"]
    /\ pageLock = FALSE
    /\ req = [r \in BuildRequest |-> "none"]
    /\ call = [c \in Build \X BOOLEAN |-> "none"]
    /\ commits = {}
    /\ tpc = [t \in Tick |-> "none"]
    /\ stale = [t \in Tick |-> {}]
    /\ wpc = "off" /\ job = NoJob

-----------------------------------------------------------------------------
Oldest(s) == {b \in Having(s) : \A c \in Having(s) : b <= c}

(* isJobTokenActive and verifyJobSecret, for the runner's token. *)
Accepted(j) == status[j.of] = "active" /\ token[j.of] = j.by

(* Mutation of MayFinish: finishBuild without a condition on the status. *)
MayFinishAny(b) == status[b] # "absent"
(* finishBuild: UPDATE .. WHERE status IN ('active', 'queued'). *)
MayFinish(b) == status[b] \in {"active", "queued"}
Finish(b, s) == status' = [status EXCEPT ![b] = IF MayFinish(b) THEN s ELSE @]

(* releasePageBuildLock deletes the key, whoever set it; errors are logged. *)
Unlock == pageLock' \in {FALSE, pageLock}

-----------------------------------------------------------------------------
(* POST /api/builds *)

ReqGoto(r, s) == req' = [req EXCEPT ![r] = s]

(* acquirePageBuildLock: SET NX, or an error that is caught below. *)
CreateLock(r) ==
    /\ req[r] = "none" /\ Having("absent") # {}
    /\ \/ ~pageLock /\ pageLock' = TRUE /\ ReqGoto(r, "insert")
       \/ pageLock' \in {TRUE, pageLock} /\ ReqGoto(r, "release")
    /\ UNCHANGED <<rows, call, commits, tick, runner>>

(* createBuildJob inserts the row, unless a check or the INSERT fails. *)
CreateInsert(r) ==
    /\ req[r] = "insert"
    /\ \/ /\ \E b \in Oldest("absent") : status' = [status EXCEPT ![b] = "queued"]
          /\ ReqGoto(r, "none")
       \/ UNCHANGED status /\ ReqGoto(r, "release")
    /\ UNCHANGED <<attempts, token, lease, dep, pageLock, call, commits, tick, runner>>

(* The catch block gives up the lock, whether or not this request took it. *)
CreateRelease(r) ==
    /\ req[r] = "release"
    /\ Unlock
    /\ ReqGoto(r, "none")
    /\ UNCHANGED <<rows, call, commits, tick, runner>>

CreateDies(r) ==
    /\ req[r] # "none"
    /\ ReqGoto(r, "none")
    /\ UNCHANGED <<rows, pageLock, call, commits, tick, runner>>

-----------------------------------------------------------------------------
(* POST /api/builds/{id}/complete: completeBuild *)

To(c, s) == call' = [call EXCEPT ![c] = s]

(* A report as completed gets its answer, if the runner still waits for it. *)
Reported(c, ok) ==
    IF c[2] /\ wpc = "sent" /\ job.of = c[1]
    THEN IF ok THEN wpc' = "claim" /\ job' = NoJob
               ELSE wpc' = "broken" /\ UNCHANGED job
    ELSE UNCHANGED runner

(* A terminal row is answered at once; a completed one needs a deployment   *)
(* with this build_id.                                                      *)
CompleteLoad(c) ==
    /\ call[c] = "load"
    /\ IF status[c[1]] \in Terminal
       THEN To(c, "none") /\ Reported(c, TRUE)
       ELSE IF c[2] /\ dep[c[1]] = "none"
       THEN To(c, "none") /\ Reported(c, FALSE)
       ELSE To(c, "finish") /\ UNCHANGED runner
    /\ UNCHANGED <<rows, pageLock, req, commits, tick>>

CompleteFinish(c) ==
    /\ call[c] = "finish"
    /\ Finish(c[1], IF c[2] THEN "completed" ELSE "failed")
    /\ To(c, "unlock")
    /\ UNCHANGED <<attempts, token, lease, dep, pageLock, req, commits, tick, runner>>

(* The page's lock goes, even if the row was terminal by then. *)
CompleteUnlock(c) ==
    /\ call[c] = "unlock"
    /\ Unlock
    /\ To(c, "none") /\ Reported(c, TRUE)
    /\ UNCHANGED <<rows, req, commits, tick>>

CompleteDies(c) ==
    /\ call[c] # "none"
    /\ To(c, "none") /\ Reported(c, FALSE)
    /\ UNCHANGED <<rows, pageLock, req, commits, tick>>

-----------------------------------------------------------------------------
(* POST /api/internal/builds/controller: reconcileBuilds *)

At(t, s) == tpc' = [tpc EXCEPT ![t] = s]

(* Mutation of Lapsed: rows without an attempt left are not listed. *)
LapsedRetryable == {b \in Having("active") : lease[b] = "expired" /\ attempts[b] < MaxAttempts}
Lapsed == {b \in Having("active") : lease[b] = "expired"}
(* listStaleActiveBuilds: each row with the attempts it has now. *)
ListStale(t) ==
    /\ tpc[t] = "none"
    /\ At(t, "reclaim")
    /\ stale' = [stale EXCEPT ![t] = {<<b, attempts[b]>> : b \in Lapsed}]

CronTick(t) ==
    /\ ListStale(t)
    /\ UNCHANGED <<rows, pageLock, handlers, runner>>

(* Mutation of CanRetry: one attempt too many. *)
CanRetryOnceMore(n) == n <= MaxAttempts
(* A job may be retried while it still has attempts left. *)
CanRetry(n) == n < MaxAttempts

(* Mutation of Requeued: the old token is not cleared. *)
RequeuedWithToken(b) ==
    /\ status' = [status EXCEPT ![b] = "queued"]
    /\ lease' = [lease EXCEPT ![b] = "none"]
    /\ UNCHANGED token
Requeued(b) ==
    /\ status' = [status EXCEPT ![b] = "queued"]
    /\ lease' = [lease EXCEPT ![b] = "none"]
    /\ token' = [token EXCEPT ![b] = NoToken]

(* requeueBuild asks only that the row is still active: neither its lease   *)
(* nor its attempt is looked at again.                                      *)
Requeue(t) ==
    /\ tpc[t] = "reclaim"
    /\ \E row \in stale[t] :
          /\ CanRetry(row[2])
          /\ stale' = [stale EXCEPT ![t] = @ \ {row}]
          /\ IF status[row[1]] = "active" THEN Requeued(row[1])
                                         ELSE UNCHANGED <<status, token, lease>>
    /\ UNCHANGED <<attempts, dep, pageLock, handlers, tpc, runner>>

GiveUp(t) ==
    /\ tpc[t] = "reclaim"
    /\ \E row \in stale[t] :
          /\ ~CanRetry(row[2])
          /\ stale' = [stale EXCEPT ![t] = @ \ {row}]
          /\ Finish(row[1], "failed")
          /\ IF MayFinish(row[1]) THEN At(t, "unlock") ELSE UNCHANGED tpc
    /\ UNCHANGED <<attempts, token, lease, dep, pageLock, handlers, runner>>

GiveUpUnlock(t) ==
    /\ tpc[t] = "unlock"
    /\ Unlock
    /\ At(t, "reclaim")
    /\ UNCHANGED <<rows, handlers, stale, runner>>

(* All rows are done, a query has thrown, or the isolate is killed. *)
EndTick(t) ==
    /\ tpc[t] # "none"
    /\ At(t, "none")
    /\ stale' = [stale EXCEPT ![t] = {}]
    /\ UNCHANGED <<rows, pageLock, handlers, runner>>

-----------------------------------------------------------------------------
(* The runner *)

(* runUntilIdle: claimNextBuild takes the oldest queued job in one UPDATE.  *)
(* The answer may be lost: the job is then claimed, and nobody works on it. *)
Claim ==
    /\ wpc = "claim"
    /\ \E b \in Oldest("queued") : LET n == attempts[b] + 1 IN
       /\ status' = [status EXCEPT ![b] = "active"]
       /\ attempts' = [attempts EXCEPT ![b] = n]
       /\ token' = [token EXCEPT ![b] = n]
       /\ lease' = [lease EXCEPT ![b] = "held"]
       /\ \/ wpc' = "build" /\ job' = [of |-> b, by |-> n]
          \/ wpc' = "tick" /\ UNCHANGED job
    /\ UNCHANGED <<dep, pageLock, handlers, tick>>

(* No job, or the claim fails. *)
ClaimNothing ==
    /\ wpc = "claim"
    /\ wpc' = "tick"
    /\ UNCHANGED <<rows, pageLock, handlers, tick, job>>

(* Cloning, installing, building or finding the output fails. *)
BuildFails ==
    /\ wpc = "build"
    /\ wpc' = "broken"
    /\ UNCHANGED <<rows, pageLock, handlers, tick, job>>

(* The output is built: runCliDeploy.  The console admits a commit only     *)
(* with a token that it accepts.                                            *)
StartDeploy ==
    /\ wpc = "build"
    /\ IF Accepted(job)
       THEN wpc' = "wait" /\ commits' = commits \cup {job}
       ELSE wpc' = "broken" /\ UNCHANGED commits
    /\ UNCHANGED <<rows, pageLock, req, call, tick, job>>

(* Mutation of Reply: any answer of the CLI counts as a deployment. *)
ReplyDone(went) == "done"
(* What the CLI makes of the answer: no deployment id is an error. *)
Reply(went) == IF went THEN "done" ELSE "broken"
(* The commit runs to its end even if the runner has gone.  It fails with   *)
(* or without leaving a row; deployments_build_id_uid refuses a second row. *)
EndCommit(c) ==
    /\ c \in commits
    /\ commits' = commits \ {c}
    /\ \E d \in {"none", "row", "live"} :
          /\ dep' = [dep EXCEPT ![c.of] = IF @ = "none" THEN d ELSE @]
          /\ wpc' = IF wpc = "wait" /\ job = c
                    THEN Reply(d = "live" /\ dep[c.of] = "none") ELSE wpc
    /\ UNCHANGED <<status, attempts, token, lease, pageLock, req, call, tick, job>>

(* client.complete: the console checks the token and starts its handler. *)
Send(ok) ==
    /\ Accepted(job) /\ call[<<job.of, ok>>] = "none"
    /\ call' = [call EXCEPT ![<<job.of, ok>>] = "load"]

ReportCompleted ==
    /\ wpc = "done"
    /\ \/ Send(TRUE) /\ wpc' = "sent"
       \/ UNCHANGED call /\ wpc' = "broken"
    /\ UNCHANGED <<rows, pageLock, req, commits, tick, job>>

(* The CLI or the report times out: what the console started runs on. *)
LoseReply ==
    /\ wpc \in {"wait", "sent"}
    /\ wpc' = "broken"
    /\ UNCHANGED <<rows, pageLock, handlers, tick, job>>

(* An error of any kind is reported; whatever comes back, the runner goes on. *)
ReportFailed ==
    /\ wpc = "broken"
    /\ Send(FALSE) \/ UNCHANGED call
    /\ wpc' = "claim" /\ job' = NoJob
    /\ UNCHANGED <<rows, pageLock, req, commits, tick>>

(* The queue is drained: one controller tick, and the process exits. *)
RunnerTick ==
    /\ wpc = "tick"
    /\ wpc' = "off"
    /\ (\E t \in Tick : ListStale(t)) \/ UNCHANGED <<tpc, stale>>
    /\ UNCHANGED <<rows, pageLock, handlers, job>>

Heartbeat ==
    /\ job # NoJob /\ Accepted(job)
    /\ lease' = [lease EXCEPT ![job.of] = "held"]
    /\ UNCHANGED <<status, attempts, token, dep, pageLock, handlers, tick, runner>>

(* wakeBuildMachine, the controller or an operator starts the machine. *)
MachineStarts ==
    /\ wpc = "off"
    /\ wpc' = "claim"
    /\ UNCHANGED <<rows, pageLock, handlers, tick, job>>

(* It crashes, or the controller stops it: the runner is gone. *)
MachineDies ==
    /\ wpc # "off"
    /\ wpc' = "off" /\ job' = NoJob
    /\ UNCHANGED <<rows, pageLock, handlers, tick>>

-----------------------------------------------------------------------------
(* Time *)

(* No heartbeat has arrived for BUILD_LEASE_SECONDS. *)
LeaseExpires(b) ==
    /\ lease[b] = "held" /\ status[b] = "active"
    /\ lease' = [lease EXCEPT ![b] = "expired"]
    /\ UNCHANGED <<status, attempts, token, dep, pageLock, handlers, tick, runner>>

(* BUILD_JOB_TOKEN_TTL_SECONDS pass. *)
TokenExpires(b) ==
    /\ status[b] = "active" /\ token[b] # NoToken
    /\ token' = [token EXCEPT ![b] = NoToken]
    /\ UNCHANGED <<status, attempts, lease, dep, pageLock, handlers, tick, runner>>

LockExpires ==
    /\ pageLock
    /\ pageLock' = FALSE
    /\ UNCHANGED <<rows, handlers, tick, runner>>

-----------------------------------------------------------------------------
Create(r) == CreateInsert(r) \/ CreateRelease(r) \/ CreateDies(r)

Complete(c) ==
    CompleteLoad(c) \/ CompleteFinish(c) \/ CompleteUnlock(c) \/ CompleteDies(c)

Reconcile(t) == Requeue(t) \/ GiveUp(t) \/ GiveUpUnlock(t) \/ EndTick(t)

Runner ==
    \/ ClaimNothing \/ BuildFails \/ StartDeploy \/ ReportCompleted
    \/ LoseReply \/ ReportFailed \/ RunnerTick

BuildsNext ==
    \/ \E r \in BuildRequest : CreateLock(r) \/ Create(r)
    \/ \E c \in Build \X BOOLEAN : Complete(c)
    \/ \E t \in Tick : CronTick(t) \/ Reconcile(t)
    \/ Claim \/ Runner \/ Heartbeat \/ MachineStarts \/ MachineDies
    \/ \E c \in commits : EndCommit(c)
    \/ \E b \in Build : LeaseExpires(b) \/ TokenExpires(b)
    \/ LockExpires

BuildsSpec == BuildsInit /\ [][BuildsNext]_buildVars

(* Fairness: handlers, the runner and time go on, and the cron ticks.  The  *)
(* last two lines: the runner is not killed before each of its claims, nor  *)
(* each tick before it has handled a row that it has listed.                *)
BuildsFairSpec ==
    /\ BuildsSpec
    /\ \A c \in Build \X BOOLEAN : WF_buildVars(Complete(c))
    /\ WF_buildVars(\E c \in commits : EndCommit(c))
    /\ WF_buildVars(Runner) /\ WF_buildVars(MachineStarts)
    /\ \A b \in Build : WF_buildVars(LeaseExpires(b))
    /\ \A t \in Tick : WF_buildVars(CronTick(t)) /\ WF_buildVars(Reconcile(t))
    /\ SF_buildVars(Claim)
    /\ \A t \in Tick : SF_buildVars(Requeue(t) \/ GiveUp(t))
=============================================================================
