------------------------------- MODULE BuildJob -------------------------------
(* build-runner: processJob, one claimed job from the clone to the report.  *)
(* Commands (git, the package manager, the build, the deploy CLI) end in    *)
(* one of a few ways; each has the job's time limit, so it ends.  The job   *)
(* logs through the sink and reports once more when a report fails.         *)
EXTENDS LogSink

CONSTANTS
    Installs,   \* numbers of install commands of the package managers
    MaxOutput   \* bound: lines printed by commands, also after their exit

ASSUME JobAssumption ==
    Installs \subseteq Nat \ {0} /\ MaxOutput \in Nat

VARIABLES
    installs,   \* how many install commands there are to try
    jpc, attempt,
    deployed,   \* the CLI has committed the deployment
    unread,     \* ... but the runner did not get its result
    reports,    \* calls of complete
    outcome,    \* what the console took as the outcome, once and for all
    output

site == <<deployed, unread>>
console == <<reports, outcome>>
jobVars == <<sinkVars, installs, jpc, attempt, site, console, output>>

JobTypeOK ==
    /\ SinkTypeOK
    /\ installs \in Installs
    /\ jpc \in {"begin", "clone", "checkout", "fullFetch", "retryCheckout", "submodules",
                "install", "build", "legacyBuild", "collect", "deploy",
                "settle", "complete", "failing", "settleFailed", "completeFailed",
                "dispose", "done"}
    /\ attempt \in 1..installs
    /\ deployed \in BOOLEAN /\ unread \in BOOLEAN
    /\ reports \in 0..2
    /\ outcome \in {"none", "completed", "failed"}
    /\ output \in 0..MaxOutput

JobInit ==
    /\ SinkInit
    /\ installs \in Installs
    /\ jpc = "begin" /\ attempt = 1
    /\ deployed = FALSE /\ unread = FALSE
    /\ reports = 0 /\ outcome = "none"
    /\ output = 0

JobAt(label) == jpc = label
Go(label) == jpc' = label
-----------------------------------------------------------------------------
(* Output is a line of whatever command runs, or of one that left its pipe  *)
(* open: the exit of a command does not wait for the end of its output.     *)
Output ==
    /\ output < MaxOutput
    /\ output' = output + 1
    /\ AppendIfOpen
    /\ UNCHANGED <<installs, jpc, attempt, site, console>>

Begin ==
    /\ JobAt("begin")
    /\ Append
    /\ Go("clone")
    /\ UNCHANGED <<installs, attempt, site, console, output>>

(* cloneRepo: init, remote add and fetch of the commit.  A host that does   *)
(* not serve any commit refuses it here, and then nothing is tried instead. *)
FetchCommit ==
    /\ JobAt("clone")
    /\ jpc' \in {"checkout", "failing"}
    /\ UNCHANGED <<sinkVars, installs, attempt, site, console, output>>

Checkout ==
    /\ JobAt("checkout")
    /\ jpc' \in {"submodules", "fullFetch"}
    /\ UNCHANGED <<sinkVars, installs, attempt, site, console, output>>

FullFetch ==
    /\ JobAt("fullFetch")
    /\ jpc' \in {"retryCheckout", "failing"}
    /\ UNCHANGED <<sinkVars, installs, attempt, site, console, output>>

RetryCheckout ==
    /\ JobAt("retryCheckout")
    /\ jpc' \in {"submodules", "failing"}
    /\ UNCHANGED <<sinkVars, installs, attempt, site, console, output>>

(* How the submodules fare does not matter; a plan may not be found.        *)
Submodules ==
    /\ JobAt("submodules")
    /\ \/ Go("install") /\ Append
       \/ Go("failing") /\ UNCHANGED sinkVars
    /\ UNCHANGED <<installs, attempt, site, console, output>>
-----------------------------------------------------------------------------
(* A command exits with 0, exits with another code or is killed.            *)
Install ==
    /\ JobAt("install")
    /\ \/ Go("build") /\ Append /\ attempt' = 1
       \/ attempt < installs /\ attempt' = attempt + 1 /\ Append /\ UNCHANGED jpc
       \/ Go("failing") /\ attempt' = 1 /\ UNCHANGED sinkVars
    /\ UNCHANGED <<installs, site, console, output>>

RunBuild ==
    /\ JobAt("build")
    /\ \/ Go("collect") /\ UNCHANGED sinkVars
       \/ Go("legacyBuild") /\ Append
       \/ Go("failing") /\ UNCHANGED sinkVars
    /\ UNCHANGED <<installs, attempt, site, console, output>>

LegacyBuild ==
    /\ JobAt("legacyBuild")
    /\ jpc' \in {"collect", "failing"}
    /\ UNCHANGED <<sinkVars, installs, attempt, site, console, output>>

CollectOutput ==
    /\ JobAt("collect")
    /\ \/ Go("deploy") /\ Append
       \/ Go("failing") /\ UNCHANGED sinkVars
    /\ UNCHANGED <<installs, attempt, site, console, output>>

(* Mutation of RunCliDeploy: a CLI that exits with 0 has deployed.          *)
RunCliDeployTrusting ==
    /\ JobAt("deploy")
    /\ \/ /\ deployed' \in BOOLEAN /\ UNCHANGED unread
          /\ AppendAndFlush /\ Go("settle")
       \/ /\ deployed' \in BOOLEAN /\ unread' = deployed'
          /\ Go("failing") /\ UNCHANGED sinkVars
    /\ UNCHANGED <<installs, attempt, console, output>>

(* runCliDeploy resolves only with the result line of a CLI that exits with *)
(* 0; the CLI may be killed, or fail, after its commit, or exit before its  *)
(* last line is read.                                                       *)
RunCliDeploy ==
    /\ JobAt("deploy")
    /\ \/ /\ deployed' = TRUE /\ UNCHANGED unread
          /\ AppendAndFlush /\ Go("settle")
       \/ /\ deployed' \in BOOLEAN /\ unread' = deployed'
          /\ Go("failing") /\ UNCHANGED sinkVars
    /\ UNCHANGED <<installs, attempt, console, output>>
-----------------------------------------------------------------------------
(* Mutation of Settle: flush() returns when nothing is buffered.            *)
SettleEmpty ==
    /\ JobAt("settle") /\ ~ flushing /\ buffer = {}
    /\ Go("complete")
    /\ UNCHANGED <<sinkVars, installs, attempt, site, console, output>>

(* flush() returns when no drain is under way.                              *)
Settle ==
    /\ JobAt("settle") /\ ~ flushing
    /\ Go("complete")
    /\ UNCHANGED <<sinkVars, installs, attempt, site, console, output>>

Report(as) ==
    /\ reports' = reports + 1
    /\ outcome' = IF outcome = "none" THEN as ELSE outcome

CompleteBuild ==
    /\ JobAt("complete")
    /\ \/ Report("completed") /\ jpc' \in {"dispose", "failing"}
       \/ reports' = reports + 1 /\ UNCHANGED outcome /\ Go("failing")
    /\ UNCHANGED <<sinkVars, installs, attempt, site, output>>

Catch ==
    /\ JobAt("failing")
    /\ AppendAndFlush
    /\ Go("settleFailed")
    /\ UNCHANGED <<installs, attempt, site, console, output>>

SettleFailed ==
    /\ JobAt("settleFailed") /\ ~ flushing
    /\ Go("completeFailed")
    /\ UNCHANGED <<sinkVars, installs, attempt, site, console, output>>

CompleteFailed ==
    /\ JobAt("completeFailed")
    /\ Report("failed") \/ (reports' = reports + 1 /\ UNCHANGED outcome)
    /\ Go("dispose")
    /\ UNCHANGED <<sinkVars, installs, attempt, site, output>>

Finally ==
    /\ JobAt("dispose")
    /\ Dispose
    /\ Go("done")
    /\ UNCHANGED <<installs, attempt, site, console, output>>
-----------------------------------------------------------------------------
JobStep ==
    \/ Begin \/ FetchCommit \/ Checkout \/ FullFetch \/ RetryCheckout
    \/ Submodules \/ Install \/ RunBuild \/ LegacyBuild \/ CollectOutput \/ RunCliDeploy
    \/ Settle \/ CompleteBuild \/ Catch \/ SettleFailed \/ CompleteFailed \/ Finally

Sink(A) == A /\ UNCHANGED <<installs, jpc, attempt, site, console, output>>

JobNext == JobStep \/ Output \/ Sink(TimerFires) \/ Sink(Posts) \/ Sink(Arrives)

(* Commands and posts end: each has its time limit.                         *)
JobFairness ==
    /\ WF_jobVars(JobStep)
    /\ WF_jobVars(Sink(Posts))

JobSpec == JobInit /\ [][JobNext]_jobVars
JobFairSpec == JobSpec /\ JobFairness
=============================================================================
