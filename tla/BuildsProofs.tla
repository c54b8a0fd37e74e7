---------------------------- MODULE BuildsProofs ----------------------------
(* Proofs about Builds, for any number of builds, requests and ticks.       *)
EXTENDS BuildsProps, FiniteSetTheorems, TLAPS

(* Why a report as completed is true: the runner has seen the deployment go *)
(* live before it sends one, and dep[b] = "live" lasts.                     *)
ReportsLive ==
    /\ wpc \in {"done", "sent"} => dep[job.of] = "live"
    /\ \A b \in Build : call[<<b, TRUE>>] # "none" => dep[b] = "live"

(* The ticks that still hold a row of b which they would requeue.           *)
Holders(b) == {t \in Tick : \E row \in stale[t] : row[1] = b /\ CanRetry(row[2])}

(* A tick lists a build once.                                               *)
OneRowEach ==
    \A t \in Tick : \A row, other \in stale[t] : row[1] = other[1] => row = other

(* A tick that lists a row with an attempt left is paid for by that attempt; *)
(* each requeue uses up one tick, and each claim follows one requeue.       *)
Spent(b) == attempts[b] + Cardinality(Holders(b))
Budget ==
    \A b \in Build :
        /\ Spent(b) <= MaxAttempts + Cardinality(Tick) - 1
        /\ b \in Having("absent") \cup Having("queued") =>
              Spent(b) <= MaxAttempts + Cardinality(Tick) - 2

(* AttemptsBounded follows from this, and every step keeps it.              *)
IInv == BuildsTypeOK /\ OneRowEach /\ Budget
-----------------------------------------------------------------------------
(* The initial state has its types.                                         *)
LEMMA TypeInit == BuildsInit => BuildsTypeOK
<1> SUFFICES ASSUME BuildsInit PROVE BuildsTypeOK
    OBVIOUS
<1> USE BuildsAssumption DEF BuildsInit, Build, NoToken, Having
<1>1. RowsOK BY DEF RowsOK
<1>2. HandlersOK BY DEF HandlersOK
<1>3. RunnerOK BY DEF RunnerOK
<1> QED BY <1>1, <1>2, <1>3 DEF BuildsTypeOK

(* The create requests keep the types.                                      *)
LEMMA TypeCreate ==
    ASSUME BuildsTypeOK, NEW r \in BuildRequest, CreateLock(r) \/ Create(r)
    PROVE  BuildsTypeOK'
<1> USE BuildsAssumption
<1> USE DEF BuildsTypeOK, RowsOK, HandlersOK, RunnerOK, Build, NoToken, Terminal, Having,
            rows, handlers, tick, runner, ReqGoto
<1>1. CASE CreateLock(r) BY <1>1 DEF CreateLock
<1>2. CASE CreateInsert(r) BY <1>2 DEF CreateInsert, Oldest
<1>3. CASE CreateRelease(r) BY <1>3 DEF CreateRelease, Unlock
<1>4. CASE CreateDies(r) BY <1>4 DEF CreateDies
<1> QED BY <1>1, <1>2, <1>3, <1>4 DEF Create

(* The reports keep the types.                                              *)
LEMMA TypeComplete ==
    ASSUME BuildsTypeOK, NEW c \in Build \X BOOLEAN, Complete(c)
    PROVE  BuildsTypeOK'
<1> USE BuildsAssumption
<1> USE DEF BuildsTypeOK, RowsOK, HandlersOK, Build, NoToken, Terminal, Having,
            rows, handlers, tick, To
<1>0. ASSUME \/ Reported(c, TRUE) \/ Reported(c, FALSE) \/ UNCHANGED runner
      PROVE  RunnerOK'
    BY <1>0 DEF Reported, RunnerOK, runner
<1>1. CASE CompleteLoad(c)
    <2>1. /\ RunnerOK' /\ UNCHANGED <<rows, pageLock, req, commits, tick>>
          /\ To(c, "none") \/ To(c, "finish")
        BY <1>0, <1>1 DEF CompleteLoad
    <2>2. RowsOK' BY <2>1
    <2>3. HandlersOK'
        <3>1. CASE To(c, "none") BY <2>1, <3>1
        <3>2. CASE To(c, "finish") BY <2>1, <3>2
        <3> QED BY <2>1, <3>1, <3>2
    <2> QED BY <2>1, <2>2, <2>3
<1>2. CASE CompleteFinish(c)
    <2>1. RunnerOK' BY <1>0, <1>2 DEF CompleteFinish
    <2> QED BY <1>2, <2>1 DEF CompleteFinish, Finish, MayFinish
<1>3. CASE CompleteUnlock(c)
    <2>1. RunnerOK' BY <1>0, <1>3 DEF CompleteUnlock
    <2> QED BY <1>3, <2>1 DEF CompleteUnlock, Unlock
<1>4. CASE CompleteDies(c)
    <2>1. RunnerOK' BY <1>0, <1>4 DEF CompleteDies
    <2> QED BY <1>4, <2>1 DEF CompleteDies
<1> QED BY <1>1, <1>2, <1>3, <1>4 DEF Complete

(* The ticks keep the types.                                                *)
LEMMA TypeTick ==
    ASSUME BuildsTypeOK, NEW t \in Tick, CronTick(t) \/ Reconcile(t)
    PROVE  BuildsTypeOK'
<1> USE BuildsAssumption
<1> USE DEF BuildsTypeOK, RowsOK, HandlersOK, RunnerOK, Build, NoToken, Terminal, Having,
            rows, handlers, tick, runner, At
<1>1. CASE CronTick(t) BY <1>1 DEF CronTick, ListStale, Lapsed
<1>2. CASE Requeue(t)
    <2> PICK row \in stale[t] :
            /\ stale' = [stale EXCEPT ![t] = @ \ {row}]
            /\ IF status[row[1]] = "active" THEN Requeued(row[1])
                                           ELSE UNCHANGED <<status, token, lease>>
        BY <1>2 DEF Requeue
    <2>1. row[1] \in Build /\ stale' \in [Tick -> SUBSET (Build \X Nat)]
        OBVIOUS
    <2>2. RowsOK'
        <3> DEFINE b == row[1]
        <3>0. b \in Build /\ UNCHANGED <<attempts, dep>> BY <1>2, <2>1 DEF Requeue
        <3> HIDE DEF b
        <3>1. CASE UNCHANGED <<status, token, lease>> BY <3>0, <3>1
        <3>2. CASE Requeued(b) BY <3>0, <3>2 DEF Requeued
        <3> QED BY <3>1, <3>2 DEF b
    <2>3. HandlersOK' BY <1>2, <2>1 DEF Requeue
    <2> QED BY <1>2, <2>2, <2>3 DEF Requeue
<1>3. CASE GiveUp(t)
    <2> PICK row \in stale[t] :
            /\ stale' = [stale EXCEPT ![t] = @ \ {row}]
            /\ Finish(row[1], "failed")
            /\ IF MayFinish(row[1]) THEN At(t, "unlock") ELSE UNCHANGED tpc
        BY <1>3 DEF GiveUp
    <2>1. row[1] \in Build /\ stale' \in [Tick -> SUBSET (Build \X Nat)]
        OBVIOUS
    <2>2. RowsOK' BY <1>3, <2>1 DEF GiveUp, Finish, MayFinish
    <2>3. tpc' \in [Tick -> {"none", "reclaim", "unlock"}]
        OBVIOUS
    <2>4. HandlersOK' BY <1>3, <2>1, <2>3 DEF GiveUp
    <2> QED BY <1>3, <2>2, <2>4 DEF GiveUp
<1>4. CASE GiveUpUnlock(t) BY <1>4 DEF GiveUpUnlock, Unlock
<1>5. CASE EndTick(t) BY <1>5 DEF EndTick
<1> QED BY <1>1, <1>2, <1>3, <1>4, <1>5 DEF Reconcile

(* The runner, the machine, the commits and time keep the types.            *)
LEMMA TypeRunner ==
    ASSUME BuildsTypeOK,
           \/ Claim \/ Runner \/ Heartbeat \/ MachineStarts \/ MachineDies
           \/ \E c \in commits : EndCommit(c)
           \/ \E b \in Build : LeaseExpires(b) \/ TokenExpires(b)
           \/ LockExpires
    PROVE  BuildsTypeOK'
<1> USE BuildsAssumption
<1> USE DEF BuildsTypeOK, RowsOK, HandlersOK, RunnerOK, Build, NoToken, Terminal, Having,
            rows, handlers, tick, runner
<1>1. CASE Claim
    <2> PICK b \in Oldest("queued") :
            /\ status' = [status EXCEPT ![b] = "active"]
            /\ attempts' = [attempts EXCEPT ![b] = attempts[b] + 1]
            /\ token' = [token EXCEPT ![b] = attempts[b] + 1]
            /\ lease' = [lease EXCEPT ![b] = "held"]
            /\ \/ wpc' = "build" /\ job' = [of |-> b, by |-> attempts[b] + 1]
               \/ wpc' = "tick" /\ UNCHANGED job
        BY <1>1 DEF Claim
    <2>1. b \in Build BY DEF Oldest
    <2>2. RowsOK'
        <3>1. UNCHANGED dep BY <1>1 DEF Claim
        <3> QED BY <2>1, <3>1
    <2>3. RunnerOK'
        <3>1. wpc = "claim" BY <1>1 DEF Claim
        <3>2. [of |-> b, by |-> attempts[b] + 1] \in [of : Build, by : Nat \ {0}]
            <4> HIDE DEF Build
            <4> QED BY <2>1
        <3> QED BY <3>1, <3>2
    <2> QED BY <1>1, <2>2, <2>3 DEF Claim
<1>2. CASE ClaimNothing BY <1>2 DEF ClaimNothing
<1>3. CASE BuildFails BY <1>3 DEF BuildFails
<1>4. CASE StartDeploy BY <1>4 DEF StartDeploy
<1>5. ASSUME NEW c \in commits, EndCommit(c) PROVE BuildsTypeOK'
    <2>1. RowsOK'
        <3>1. c.of \in Build OBVIOUS
        <3>2. UNCHANGED <<status, attempts, token, lease>> BY <1>5 DEF EndCommit
        <3>3. dep' \in [Build -> {"none", "row", "live"}] BY <1>5, <3>1 DEF EndCommit
        <3> QED BY <3>2, <3>3
    <2>2. HandlersOK' BY <1>5 DEF EndCommit
    <2>3. RunnerOK' BY <1>5 DEF EndCommit, Reply
    <2> QED BY <2>1, <2>2, <2>3
<1>6. CASE ReportCompleted BY <1>6 DEF ReportCompleted, Send
<1>7. CASE LoseReply BY <1>7 DEF LoseReply
<1>8. CASE ReportFailed BY <1>8 DEF ReportFailed, Send
<1>9. CASE RunnerTick
    <2>1. HandlersOK'
        <3>1. CASE UNCHANGED <<tpc, stale>> BY <1>9, <3>1 DEF RunnerTick
        <3>2. ASSUME NEW t \in Tick, ListStale(t) PROVE HandlersOK'
            BY <1>9, <3>2 DEF RunnerTick, ListStale, At, Lapsed
        <3> QED BY <1>9, <3>1, <3>2 DEF RunnerTick
    <2> QED BY <1>9, <2>1 DEF RunnerTick
<1>10. CASE Heartbeat BY <1>10 DEF Heartbeat, Accepted
<1>11. CASE MachineStarts BY <1>11 DEF MachineStarts
<1>12. CASE MachineDies BY <1>12 DEF MachineDies
<1>13. ASSUME NEW b \in Build, LeaseExpires(b) PROVE BuildsTypeOK'
    BY <1>13 DEF LeaseExpires
<1>14. ASSUME NEW b \in Build, TokenExpires(b) PROVE BuildsTypeOK'
    BY <1>14 DEF TokenExpires
<1>15. CASE LockExpires BY <1>15 DEF LockExpires
<1> QED BY <1>1, <1>2, <1>3, <1>4, <1>5, <1>6, <1>7, <1>8, <1>9, <1>10, <1>11, <1>12,
           <1>13, <1>14, <1>15 DEF Runner

(* Every step keeps the types.                                              *)
LEMMA TypeStep == BuildsTypeOK /\ [BuildsNext]_buildVars => BuildsTypeOK'
<1> SUFFICES ASSUME BuildsTypeOK, [BuildsNext]_buildVars PROVE BuildsTypeOK'
    OBVIOUS
<1>1. CASE BuildsNext BY <1>1, TypeCreate, TypeComplete, TypeTick, TypeRunner DEF BuildsNext
<1>2. CASE UNCHANGED buildVars
    BY <1>2 DEF buildVars, rows, handlers, tick, runner, BuildsTypeOK, RowsOK, HandlersOK, RunnerOK, Having
<1> QED BY <1>1, <1>2

(* The state has the types that BuildsTypeOK names, whatever the constants.       *)
THEOREM TypeCorrect == BuildsSpec => []BuildsTypeOK
<1> QED BY TypeInit, TypeStep, PTL DEF BuildsSpec

-----------------------------------------------------------------------------
(* No step takes a build out of a terminal status: each of the updates asks *)
(* for a status that is not terminal in the statement that changes it.      *)
LEMMA TerminalStep ==
    ASSUME BuildsTypeOK, [BuildsNext]_buildVars, NEW b \in Build, status[b] \in Terminal
    PROVE  status'[b] = status[b]
<1> USE DEF BuildsTypeOK, RowsOK, Terminal, rows
<1>1. ASSUME NEW r \in BuildRequest, CreateLock(r) \/ Create(r) PROVE status'[b] = status[b]
    BY <1>1 DEF CreateLock, Create, CreateInsert, CreateRelease, CreateDies, Oldest, Having
<1>2. ASSUME NEW c \in Build \X BOOLEAN, Complete(c) PROVE status'[b] = status[b]
    BY <1>2 DEF Complete, CompleteLoad, CompleteFinish, CompleteUnlock, CompleteDies,
                Finish, MayFinish
<1>3. ASSUME NEW t \in Tick, CronTick(t) \/ Reconcile(t) PROVE status'[b] = status[b]
    <2>1. CASE Requeue(t) BY <2>1 DEF Requeue, Requeued
    <2>2. CASE GiveUp(t) BY <2>2 DEF GiveUp, Finish, MayFinish
    <2>3. CASE CronTick(t) \/ GiveUpUnlock(t) \/ EndTick(t)
        BY <2>3 DEF CronTick, GiveUpUnlock, EndTick
    <2> QED BY <1>3, <2>1, <2>2, <2>3 DEF Reconcile
<1>4. CASE Claim BY <1>4 DEF Claim, Oldest, Having
<1>5. CASE Runner
    BY <1>5 DEF Runner, ClaimNothing, BuildFails, StartDeploy, ReportCompleted, LoseReply,
                ReportFailed, RunnerTick
<1>6. CASE \E c \in commits : EndCommit(c) BY <1>6 DEF EndCommit
<1>7. CASE Heartbeat \/ MachineStarts \/ MachineDies \/ LockExpires
    BY <1>7 DEF Heartbeat, MachineStarts, MachineDies, LockExpires
<1>8. CASE \E d \in Build : LeaseExpires(d) \/ TokenExpires(d)
    BY <1>8 DEF LeaseExpires, TokenExpires
<1>9. CASE UNCHANGED buildVars BY <1>9 DEF buildVars
<1> QED BY <1>1, <1>2, <1>3, <1>4, <1>5, <1>6, <1>7, <1>8, <1>9 DEF BuildsNext

(* A late report, a report of an older attempt or a sweep never changes a   *)
(* build that is completed or failed.                                       *)
THEOREM TerminalIsFinalHolds == BuildsSpec => TerminalIsFinal
<1>1. BuildsTypeOK /\ [BuildsNext]_buildVars =>
        [\A b \in Build : status[b] \in Terminal => status'[b] = status[b]]_buildVars
    BY TerminalStep
<1> QED BY <1>1, TypeCorrect, PTL DEF BuildsSpec, TerminalIsFinal

-----------------------------------------------------------------------------
(* CompletedIsLive with what makes it inductive.                            *)
Live == ReportsLive /\ CompletedIsLive

(* What the console does with a report keeps Live.                          *)
LEMMA LiveComplete ==
    ASSUME BuildsTypeOK, Live, NEW c \in Build \X BOOLEAN, Complete(c)
    PROVE  Live'
<1> USE DEF BuildsTypeOK, RowsOK, HandlersOK, RunnerOK, Live, ReportsLive, CompletedIsLive, rows, To
<1>1. UNCHANGED dep
    BY DEF Complete, CompleteLoad, CompleteFinish, CompleteUnlock, CompleteDies
<1>2. wpc' \in {"done", "sent"} => wpc' = wpc /\ job' = job
    <2>1. ASSUME NEW ok \in BOOLEAN, Reported(c, ok)
          PROVE  wpc' \in {"done", "sent"} => wpc' = wpc /\ job' = job
        BY <2>1 DEF Reported, runner
    <2>2. Reported(c, TRUE) \/ Reported(c, FALSE) \/ UNCHANGED runner
        BY DEF Complete, CompleteLoad, CompleteFinish, CompleteUnlock, CompleteDies
    <2> QED BY <2>1, <2>2 DEF runner
<1>3. \A b \in Build : call'[<<b, TRUE>>] # "none" => call[<<b, TRUE>>] # "none"
    <2>1. /\ call[c] # "none"
          /\ To(c, "none") \/ To(c, "finish") \/ To(c, "unlock")
        BY DEF Complete, CompleteLoad, CompleteFinish, CompleteUnlock, CompleteDies
    <2>2. \A d \in Build \X BOOLEAN : d # c => call'[d] = call[d]
        BY <2>1
    <2>3. \A b \in Build : <<b, TRUE>> \in Build \X BOOLEAN
        OBVIOUS
    <2> QED BY <2>1, <2>2, <2>3
<1>4. CompletedIsLive'
    <2>1. CASE CompleteFinish(c)
        <3> PICK b \in Build, ok \in BOOLEAN : c = <<b, ok>>
            OBVIOUS
        <3>1. status' = [status EXCEPT ![b] =
                             IF MayFinish(b) THEN IF ok THEN "completed" ELSE "failed" ELSE @]
            BY <2>1 DEF CompleteFinish, Finish
        <3>2. call[<<b, ok>>] # "none"
            BY <2>1 DEF CompleteFinish
        <3> QED BY <1>1, <3>1, <3>2
    <2>2. CASE UNCHANGED rows BY <2>2
    <2> QED BY <2>1, <2>2 DEF Complete, CompleteLoad, CompleteUnlock, CompleteDies
<1>5. ReportsLive' BY <1>1, <1>2, <1>3
<1> QED BY <1>4, <1>5

(* Every step keeps Live.                                                   *)
LEMMA LiveStep == BuildsTypeOK /\ Live /\ [BuildsNext]_buildVars => Live'
<1> SUFFICES ASSUME BuildsTypeOK, Live, [BuildsNext]_buildVars PROVE Live'
    OBVIOUS
<1> USE DEF BuildsTypeOK, RowsOK, HandlersOK, RunnerOK, Live, ReportsLive, CompletedIsLive,
            rows, handlers, runner, tick
<1>1. ASSUME NEW r \in BuildRequest, CreateLock(r) \/ Create(r) PROVE Live'
    BY <1>1 DEF CreateLock, Create, CreateInsert, CreateRelease, CreateDies
<1>2. ASSUME NEW c \in Build \X BOOLEAN, Complete(c) PROVE Live'
    BY <1>2, LiveComplete
<1>3. ASSUME NEW t \in Tick, CronTick(t) \/ Reconcile(t) PROVE Live'
    <2>1. UNCHANGED <<dep, call, wpc, job>>
        BY <1>3 DEF CronTick, Reconcile, Requeue, GiveUp, GiveUpUnlock, EndTick
    <2>2. \A b \in Build : status'[b] = "completed" => status[b] = "completed"
        <3>1. CASE Requeue(t) BY <3>1 DEF Requeue, Requeued
        <3>2. CASE GiveUp(t) BY <3>2 DEF GiveUp, Finish
        <3>3. CASE CronTick(t) \/ GiveUpUnlock(t) \/ EndTick(t)
            BY <3>3 DEF CronTick, GiveUpUnlock, EndTick
        <3> QED BY <1>3, <3>1, <3>2, <3>3 DEF Reconcile
    <2> QED BY <2>1, <2>2
<1>4. CASE Claim
    <2>1. UNCHANGED <<dep, call>> /\ wpc' \notin {"done", "sent"} BY <1>4 DEF Claim
    <2>2. \A b \in Build : status'[b] = "completed" => status[b] = "completed"
        BY <1>4 DEF Claim
    <2> QED BY <2>1, <2>2
<1>5. CASE Runner
    <2>1. CASE ReportCompleted
        <3>1. CASE Send(TRUE) /\ wpc' = "sent"
            <4>1. dep[job.of] = "live" BY <2>1 DEF ReportCompleted
            <4>2. \A b \in Build : call'[<<b, TRUE>>] # call[<<b, TRUE>>] => b = job.of
                BY <3>1 DEF Send
            <4> QED BY <2>1, <3>1, <4>1, <4>2 DEF ReportCompleted
        <3>2. CASE UNCHANGED call /\ wpc' = "broken" BY <2>1, <3>2 DEF ReportCompleted
        <3> QED BY <2>1, <3>1, <3>2 DEF ReportCompleted
    <2>2. CASE ReportFailed
        <3>1. UNCHANGED <<rows>> /\ wpc' = "claim" BY <2>2 DEF ReportFailed
        <3>2. \A b \in Build : call'[<<b, TRUE>>] = call[<<b, TRUE>>]
            BY <2>2 DEF ReportFailed, Send
        <3> QED BY <3>1, <3>2
    <2>3. CASE ClaimNothing \/ BuildFails \/ StartDeploy \/ LoseReply \/ RunnerTick
        BY <2>3 DEF ClaimNothing, BuildFails, StartDeploy, LoseReply, RunnerTick
    <2> QED BY <1>5, <2>1, <2>2, <2>3 DEF Runner
<1>6. ASSUME NEW c \in commits, EndCommit(c) PROVE Live'
    <2>1. UNCHANGED <<status, call, job>> BY <1>6 DEF EndCommit
    <2>2. \A b \in Build : dep[b] = "live" => dep'[b] = "live" BY <1>6 DEF EndCommit
    <2>3. wpc' \in {"done", "sent"} => dep'[job.of] = "live"
        BY <1>6, <2>2 DEF EndCommit, Reply
    <2> QED BY <2>1, <2>2, <2>3
<1>7. CASE Heartbeat \/ MachineStarts \/ MachineDies \/ LockExpires
    BY <1>7 DEF Heartbeat, MachineStarts, MachineDies, LockExpires
<1>8. ASSUME NEW d \in Build, LeaseExpires(d) \/ TokenExpires(d) PROVE Live'
    <2>1. UNCHANGED <<status, dep, call, wpc, job>>
        BY <1>8 DEF LeaseExpires, TokenExpires
    <2> QED BY <2>1
<1>9. CASE UNCHANGED buildVars BY <1>9 DEF buildVars
<1> QED BY <1>1, <1>2, <1>3, <1>4, <1>5, <1>6, <1>7, <1>8, <1>9 DEF BuildsNext

(* A completed build has a deployment of its own that went live.            *)
THEOREM CompletedIsLiveHolds == BuildsSpec => []CompletedIsLive
<1>1. BuildsInit => Live
    BY DEF BuildsInit, Live, ReportsLive, CompletedIsLive
<1>2. Live => CompletedIsLive
    BY DEF Live
<1> QED BY <1>1, <1>2, LiveStep, TypeCorrect, PTL DEF BuildsSpec

-----------------------------------------------------------------------------
(* Cardinalities of sets of ticks.                                          *)
LEMMA Fewer ==
    ASSUME NEW S \in SUBSET Tick, NEW T \in SUBSET S
    PROVE  /\ Cardinality(T) \in Nat /\ Cardinality(S) \in Nat /\ Cardinality(Tick) \in Nat
           /\ Cardinality(T) <= Cardinality(S) /\ Cardinality(S) <= Cardinality(Tick)
<1>1. IsFiniteSet(Tick) BY BuildsAssumption
<1>2. IsFiniteSet(S) /\ Cardinality(S) <= Cardinality(Tick) BY <1>1, FS_Subset
<1>3. IsFiniteSet(T) /\ Cardinality(T) <= Cardinality(S) BY <1>2, FS_Subset
<1> QED BY <1>1, <1>2, <1>3, FS_CardinalityType

(* A step that gives no attempt and no tick a row, and makes no build       *)
(* claimable again, keeps the budget.                                       *)
LEMMA BudgetFrame ==
    ASSUME BuildsTypeOK, Budget, UNCHANGED attempts,
           \A t \in Tick : stale'[t] \subseteq stale[t],
           \A b \in Build : status'[b] \in {"absent", "queued"} => status[b] \in {"absent", "queued"}
    PROVE  Budget'
<1> SUFFICES ASSUME NEW b \in Build
             PROVE  /\ Spent(b)' <= MaxAttempts + Cardinality(Tick) - 1
                    /\ status'[b] \in {"absent", "queued"} =>
                           Spent(b)' <= MaxAttempts + Cardinality(Tick) - 2
    BY DEF Budget, Having
<1>1. Holders(b)' \subseteq Holders(b) /\ Holders(b) \subseteq Tick
    BY DEF Holders
<1>2. /\ Cardinality(Holders(b)') <= Cardinality(Holders(b))
      /\ Cardinality(Holders(b)') \in Nat /\ Cardinality(Holders(b)) \in Nat
      /\ Cardinality(Tick) \in Nat
    BY <1>1, Fewer
<1>3. /\ Spent(b) <= MaxAttempts + Cardinality(Tick) - 1
      /\ status[b] \in {"absent", "queued"} =>
             Spent(b) <= MaxAttempts + Cardinality(Tick) - 2
    BY DEF Budget, Having
<1> QED BY <1>2, <1>3, BuildsAssumption DEF Spent, BuildsTypeOK, RowsOK

(* A tick lists rows: each one with an attempt left, and none that is queued. *)
LEMMA BudgetList ==
    ASSUME BuildsTypeOK, OneRowEach, Budget, NEW t \in Tick, ListStale(t), UNCHANGED <<status, attempts>>
    PROVE  OneRowEach' /\ Budget'
<1> USE DEF BuildsTypeOK, RowsOK, HandlersOK
<1>1. stale' = [stale EXCEPT ![t] = {<<b, attempts[b]>> : b \in Lapsed}]
    BY DEF ListStale
<1>2. OneRowEach'
    BY <1>1 DEF OneRowEach, Lapsed, Having
<1>3. ASSUME NEW b \in Build
      PROVE  /\ Spent(b)' <= MaxAttempts + Cardinality(Tick) - 1
             /\ status'[b] \in {"absent", "queued"} =>
                    Spent(b)' <= MaxAttempts + Cardinality(Tick) - 2
    <2>1. Holders(b) \subseteq Tick /\ Holders(b)' \subseteq Tick
        BY DEF Holders
    <2>2. /\ Cardinality(Holders(b)') <= Cardinality(Tick) /\ Cardinality(Tick) \in Nat
          /\ Cardinality(Holders(b)') \in Nat /\ Cardinality(Holders(b)) \in Nat
        BY <2>1, Fewer
    <2>3. /\ Spent(b) <= MaxAttempts + Cardinality(Tick) - 1
          /\ status[b] \in {"absent", "queued"} =>
                 Spent(b) <= MaxAttempts + Cardinality(Tick) - 2
        BY DEF Budget, Having
    <2>4. CASE status[b] = "active" /\ CanRetry(attempts[b])
        BY <2>2, <2>4, BuildsAssumption DEF Spent, CanRetry
    <2>5. CASE ~(status[b] = "active" /\ CanRetry(attempts[b]))
        <3>1. Holders(b)' \subseteq Holders(b)
            BY <1>1, <2>5 DEF Holders, Lapsed, Having, CanRetry
        <3>2. Cardinality(Holders(b)') <= Cardinality(Holders(b))
            BY <2>1, <3>1, Fewer
        <3> QED BY <2>2, <2>3, <3>2, BuildsAssumption DEF Spent
    <2> QED BY <2>4, <2>5
<1>4. Budget'
    BY <1>3 DEF Budget, Having
<1> QED BY <1>2, <1>4

(* A requeue uses up the row that its tick holds.                           *)
LEMMA BudgetRequeue ==
    ASSUME BuildsTypeOK, OneRowEach, Budget, NEW t \in Tick, Requeue(t)
    PROVE  Budget'
<1> USE DEF BuildsTypeOK, RowsOK, HandlersOK
<1> PICK row \in stale[t] :
        /\ CanRetry(row[2])
        /\ stale' = [stale EXCEPT ![t] = @ \ {row}]
        /\ IF status[row[1]] = "active" THEN Requeued(row[1])
                                       ELSE UNCHANGED <<status, token, lease>>
    BY DEF Requeue
<1>1. row[1] \in Build /\ UNCHANGED attempts
    BY DEF Requeue
<1>2. \A u \in Tick : stale'[u] \subseteq stale[u]
    OBVIOUS
<1>3. CASE status[row[1]] # "active"
    BY <1>1, <1>2, <1>3, BudgetFrame
<1>4. CASE status[row[1]] = "active"
    <2>1. status' = [status EXCEPT ![row[1]] = "queued"]
        BY <1>4 DEF Requeued
    <2>2. ASSUME NEW b \in Build
          PROVE  /\ Spent(b)' <= MaxAttempts + Cardinality(Tick) - 1
                 /\ status'[b] \in {"absent", "queued"} =>
                        Spent(b)' <= MaxAttempts + Cardinality(Tick) - 2
        <3>1. Holders(b) \subseteq Tick /\ Holders(b)' \subseteq Holders(b)
            BY <1>2 DEF Holders
        <3>2. /\ Cardinality(Holders(b)') <= Cardinality(Holders(b))
              /\ Cardinality(Holders(b)') \in Nat /\ Cardinality(Holders(b)) \in Nat
              /\ Cardinality(Tick) \in Nat
            BY <3>1, Fewer
        <3>3. /\ Spent(b) <= MaxAttempts + Cardinality(Tick) - 1
              /\ status[b] \in {"absent", "queued"} =>
                     Spent(b) <= MaxAttempts + Cardinality(Tick) - 2
            BY DEF Budget, Having
        <3>4. CASE b = row[1]
            <4>1. t \in Holders(b)
                BY <3>4 DEF Holders
            <4>2. Holders(b)' \subseteq Holders(b) \ {t}
                BY <3>1, <3>4 DEF Holders, OneRowEach
            <4>3. IsFiniteSet(Holders(b))
                BY <3>1, FS_Subset, BuildsAssumption
            <4>4. Cardinality(Holders(b) \ {t}) = Cardinality(Holders(b)) - 1
                BY <4>1, <4>3, FS_RemoveElement
            <4>5. Cardinality(Holders(b)') <= Cardinality(Holders(b) \ {t})
                BY <3>1, <4>2, Fewer
            <4> QED BY <1>1, <3>2, <3>3, <4>4, <4>5, BuildsAssumption DEF Spent
        <3>5. CASE b # row[1]
            BY <1>1, <2>1, <3>2, <3>3, <3>5, BuildsAssumption DEF Spent
        <3> QED BY <3>4, <3>5
    <2> QED BY <2>2 DEF Budget, Having
<1> QED BY <1>3, <1>4

(* A claim turns the margin of a queued build into an attempt.              *)
LEMMA BudgetClaim ==
    ASSUME BuildsTypeOK, Budget, Claim
    PROVE  Budget'
<1> USE DEF BuildsTypeOK, RowsOK, HandlersOK
<1> PICK b \in Oldest("queued") :
        /\ status' = [status EXCEPT ![b] = "active"]
        /\ attempts' = [attempts EXCEPT ![b] = attempts[b] + 1]
    BY DEF Claim
<1>1. b \in Build /\ status[b] = "queued"
    BY DEF Oldest, Having
<1>2. UNCHANGED stale
    BY DEF Claim, tick
<1>3. ASSUME NEW d \in Build
      PROVE  /\ Spent(d)' <= MaxAttempts + Cardinality(Tick) - 1
             /\ status'[d] \in {"absent", "queued"} =>
                    Spent(d)' <= MaxAttempts + Cardinality(Tick) - 2
    <2>1. Holders(d)' = Holders(d) /\ Holders(d) \subseteq Tick
        BY <1>2 DEF Holders
    <2>2. Cardinality(Holders(d)) \in Nat /\ Cardinality(Tick) \in Nat
        BY <2>1, Fewer
    <2>3. /\ Spent(d) <= MaxAttempts + Cardinality(Tick) - 1
          /\ status[d] \in {"absent", "queued"} =>
                 Spent(d) <= MaxAttempts + Cardinality(Tick) - 2
        BY DEF Budget, Having
    <2> QED BY <1>1, <2>1, <2>2, <2>3, BuildsAssumption DEF Spent
<1> QED BY <1>3 DEF Budget, Having

(* Every step keeps the budget and one row for each build and tick.         *)
LEMMA BudgetStep == IInv /\ [BuildsNext]_buildVars => OneRowEach' /\ Budget'
<1> SUFFICES ASSUME IInv, [BuildsNext]_buildVars PROVE OneRowEach' /\ Budget'
    OBVIOUS
<1> USE DEF IInv
<1>0. ASSUME \A t \in Tick : stale'[t] \subseteq stale[t] PROVE OneRowEach'
    BY <1>0 DEF OneRowEach
<1>1. ASSUME UNCHANGED attempts, \A t \in Tick : stale'[t] \subseteq stale[t],
             \A b \in Build : status'[b] \in {"absent", "queued"} => status[b] \in {"absent", "queued"}
      PROVE  OneRowEach' /\ Budget'
    BY <1>0, <1>1, BudgetFrame
<1>2. ASSUME NEW r \in BuildRequest, CreateLock(r) \/ Create(r) PROVE OneRowEach' /\ Budget'
    <2>1. UNCHANGED <<attempts, stale>>
        BY <1>2 DEF CreateLock, Create, CreateInsert, CreateRelease, CreateDies, rows, tick
    <2>2. \A b \in Build : status'[b] \in {"absent", "queued"} => status[b] \in {"absent", "queued"}
        BY <1>2 DEF CreateLock, Create, CreateInsert, CreateRelease, CreateDies, rows, Oldest,
                    Having, BuildsTypeOK, RowsOK
    <2> QED BY <1>1, <2>1, <2>2
<1>3. ASSUME NEW c \in Build \X BOOLEAN, Complete(c) PROVE OneRowEach' /\ Budget'
    <2>1. UNCHANGED <<attempts, stale>>
        BY <1>3 DEF Complete, CompleteLoad, CompleteFinish, CompleteUnlock, CompleteDies, rows, tick
    <2>2. \A b \in Build : status'[b] \in {"absent", "queued"} => status[b] \in {"absent", "queued"}
        BY <1>3 DEF Complete, CompleteLoad, CompleteFinish, CompleteUnlock, CompleteDies, rows,
                    Finish, MayFinish, BuildsTypeOK, RowsOK
    <2> QED BY <1>1, <2>1, <2>2
<1>4. ASSUME NEW t \in Tick, CronTick(t) \/ Reconcile(t) PROVE OneRowEach' /\ Budget'
    <2>1. CASE CronTick(t)
        BY <2>1, BudgetList DEF CronTick, rows
    <2>2. CASE Requeue(t)
        <3>1. \A u \in Tick : stale'[u] \subseteq stale[u]
            BY <2>2 DEF Requeue, BuildsTypeOK, HandlersOK
        <3> QED BY <1>0, <2>2, <3>1, BudgetRequeue
    <2>3. CASE GiveUp(t)
        <3>1. UNCHANGED attempts /\ \A u \in Tick : stale'[u] \subseteq stale[u]
            BY <2>3 DEF GiveUp, BuildsTypeOK, HandlersOK
        <3>2. \A b \in Build : status'[b] \in {"absent", "queued"} => status[b] \in {"absent", "queued"}
            BY <2>3 DEF GiveUp, Finish, BuildsTypeOK, RowsOK
        <3> QED BY <1>1, <3>1, <3>2
    <2>4. CASE GiveUpUnlock(t) \/ EndTick(t)
        <3>1. UNCHANGED <<attempts, status>> /\ \A u \in Tick : stale'[u] \subseteq stale[u]
            BY <2>4 DEF GiveUpUnlock, EndTick, rows, BuildsTypeOK, HandlersOK
        <3> QED BY <1>1, <3>1
    <2> QED BY <1>4, <2>1, <2>2, <2>3, <2>4 DEF Reconcile
<1>5. CASE Claim
    <2>1. UNCHANGED stale BY <1>5 DEF Claim, tick
    <2> QED BY <1>0, <1>5, <2>1, BudgetClaim
<1>6. CASE Runner
    <2>1. CASE RunnerTick
        <3>1. UNCHANGED <<status, attempts>> BY <2>1 DEF RunnerTick, rows
        <3>2. CASE UNCHANGED <<tpc, stale>> BY <1>1, <3>1, <3>2
        <3> QED BY <2>1, <3>1, <3>2, BudgetList DEF RunnerTick
    <2>2. CASE ~RunnerTick
        <3>1. UNCHANGED <<status, attempts, stale>>
            BY <1>6, <2>2 DEF Runner, ClaimNothing, BuildFails, StartDeploy, ReportCompleted,
                              LoseReply, ReportFailed, rows, tick
        <3> QED BY <1>1, <3>1
    <2> QED BY <2>1, <2>2
<1>7. CASE \/ \E c \in commits : EndCommit(c)
           \/ Heartbeat \/ MachineStarts \/ MachineDies \/ LockExpires
           \/ \E d \in Build : LeaseExpires(d) \/ TokenExpires(d)
           \/ UNCHANGED buildVars
    <2>1. UNCHANGED <<status, attempts, stale>>
        BY <1>7 DEF EndCommit, Heartbeat, MachineStarts, MachineDies, LockExpires, LeaseExpires,
                    TokenExpires, buildVars, rows, tick
    <2> QED BY <1>1, <2>1
<1> QED BY <1>2, <1>3, <1>4, <1>5, <1>6, <1>7 DEF BuildsNext

(* At the start no attempt is spent and no tick holds a row.                *)
LEMMA BudgetInit == BuildsInit => OneRowEach /\ Budget
<1> SUFFICES ASSUME BuildsInit PROVE OneRowEach /\ Budget
    OBVIOUS
<1>1. OneRowEach
    BY DEF BuildsInit, OneRowEach
<1>2. ASSUME NEW b \in Build PROVE Spent(b) <= MaxAttempts + Cardinality(Tick) - 2
    <2>1. Holders(b) = {}
        BY DEF BuildsInit, Holders
    <2>2. Cardinality(Holders(b)) = 0
        BY <2>1, FS_EmptySet
    <2>3. Cardinality(Tick) \in Nat /\ Cardinality(Tick) # 0
        BY BuildsAssumption, FS_EmptySet, FS_CardinalityType
    <2>4. attempts[b] = 0
        BY DEF BuildsInit
    <2> QED BY <2>2, <2>3, <2>4, BuildsAssumption DEF Spent
<1>3. Cardinality(Tick) \in Nat
    BY BuildsAssumption, FS_CardinalityType
<1>4. \A b \in Build : attempts[b] = 0 /\ Cardinality(Holders(b)) = 0
    BY FS_EmptySet DEF BuildsInit, Holders
<1> QED BY <1>1, <1>2, <1>3, <1>4, BuildsAssumption DEF Budget, Spent

(* However many ticks overlap, a build never has more attempts than its     *)
(* maximum and one for each tick but the first.                             *)
THEOREM AttemptsBoundedHolds == BuildsSpec => []AttemptsBounded
<1>1. BuildsInit => IInv
    BY TypeInit, BudgetInit DEF IInv
<1>2. IInv /\ [BuildsNext]_buildVars => IInv'
    BY TypeStep, BudgetStep DEF IInv
<1>3. IInv => AttemptsBounded
    <2> SUFFICES ASSUME IInv, NEW b \in Build
                 PROVE  attempts[b] <= MaxAttempts + Cardinality(Tick) - 1
        BY DEF AttemptsBounded
    <2>1. Cardinality(Holders(b)) \in Nat /\ Cardinality(Tick) \in Nat
        BY Fewer DEF Holders
    <2> QED BY <2>1, BuildsAssumption DEF IInv, Budget, Spent, BuildsTypeOK, RowsOK
<1> QED BY <1>1, <1>2, <1>3, PTL DEF BuildsSpec

-----------------------------------------------------------------------------
(* Builds implements BuildQueue.                                            *)

(* What is reported, deployed or taken back was claimed before.             *)
Tried ==
    /\ \A b \in Build : status[b] = "active" => attempts[b] > 0
    /\ \A c \in Build \X BOOLEAN : call[c] # "none" => attempts[c[1]] > 0
    /\ \A c \in commits : attempts[c.of] > 0
    /\ \A t \in Tick : \A row \in stale[t] : attempts[row[1]] > 0

(* Attempts are not taken back, so only new members need an argument.       *)
LEMMA TriedKept ==
    ASSUME BuildsTypeOK, Tried,
           \A b \in Build : attempts'[b] >= attempts[b] /\ attempts'[b] \in Nat,
           \A b \in Build : status'[b] = "active" => status[b] = "active" \/ attempts'[b] > 0,
           \A c \in Build \X BOOLEAN : call'[c] # "none" => call[c] # "none" \/ attempts[c[1]] > 0,
           \A c \in commits' : c.of \in Build /\ (c \in commits \/ attempts[c.of] > 0),
           \A t \in Tick : \A row \in stale'[t] :
               row[1] \in Build /\ (row \in stale[t] \/ attempts[row[1]] > 0)
    PROVE  Tried'
<1>1. \A b \in Build : attempts[b] \in Nat
    BY DEF BuildsTypeOK, RowsOK
<1>2. \A b \in Build : attempts[b] > 0 => attempts'[b] > 0
    BY <1>1
<1>3. \A b \in Build : status'[b] = "active" => attempts'[b] > 0
    BY <1>2 DEF Tried
<1>4. \A c \in Build \X BOOLEAN : call'[c] # "none" => attempts'[c[1]] > 0
    BY <1>2 DEF Tried
<1>5. \A c \in commits' : attempts'[c.of] > 0
    BY <1>2 DEF Tried
<1>6. \A t \in Tick : \A row \in stale'[t] : attempts'[row[1]] > 0
    BY <1>2 DEF Tried
<1> QED BY <1>3, <1>4, <1>5, <1>6 DEF Tried

(* The runner's job was claimed if the console accepts its token.           *)
LEMMA AcceptedTried ==
    ASSUME BuildsTypeOK, Tried, job # NoJob, Accepted(job)
    PROVE  job.of \in Build /\ attempts[job.of] > 0
BY DEF BuildsTypeOK, RunnerOK, Accepted, Tried

(* A row that a tick lists is active.                                       *)
LEMMA ListedTried ==
    ASSUME BuildsTypeOK, Tried, NEW t \in Tick, ListStale(t)
    PROVE  \A u \in Tick : \A row \in stale'[u] :
               row[1] \in Build /\ (row \in stale[u] \/ attempts[row[1]] > 0)
<1>1. \A u \in Tick : stale[u] \subseteq Build \X Nat
    BY DEF BuildsTypeOK, HandlersOK
<1>2. \A u \in Tick \ {t} : stale'[u] = stale[u]
    BY DEF ListStale, BuildsTypeOK, HandlersOK
<1>3. stale'[t] = {<<b, attempts[b]>> : b \in Lapsed}
    BY DEF ListStale, BuildsTypeOK, HandlersOK
<1>4. \A b \in Lapsed : b \in Build /\ attempts[b] > 0
    BY DEF Lapsed, Having, Tried
<1> QED BY <1>1, <1>2, <1>3, <1>4

LEMMA TriedStep == BuildsTypeOK /\ Tried /\ [BuildsNext]_buildVars => Tried'
<1> SUFFICES ASSUME BuildsTypeOK, Tried, [BuildsNext]_buildVars PROVE Tried'
    OBVIOUS
<1>0. /\ \A b \in Build : attempts[b] \in Nat
      /\ \A c \in commits : c.of \in Build
      /\ \A t \in Tick : \A row \in stale[t] : row[1] \in Build
    BY DEF BuildsTypeOK, RowsOK, HandlersOK
<1>1. ASSUME NEW r \in BuildRequest, CreateLock(r) \/ Create(r) PROVE Tried'
    <2>1. UNCHANGED <<attempts, call, commits, stale>>
        BY <1>1 DEF CreateLock, Create, CreateInsert, CreateRelease, CreateDies, rows, handlers, tick
    <2>2. \A b \in Build : status'[b] = "active" => status[b] = "active"
        BY <1>1 DEF CreateLock, Create, CreateInsert, CreateRelease, CreateDies, rows,
                    BuildsTypeOK, RowsOK
    <2> QED BY <1>0, <2>1, <2>2, TriedKept
<1>2. ASSUME NEW c \in Build \X BOOLEAN, Complete(c) PROVE Tried'
    <2>1. UNCHANGED <<attempts, commits, stale>>
        BY <1>2 DEF Complete, CompleteLoad, CompleteFinish, CompleteUnlock, CompleteDies, rows, tick
    <2>2. \A b \in Build : status'[b] = "active" => status[b] = "active"
        BY <1>2 DEF Complete, CompleteLoad, CompleteFinish, CompleteUnlock, CompleteDies, Finish,
                    rows, BuildsTypeOK, RowsOK
    <2>3. /\ call[c] # "none"
          /\ To(c, "none") \/ To(c, "finish") \/ To(c, "unlock")
        BY <1>2 DEF Complete, CompleteLoad, CompleteFinish, CompleteUnlock, CompleteDies
    <2>4. \A d \in Build \X BOOLEAN : call'[d] # "none" => call[d] # "none"
        BY <2>3 DEF To, BuildsTypeOK, HandlersOK
    <2> QED BY <1>0, <2>1, <2>2, <2>4, TriedKept
<1>3. ASSUME NEW t \in Tick, CronTick(t) \/ Reconcile(t) PROVE Tried'
    <2>1. UNCHANGED <<attempts, call, commits>>
        BY <1>3 DEF CronTick, Reconcile, Requeue, GiveUp, GiveUpUnlock, EndTick, rows, handlers
    <2>2. \A b \in Build : status'[b] = "active" => status[b] = "active"
        BY <1>3 DEF CronTick, Reconcile, Requeue, Requeued, GiveUp, Finish, GiveUpUnlock, EndTick,
                    rows, BuildsTypeOK, RowsOK
    <2>3. CASE CronTick(t)
        BY <1>0, <2>1, <2>2, <2>3, ListedTried, TriedKept DEF CronTick
    <2>4. CASE Reconcile(t)
        <3>1. \A u \in Tick : stale'[u] \subseteq stale[u]
            BY <2>4 DEF Reconcile, Requeue, GiveUp, GiveUpUnlock, EndTick, BuildsTypeOK, HandlersOK
        <3> QED BY <1>0, <2>1, <2>2, <3>1, TriedKept
    <2> QED BY <1>3, <2>3, <2>4
<1>4. CASE Claim
    <2>1. UNCHANGED <<call, commits, stale>>
        BY <1>4 DEF Claim, handlers, tick
    <2>2. PICK b \in Build : /\ attempts' = [attempts EXCEPT ![b] = attempts[b] + 1]
                             /\ status' = [status EXCEPT ![b] = "active"]
        BY <1>4 DEF Claim, Oldest, Having
    <2>3. \A d \in Build : /\ attempts'[d] = IF d = b THEN attempts[d] + 1 ELSE attempts[d]
                           /\ status'[d] = IF d = b THEN "active" ELSE status[d]
        BY <2>2 DEF BuildsTypeOK, RowsOK
    <2> QED BY <1>0, <2>1, <2>3, TriedKept
<1>5. CASE Runner
    <2>1. UNCHANGED <<attempts, status>>
        BY <1>5 DEF Runner, ClaimNothing, BuildFails, StartDeploy, ReportCompleted, LoseReply,
                    ReportFailed, RunnerTick, rows
    <2>2. CASE RunnerTick
        <3>1. UNCHANGED <<call, commits>>
            BY <2>2 DEF RunnerTick, handlers
        <3> QED BY <1>0, <2>1, <2>2, <3>1, ListedTried, TriedKept DEF RunnerTick
    <2>3. CASE StartDeploy
        <3>1. UNCHANGED <<call, stale>>
            BY <2>3 DEF StartDeploy, tick
        <3>2. \A c \in commits' : c.of \in Build /\ (c \in commits \/ attempts[c.of] > 0)
            <4>1. job # NoJob
                BY <2>3 DEF StartDeploy, BuildsTypeOK, RunnerOK, NoJob, NoBuild, Build
            <4> QED BY <1>0, <2>3, <4>1, AcceptedTried DEF StartDeploy
        <3> QED BY <1>0, <2>1, <3>1, <3>2, TriedKept
    <2>4. CASE ReportCompleted \/ ReportFailed
        <3>1. UNCHANGED <<commits, stale>>
            BY <2>4 DEF ReportCompleted, ReportFailed, tick
        <3>2. ASSUME NEW ok \in BOOLEAN, Send(ok)
              PROVE  \A c \in Build \X BOOLEAN : call'[c] # "none" => call[c] # "none" \/ attempts[c[1]] > 0
            <4>1. job # NoJob
                <5>1. wpc \in {"done", "broken"}
                    BY <2>4 DEF ReportCompleted, ReportFailed
                <5>2. job \in [of : Build, by : Nat \ {0}]
                    BY <5>1 DEF BuildsTypeOK, RunnerOK
                <5>3. job.of # NoBuild
                    BY <5>2, BuildsAssumption DEF Build, NoBuild
                <5> QED BY <5>3 DEF NoJob
            <4>2. attempts[job.of] > 0
                BY <3>2, <4>1, AcceptedTried DEF Send
            <4>3. \A c \in Build \X BOOLEAN : c # <<job.of, ok>> => call'[c] = call[c]
                BY <3>2 DEF Send, BuildsTypeOK, HandlersOK
            <4> QED BY <4>2, <4>3
        <3>3. UNCHANGED call \/ Send(TRUE) \/ Send(FALSE)
            BY <2>4 DEF ReportCompleted, ReportFailed
        <3>4. \A c \in Build \X BOOLEAN : call'[c] # "none" => call[c] # "none" \/ attempts[c[1]] > 0
            BY <3>2, <3>3
        <3> QED BY <1>0, <2>1, <3>1, <3>4, TriedKept
    <2>5. CASE ClaimNothing \/ BuildFails \/ LoseReply
        <3>1. UNCHANGED <<call, commits, stale>>
            BY <2>5 DEF ClaimNothing, BuildFails, LoseReply, handlers, tick
        <3> QED BY <1>0, <2>1, <3>1, TriedKept
    <2> QED BY <1>5, <2>2, <2>3, <2>4, <2>5 DEF Runner
<1>6. CASE \/ \E c \in commits : EndCommit(c)
           \/ Heartbeat \/ MachineStarts \/ MachineDies \/ LockExpires
           \/ \E d \in Build : LeaseExpires(d) \/ TokenExpires(d)
           \/ UNCHANGED buildVars
    <2>1. UNCHANGED <<attempts, status, call, stale>> /\ commits' \subseteq commits
        BY <1>6 DEF EndCommit, Heartbeat, MachineStarts, MachineDies, LockExpires, LeaseExpires,
                    TokenExpires, buildVars, rows, handlers, tick
    <2> QED BY <1>0, <2>1, TriedKept
<1> QED BY <1>1, <1>2, <1>3, <1>4, <1>5, <1>6 DEF BuildsNext

(* One row changes its status in a step of BuildQueue; the rest is a frame. *)
LEMMA QueueStep ==
    ASSUME IInv, Live, Tried, [BuildsNext]_buildVars
    PROVE  [Queue!Next]_(Queue!vars)
<1> DEFINE Stutter == UNCHANGED <<status, attempts, dep>>
<1>0. /\ status \in [Build -> {"absent", "queued", "active"} \cup Terminal]
      /\ attempts \in [Build -> Nat]
      /\ dep \in [Build -> {"none", "row", "live"}]
      /\ commits \subseteq [of : Build, by : Nat \ {0}]
      /\ \A t \in Tick : stale[t] \subseteq Build \X Nat
    BY DEF IInv, BuildsTypeOK, RowsOK, HandlersOK
<1>1. ASSUME NEW b \in Build, MayFinish(b), attempts[b] > 0, Finish(b, "failed"),
             UNCHANGED <<attempts, dep>>
      PROVE  Queue!Next
    <2>1. Queue!Fail(b)
        BY <1>1 DEF Queue!Fail, Queue!Unfinished, Queue!Becomes, Finish, MayFinish
    <2> QED BY <2>1 DEF Queue!Next
<1>2. ASSUME NEW b \in Build, Finish(b, "failed") \/ Finish(b, "completed"), ~MayFinish(b)
      PROVE  status' = status
    BY <1>0, <1>2 DEF Finish
<1>3. ASSUME NEW r \in BuildRequest, CreateLock(r) \/ Create(r)
      PROVE  Stutter \/ Queue!Next
    <2>1. CASE CreateInsert(r) /\ status' # status
        <3>1. PICK b \in Oldest("absent") : status' = [status EXCEPT ![b] = "queued"]
            BY <2>1 DEF CreateInsert
        <3>2. b \in Build /\ Queue!Submit(b)
            BY <2>1, <3>1 DEF CreateInsert, Oldest, Having, Queue!Submit, Queue!First, Queue!Becomes
        <3> QED BY <3>2 DEF Queue!Next
    <2> QED BY <1>3, <2>1 DEF CreateLock, Create, CreateInsert, CreateRelease, CreateDies, rows
<1>4. ASSUME NEW c \in Build \X BOOLEAN, Complete(c)
      PROVE  Stutter \/ Queue!Next
    <2>1. CASE CompleteFinish(c)
        <3>0. PICK b \in Build, ok \in BOOLEAN : c = <<b, ok>>
            OBVIOUS
        <3>1. /\ call[c] # "none" /\ UNCHANGED <<attempts, dep>>
              /\ Finish(b, IF ok THEN "completed" ELSE "failed")
            BY <2>1, <3>0 DEF CompleteFinish
        <3>2. attempts[b] > 0
            BY <3>0, <3>1 DEF Tried
        <3>3. CASE MayFinish(b) /\ ok = TRUE
            <4>1. dep[b] = "live"
                BY <3>0, <3>1, <3>3 DEF Live, ReportsLive
            <4>2. Queue!Complete(b)
                BY <3>1, <3>3, <4>1
                DEF Queue!Complete, Queue!Unfinished, Queue!Becomes, Finish, MayFinish
            <4> QED BY <4>2 DEF Queue!Next
        <3>4. CASE MayFinish(b) /\ ok = FALSE
            BY <1>1, <3>1, <3>2, <3>4
        <3> QED BY <1>2, <3>1, <3>3, <3>4
    <2> QED BY <1>4, <2>1 DEF Complete, CompleteLoad, CompleteUnlock, CompleteDies, rows
<1>5. ASSUME NEW t \in Tick, CronTick(t) \/ Reconcile(t)
      PROVE  Stutter \/ Queue!Next
    <2>1. CASE Requeue(t)
        <3>1. PICK row \in stale[t] :
                  IF status[row[1]] = "active" THEN Requeued(row[1])
                                               ELSE UNCHANGED <<status, token, lease>>
            BY <2>1 DEF Requeue
        <3>2. PICK b \in Build : b = row[1]
            BY <1>0
        <3>3. CASE status[b] = "active"
            <4>1. Queue!Retry(b)
                BY <2>1, <3>1, <3>2, <3>3 DEF Queue!Retry, Queue!Becomes, Requeue, Requeued
            <4> QED BY <4>1 DEF Queue!Next
        <3> QED BY <2>1, <3>1, <3>2, <3>3 DEF Requeue
    <2>2. CASE GiveUp(t)
        <3>1. PICK row \in stale[t] : Finish(row[1], "failed")
            BY <2>2 DEF GiveUp
        <3>2. PICK b \in Build : b = row[1]
            BY <1>0
        <3>3. attempts[b] > 0 /\ UNCHANGED <<attempts, dep>>
            BY <2>2, <3>2 DEF Tried, GiveUp
        <3> QED BY <1>1, <1>2, <3>1, <3>2, <3>3
    <2> QED BY <1>5, <2>1, <2>2 DEF CronTick, Reconcile, GiveUpUnlock, EndTick, rows
<1>6. CASE Claim
    <2>1. PICK b \in Oldest("queued") :
              /\ status' = [status EXCEPT ![b] = "active"]
              /\ attempts' = [attempts EXCEPT ![b] = attempts[b] + 1]
        BY <1>6 DEF Claim
    <2>2. b \in Build /\ Queue!First(b, "queued")
        BY <2>1 DEF Oldest, Having, Queue!First
    <2>3. attempts[b] < Limit
        <3>1. Cardinality(Holders(b)) \in Nat /\ Cardinality(Tick) \in Nat
            BY Fewer DEF Holders
        <3>2. Spent(b) <= MaxAttempts + Cardinality(Tick) - 2
            BY <2>1, <2>2 DEF IInv, Budget, Oldest
        <3> QED BY <1>0, <2>2, <3>1, <3>2, BuildsAssumption DEF Spent, Limit
    <2>4. Queue!Claim(b)
        BY <1>0, <1>6, <2>1, <2>2, <2>3 DEF Queue!Claim, Queue!Becomes, Claim
    <2> QED BY <2>2, <2>4 DEF Queue!Next
<1>7. ASSUME NEW c \in commits, EndCommit(c)
      PROVE  UNCHANGED Queue!vars \/ Queue!Next
    <2>1. PICK b \in Build, d \in {"none", "row", "live"} :
              b = c.of /\ dep' = [dep EXCEPT ![b] = IF dep[b] = "none" THEN d ELSE dep[b]]
        BY <1>0, <1>7 DEF EndCommit
    <2>2. attempts[b] > 0 /\ UNCHANGED <<status, attempts>>
        BY <1>7, <2>1 DEF Tried, EndCommit
    <2>3. \A o \in Build : dep'[o] = IF o = b /\ dep[b] = "none" THEN d ELSE dep[o]
        BY <1>0, <2>1
    <2>4. CASE dep[b] = "none" /\ d = "live"
        <3>1. {o \in Build : dep'[o] = "live"} = {o \in Build : dep[o] = "live"} \cup {b}
            BY <2>3, <2>4
        <3>2. Queue!GoLive(b)
            BY <2>2, <3>1 DEF Queue!GoLive
        <3> QED BY <3>2 DEF Queue!Next
    <2>5. CASE ~(dep[b] = "none" /\ d = "live")
        <3>1. {o \in Build : dep'[o] = "live"} = {o \in Build : dep[o] = "live"}
            BY <2>3, <2>5
        <3> QED BY <2>2, <3>1 DEF Queue!vars
    <2> QED BY <2>4, <2>5
<1>8. ASSUME \/ Runner \/ Heartbeat \/ MachineStarts \/ MachineDies \/ LockExpires
             \/ \E b \in Build : LeaseExpires(b) \/ TokenExpires(b)
             \/ UNCHANGED buildVars
      PROVE  Stutter
    BY <1>8 DEF Runner, ClaimNothing, BuildFails, StartDeploy, ReportCompleted, LoseReply,
                ReportFailed, RunnerTick, Heartbeat, MachineStarts, MachineDies, LockExpires,
                LeaseExpires, TokenExpires, buildVars, rows
<1>9. CASE Stutter
    BY <1>9 DEF Queue!vars
<1> QED BY <1>3, <1>4, <1>5, <1>6, <1>7, <1>8, <1>9 DEF BuildsNext

(* The promise holds: builds are claimed in order, at most Limit times, and  *)
(* each ends once, whatever reports and sweeps arrive late.                 *)
THEOREM BuildQueueRefined == BuildsSpec => ImplementsBuildQueue
<1>1. BuildsInit => IInv /\ Live /\ Tried /\ Queue!Init
    <2>1. BuildsInit => Live
        BY DEF BuildsInit, Live, ReportsLive, CompletedIsLive
    <2>2. BuildsInit => Tried
        BY DEF BuildsInit, Tried
    <2>3. BuildsInit => Queue!Init
        BY DEF BuildsInit, Queue!Init
    <2> QED BY <2>1, <2>2, <2>3, TypeInit, BudgetInit DEF IInv
<1>2. IInv /\ Live /\ Tried /\ [BuildsNext]_buildVars => (IInv /\ Live /\ Tried)'
    BY TypeStep, BudgetStep, LiveStep, TriedStep DEF IInv
<1> QED BY <1>1, <1>2, QueueStep, PTL DEF BuildsSpec, ImplementsBuildQueue, Queue!Spec
=============================================================================
