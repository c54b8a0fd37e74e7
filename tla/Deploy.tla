-------------------------------- MODULE Deploy --------------------------------
(***************************************************************************)
(* Deploy, rollback and soft delete of ONE page by the console API.        *)
(*                                                                         *)
(* Every request handler (prepareDeploy, commitDeploy with                 *)
(* commitBlobTreeDeploy, rollbackToDeployment, deletePage) is a process    *)
(* that stops at each await.  The processes share PostgreSQL (deployment   *)
(* rows, idempotency rows, pages.deleted_at) and Redis (the page lock, the *)
(* deploy tokens, the active-deployment pointer).  A process may throw or  *)
(* be killed between any two of its steps.                                 *)
(*                                                                         *)
(* A deployment row is named by its version: UNIQUE(page_id, version)      *)
(* makes the version a name of the row, and no row is deleted here (the    *)
(* cleanup worker deletes rows: module Cleanup).                            *)
(***************************************************************************)
EXTENDS Integers, FiniteSets, FiniteSetsExt

CONSTANTS
    Proc,       \* request handlers that may run at the same time
    Key,        \* idempotency keys; the key is also the deploy token
    NoKey,      \* no key of this page; owner of a row that does not exist
    AnyKey,     \* may a commit name another idempotency key than its token?
    MaxVersion, \* bound: number of deployment rows
    Lapse,      \* may the lock's TTL run out under a holder whose handler still runs?
    Dup,        \* may two running requests use the same lock holder name?
    Handlers,   \* the handlers that receive requests
    MaxLate     \* bound: heartbeats that outlive their handler at a time

ASSUME BoundAssumption == MaxVersion \in Nat \ {0}
ASSUME KeyAssumption == NoKey \notin Key
ASSUME HandlersAssumption ==
    Handlers \subseteq {"prepare", "commit", "rollback", "delete"}
ASSUME ModeAssumption ==
    Lapse \in BOOLEAN /\ Dup \in BOOLEAN /\ AnyKey \in BOOLEAN

Version == 1 .. MaxVersion
NoVersion == 0
NoToken == -1

(* Lock holders: the token of a deploy, "rollback:{id}", the delete fence. *)
Free == [op |-> "free", of |-> NoVersion]
Deploying(k) == [op |-> "deploy", of |-> k]
RollingBack(v) == [op |-> "rollback", of |-> v]
DeletedFence == [op |-> "deleted", of |-> NoVersion]
Holder == [op : {"deploy"}, of : Key] \cup [op : {"rollback"}, of : Version]
              \cup {DeletedFence}

VARIABLES
    (* PostgreSQL: table deployments *)
    status,     \* status column, "absent" before the INSERT
    active,     \* rows with is_active = true
    treed,      \* rows that have blob_tree_entries
    manifests,  \* rows whose manifest object and metadata are stored
    (* PostgreSQL: tables idempotency_keys and pages *)
    idem,       \* status of the key
    result,     \* resource_id of the key
    page,       \* "live", or "deleted" once pages.deleted_at is set
    (* Redis *)
    lock,       \* deploy:lock:{pageId}
    token,      \* deploy:token:{k}: the payload's baseVersion, or NoToken
    pointer,    \* site:{siteId}:active
    (* the request handlers *)
    pc, hold, ver, base, cur, fresh,
    late,       \* heartbeats still on their way after their handler has ended
    (* history of the rows; only the commit that named a key reads it again *)
    owner,      \* the key that the commit which inserted the row names
    wentLive    \* rows whose activation transaction has ever committed

depVars == <<status, active, treed, manifests, owner, wentLive>>
keyVars == <<idem, result>>
redisVars == <<lock, token, pointer>>
locals == <<hold, ver, base, cur, fresh>>
vars == <<depVars, keyVars, page, redisVars, pc, locals, late>>

RowStatus == {"absent", "pending", "active", "superseded"}

(* Steps between acquiring the lock in withLock and its finally block. *)
CommitSteps == {"stale", "version", "insert", "tree", "manifest", "newer",
                "assert", "fence", "find", "apply", "publish", "complete",
                "consume"}
RollbackSteps == {"r_manifest", "assert", "find", "apply", "publish"}
Locked == CommitSteps \cup RollbackSteps \cup {"release"}
PrepareSteps == {"p_base", "p_reserve", "p_lookup", "p_lock", "p_token",
                 "p_fail"}
Step == Locked \cup PrepareSteps \cup
            {"idle", "c_acquire", "r_acquire", "d_mark", "d_fence", "d_clear"}

TypeOK ==
    /\ status \in [Version -> RowStatus]
    /\ active \subseteq Version
    /\ treed \subseteq Version
    /\ manifests \subseteq Version
    /\ owner \in [Version -> Key \cup {NoKey}]
    /\ wentLive \subseteq Version
    /\ idem \in [Key -> {"absent", "in_progress", "completed", "failed"}]
    /\ result \in [Key -> Version \cup {NoVersion}]
    /\ page \in {"live", "deleted"}
    /\ lock \in Holder \cup {Free}
    /\ token \in [Key -> Version \cup {NoVersion, NoToken}]
    /\ pointer \in Version \cup {NoVersion}
    /\ pc \in [Proc -> Step]
    /\ hold \in [Proc -> Holder \cup {Free}]
    /\ ver \in [Proc -> Version \cup {NoVersion}]
    /\ base \in [Proc -> Version \cup {NoVersion, NoToken}]
    /\ cur \in [Proc -> Version \cup {NoVersion}]
    /\ fresh \subseteq Proc
    /\ late \subseteq Holder

Init ==
    /\ status = [v \in Version |-> "absent"]
    /\ active = {} /\ treed = {} /\ manifests = {}
    /\ owner = [v \in Version |-> NoKey]
    /\ wentLive = {}
    /\ idem = [k \in Key |-> "absent"]
    /\ result = [k \in Key |-> NoVersion]
    /\ page = "live"
    /\ lock = Free
    /\ token = [k \in Key |-> NoToken]
    /\ pointer = NoVersion
    /\ pc = [p \in Proc |-> "idle"]
    /\ hold = [p \in Proc |-> Free]
    /\ ver = [p \in Proc |-> NoVersion]
    /\ base = [p \in Proc |-> NoToken]
    /\ cur = [p \in Proc |-> NoVersion]
    /\ fresh = {}
    /\ late = {}

-----------------------------------------------------------------------------
(* Helpers *)

Rows == {v \in Version : status[v] # "absent"}

(* currentMaxVersion: coalesce(max(version), 0) *)
Latest == Max(Rows \cup {NoVersion})

(* Mutation of CanTake: SET without NX. *)
CanTakeAnyway(h) == h # Free
(* ACQUIRE_LOCK_LUA: take a free lock, refresh one's own, else fail. *)
CanTake(h) == lock \in {Free, h}
Taken(h) == IF CanTake(h) THEN h ELSE lock
(* RELEASE_LOCK_LUA: delete the key only if this holder owns it. *)
Released(h) == IF lock = h THEN Free ELSE lock

Goto(p, s) == pc' = [pc EXCEPT ![p] = s]

(* The handler ends; its local state is gone. *)
End(p) ==
    /\ Goto(p, "idle")
    /\ hold' = [hold EXCEPT ![p] = Free]
    /\ ver' = [ver EXCEPT ![p] = NoVersion]
    /\ base' = [base EXCEPT ![p] = NoToken]
    /\ cur' = [cur EXCEPT ![p] = NoVersion]
    /\ fresh' = fresh \ {p}

Return(p) == End(p) /\ UNCHANGED late

(* setInterval of withLock sends acquires; clearInterval does not recall   *)
(* one that is on its way when the handler leaves or is killed.            *)
LeaveLock(p) ==
    /\ End(p)
    /\ \/ UNCHANGED late
       \/ Cardinality(late) < MaxLate /\ late' = late \cup {hold[p]}

(* A new request that will use lock holder h. *)
Begin(p, h, s) ==
    /\ pc[p] = "idle"
    /\ Dup \/ \A q \in Proc : hold[q] # h
    /\ Goto(p, s)
    /\ hold' = [hold EXCEPT ![p] = h]
    /\ UNCHANGED <<ver, base, cur, fresh, late>>

-----------------------------------------------------------------------------
(* prepareDeploy *)

PrepareStart(p, k) ==
    /\ page = "live"
    /\ Begin(p, Deploying(k), "p_base")
    /\ UNCHANGED <<depVars, keyVars, page, redisVars>>

PrepareBase(p) ==
    /\ pc[p] = "p_base"
    /\ base' = [base EXCEPT ![p] = Latest]
    /\ Goto(p, "p_reserve")
    /\ UNCHANGED <<depVars, keyVars, page, redisVars, hold, ver, cur, fresh, late>>

(* checkAndReserveIdempotencyKey: INSERT .. ON CONFLICT DO NOTHING, or the  *)
(* conditional UPDATE of a failed row; one row-level write decides.         *)
PrepareReserve(p) ==
    LET k == hold[p].of IN
    /\ pc[p] = "p_reserve"
    /\ idem[k] \in {"absent", "failed"}
    /\ idem' = [idem EXCEPT ![k] = "in_progress"]
    /\ result' = [result EXCEPT ![k] = NoVersion]
    /\ fresh' = fresh \cup {p}
    /\ Goto(p, "p_lock")
    /\ UNCHANGED <<depVars, page, redisVars, hold, ver, base, cur, late>>

(* The key is completed and its deployment is still there.  (Otherwise the *)
(* code goes on as for a key in progress.  No row of this module goes away, *)
(* so a key that names none would be needed for that.)                      *)
Replayed(k) == idem[k] = "completed" /\ result[k] \in Rows

PrepareSeenBefore(p) ==
    /\ pc[p] = "p_reserve"
    /\ idem[hold[p].of] \in {"in_progress", "completed"}
    /\ ~Replayed(hold[p].of)
    /\ Goto(p, "p_lookup")
    /\ UNCHANGED <<depVars, keyVars, page, redisVars, locals, late>>

PrepareAlreadyCompleted(p) ==
    /\ pc[p] = "p_reserve"
    /\ Replayed(hold[p].of)
    /\ Return(p)
    /\ UNCHANGED <<depVars, keyVars, page, redisVars>>

(* The key is in progress: hand out its token if Redis still has it. *)
PrepareLookup(p) ==
    /\ pc[p] = "p_lookup"
    /\ \/ token[hold[p].of] # NoToken /\ Return(p)
       \/ token[hold[p].of] = NoToken /\ Goto(p, "p_lock")
                                      /\ UNCHANGED <<locals, late>>
    /\ UNCHANGED <<depVars, keyVars, page, redisVars>>

PrepareLock(p) ==
    /\ pc[p] = "p_lock"
    /\ CanTake(hold[p])
    /\ lock' = Taken(hold[p])
    /\ Goto(p, "p_token")
    /\ UNCHANGED <<depVars, keyVars, page, token, pointer, locals, late>>

PrepareRefused(p) ==
    /\ pc[p] = "p_lock"
    /\ ~CanTake(hold[p])
    /\ IF p \in fresh THEN Goto(p, "p_fail") /\ UNCHANGED <<locals, late>>
                      ELSE Return(p)
    /\ UNCHANGED <<depVars, keyVars, page, redisVars>>

PrepareToken(p) ==
    /\ pc[p] = "p_token"
    /\ token' = [token EXCEPT ![hold[p].of] = base[p]]
    /\ Return(p)
    /\ UNCHANGED <<depVars, keyVars, page, lock, pointer>>

(* redis.set of the token fails: the lock is given back. *)
PrepareTokenError(p) ==
    /\ pc[p] = "p_token"
    /\ lock' = Released(hold[p])
    /\ IF p \in fresh THEN Goto(p, "p_fail") /\ UNCHANGED <<locals, late>>
                      ELSE Return(p)
    /\ UNCHANGED <<depVars, keyVars, page, token, pointer>>

(* failIdempotencyKey: only a key that is still in progress. *)
PrepareFailKey(p) ==
    LET k == hold[p].of IN
    /\ pc[p] = "p_fail"
    /\ idem' = [idem EXCEPT ![k] = IF @ = "in_progress" THEN "failed" ELSE @]
    /\ Return(p)
    /\ UNCHANGED <<depVars, result, page, redisVars>>

-----------------------------------------------------------------------------
(* commitDeploy and commitBlobTreeDeploy *)

(* loadDeployToken: the payload, with its baseVersion, is read once. *)
CommitLoad(p, k) ==
    /\ pc[p] = "idle"
    /\ token[k] # NoToken
    /\ Dup \/ \A q \in Proc : hold[q] # Deploying(k)
    /\ Goto(p, "c_acquire")
    /\ hold' = [hold EXCEPT ![p] = Deploying(k)]
    /\ base' = [base EXCEPT ![p] = token[k]]
    /\ UNCHANGED <<depVars, keyVars, page, redisVars, ver, cur, fresh, late>>

(* withLock: acquire or answer 409. *)
Enter(p, from, to) ==
    /\ pc[p] = from
    /\ \/ CanTake(hold[p]) /\ lock' = Taken(hold[p])
                           /\ Goto(p, to) /\ UNCHANGED <<locals, late>>
       \/ ~CanTake(hold[p]) /\ UNCHANGED lock /\ Return(p)
    /\ UNCHANGED <<depVars, keyVars, page, token, pointer>>

CommitAcquire(p) == Enter(p, "c_acquire", "stale")

(* Mutation of Stale: no check of baseVersion. *)
StaleUnchecked(p) == base[p] > MaxVersion
(* Refuse the commit when a row newer than the token's baseVersion exists. *)
Stale(p) == Latest > base[p]
CommitCheckBase(p) ==
    /\ pc[p] = "stale"
    /\ Goto(p, IF Stale(p) THEN "release" ELSE "version")
    /\ base' = [base EXCEPT ![p] = NoToken]
    /\ UNCHANGED <<depVars, keyVars, page, redisVars, hold, ver, cur, fresh, late>>

(* nextVersion is a second query.  At the bound the commit gives up. *)
CommitVersion(p) ==
    /\ pc[p] = "version"
    /\ IF Latest < MaxVersion
       THEN ver' = [ver EXCEPT ![p] = Latest + 1] /\ Goto(p, "insert")
       ELSE UNCHANGED ver /\ Goto(p, "release")
    /\ UNCHANGED <<depVars, keyVars, page, redisVars, hold, base, cur, fresh, late>>

(* Mutation of RowFree: no UNIQUE(page_id, version). *)
RowAnyhow(v) == v \in Version
(* UNIQUE(page_id, version) refuses the second of two equal versions. *)
RowFree(v) == status[v] = "absent"
(* The idempotency key of a commit: the token, unless the request brings   *)
(* another one, which need not exist.  Nothing reads it before the key is  *)
(* completed, so it is chosen here.                                        *)
KeyNamedBy(p) == IF AnyKey THEN Key \cup {NoKey} ELSE {hold[p].of}
CommitInsert(p) ==
    /\ pc[p] = "insert"
    /\ IF RowFree(ver[p])
       THEN /\ status' = [status EXCEPT ![ver[p]] = "pending"]
            /\ \E k \in KeyNamedBy(p) : owner' = [owner EXCEPT ![ver[p]] = k]
            /\ Goto(p, "tree")
       ELSE UNCHANGED <<status, owner>> /\ Goto(p, "release")
    /\ UNCHANGED <<active, treed, manifests, wentLive, keyVars, page, redisVars,
                    locals, late>>

CommitTree(p) ==
    /\ pc[p] = "tree"
    /\ treed' = treed \cup {ver[p]}
    /\ Goto(p, "manifest")
    /\ UNCHANGED <<status, active, manifests, owner, wentLive, keyVars, page,
                    redisVars, locals, late>>

(* generateAndPersistManifest: returns the stored manifest, or builds and  *)
(* stores it; either way the row has one afterwards.                       *)
PersistManifest(p, from, to) ==
    /\ pc[p] = from
    /\ manifests' = manifests \cup {ver[p]}
    /\ Goto(p, to)
    /\ UNCHANGED <<status, active, treed, owner, wentLive, keyVars, page, redisVars,
                    locals, late>>

CommitManifest(p) == PersistManifest(p, "manifest", "newer")

(* A row that a newer one has overtaken is "superseded" without ever having *)
(* been active; what follows is step out.                                   *)
YieldToNewer(p, out) ==
    /\ pc[p] = "newer"
    /\ IF \E v \in Rows : v > ver[p]
       THEN status' = [status EXCEPT ![ver[p]] = "superseded"] /\ Goto(p, out)
       ELSE UNCHANGED status /\ Goto(p, "assert")
    /\ UNCHANGED <<active, treed, manifests, owner, wentLive, keyVars, page, redisVars,
                    locals, late>>
(* Mutation of CommitNewer: returns the superseded row instead of a 409. *)
CommitNewerReturns(p) == YieldToNewer(p, "complete")
(* Mutation of CommitNewer: goes on as if the row were live. *)
CommitNewerPublishes(p) == YieldToNewer(p, "publish")
CommitNewer(p) == YieldToNewer(p, "release")

(* assertHeld; a commit then reads the delete fence, a rollback does not. *)
AfterAssert(p) ==
    IF lock # hold[p] THEN "release"
    ELSE IF hold[p].op = "deploy" THEN "fence" ELSE "find"
AssertHeld(p) ==
    /\ pc[p] = "assert"
    /\ Goto(p, AfterAssert(p))
    /\ UNCHANGED <<depVars, keyVars, page, redisVars, locals, late>>

(* The activation transaction runs at READ COMMITTED: each SELECT sees what *)
(* is committed when it runs, and locks nothing.                            *)
ReadFence(p) ==
    /\ pc[p] = "fence"
    /\ Goto(p, IF page = "deleted" THEN "release" ELSE "find")
    /\ UNCHANGED <<depVars, keyVars, page, redisVars, locals, late>>

(* Mutation of FindActive: the deactivation commits on its own. *)
FindAndDeactivate(p) ==
    /\ pc[p] = "find"
    /\ cur' = [cur EXCEPT ![p] = NoVersion]
    /\ active' = active \cap {ver[p]}
    /\ Goto(p, "apply")
    /\ UNCHANGED <<status, treed, manifests, owner, wentLive, keyVars, page, redisVars,
                    hold, ver, base, fresh, late>>
FindActive(p) ==
    /\ pc[p] = "find"
    /\ \/ \E v \in active : cur' = [cur EXCEPT ![p] = v]
       \/ active = {} /\ cur' = [cur EXCEPT ![p] = NoVersion]
    /\ Goto(p, "apply")
    /\ UNCHANGED <<depVars, keyVars, page, redisVars, hold, ver, base, fresh, late>>

(* The row that the transaction read as active, unless it is the target. *)
Demoted(p) == {cur[p]} \cap (Version \ {ver[p]})
(* Mutation of IndexAllows: no partial unique index. *)
NoIndex(p) == ver[p] \in Version
(* deployments_page_id_is_active_uid: no third row may be active. *)
IndexAllows(p) == active \ Demoted(p) \subseteq {ver[p]}
(* Mutation of StatusAfter: the old row keeps its status. *)
StatusAfterOnly(p) == [status EXCEPT ![ver[p]] = "active"]
StatusAfter(p) ==
    [v \in Version |-> IF v = ver[p] THEN "active"
                       ELSE IF v \in Demoted(p) THEN "superseded"
                       ELSE status[v]]

(* The two UPDATEs and COMMIT.  If another row became active since the      *)
(* SELECT, the unique index aborts the transaction.                         *)
Activate(p) ==
    /\ pc[p] = "apply"
    /\ IF IndexAllows(p)
       THEN /\ active' = (active \ Demoted(p)) \cup {ver[p]}
            /\ status' = StatusAfter(p)
            /\ wentLive' = wentLive \cup {ver[p]}
            /\ Goto(p, "publish")
       ELSE UNCHANGED <<active, status, wentLive>> /\ Goto(p, "release")
    /\ cur' = [cur EXCEPT ![p] = NoVersion]
    /\ UNCHANGED <<treed, manifests, owner, keyVars, page, redisVars,
                    hold, ver, base, fresh, late>>

(* Mutation of Pointed: the wrong local variable. *)
PointedAtBase(p) == base[p]
(* Best-effort write of the Redis pointer, after the database commit. *)
Pointed(p) == ver[p]
Publish(p) ==
    /\ pc[p] = "publish"
    /\ pointer' \in {Pointed(p), pointer}
    /\ Goto(p, IF hold[p].op = "deploy" THEN "complete" ELSE "release")
    /\ UNCHANGED <<depVars, keyVars, page, lock, token, locals, late>>

(* completeIdempotencyKey: an UPDATE of the named key's row, if there is   *)
(* one, with no condition on its status.                                   *)
CommitComplete(p) ==
    LET k == owner[ver[p]] IN
    /\ pc[p] = "complete"
    /\ IF k \in Key /\ idem[k] # "absent"
       THEN /\ idem' = [idem EXCEPT ![k] = "completed"]
            /\ result' = [result EXCEPT ![k] = ver[p]]
       ELSE UNCHANGED keyVars
    /\ Goto(p, "consume")
    /\ UNCHANGED <<depVars, page, redisVars, locals, late>>

CommitConsume(p) ==
    /\ pc[p] = "consume"
    /\ token' = [token EXCEPT ![hold[p].of] = NoToken]
    /\ Goto(p, "release")
    /\ UNCHANGED <<depVars, keyVars, page, lock, pointer, locals, late>>

(* The finally block of withLock; an error of the release is only logged. *)
Release(p) ==
    /\ pc[p] = "release"
    /\ lock' \in {Released(hold[p]), lock}
    /\ LeaveLock(p)
    /\ UNCHANGED <<depVars, keyVars, page, token, pointer>>

-----------------------------------------------------------------------------
(* rollbackToDeployment: any row of the page that has a blob tree.  The row *)
(* is read before the lock is taken, and no status is "failed" here.        *)

(* Mutation of HasTree: any row will do. *)
HasRow(v) == v \in Rows
HasTree(v) == v \in treed
RollbackStart(p, v) ==
    /\ pc[p] = "idle"
    /\ HasTree(v)
    /\ Dup \/ \A q \in Proc : hold[q] # RollingBack(v)
    /\ Goto(p, "r_acquire")
    /\ hold' = [hold EXCEPT ![p] = RollingBack(v)]
    /\ ver' = [ver EXCEPT ![p] = v]
    /\ UNCHANGED <<depVars, keyVars, page, redisVars, base, cur, fresh, late>>

RollbackAcquire(p) == Enter(p, "r_acquire", "r_manifest")
RollbackManifest(p) == PersistManifest(p, "r_manifest", "assert")

-----------------------------------------------------------------------------
(* deletePage *)

DeleteStart(p) ==
    /\ page = "live"
    /\ Begin(p, DeletedFence, "d_mark")
    /\ UNCHANGED <<depVars, keyVars, page, redisVars>>

DeleteMark(p) ==
    /\ pc[p] = "d_mark"
    /\ page' = "deleted"
    /\ Goto(p, "d_fence")
    /\ UNCHANGED <<depVars, keyVars, redisVars, locals, late>>

(* The fence is taken only if the lock is free; errors are only logged. *)
DeleteFence(p) ==
    /\ pc[p] = "d_fence"
    /\ lock' \in {Taken(DeletedFence), lock}
    /\ Goto(p, "d_clear")
    /\ UNCHANGED <<depVars, keyVars, page, token, pointer, locals, late>>

DeleteClear(p) ==
    /\ pc[p] = "d_clear"
    /\ pointer' \in {NoVersion, pointer}
    /\ Return(p)
    /\ UNCHANGED <<depVars, keyVars, page, lock, token>>

-----------------------------------------------------------------------------
(* Failures, time-outs and the heartbeat *)

(* An error thrown inside withLock runs its finally block.  Publishing is  *)
(* best effort and never throws.                                           *)
Throw(p) ==
    /\ pc[p] \in Locked \ {"publish", "release"}
    /\ Goto(p, "release")
    /\ UNCHANGED <<depVars, keyVars, page, redisVars, locals, late>>

(* The isolate is killed, or a handler throws outside withLock. *)
Crash(p) ==
    /\ pc[p] # "idle"
    /\ IF pc[p] \in Locked THEN LeaveLock(p) ELSE Return(p)
    /\ UNCHANGED <<depVars, keyVars, page, redisVars>>

(* The heartbeat of a running handler: it renews its own lock, and takes   *)
(* one that is free again.                                                 *)
Beat(p) ==
    /\ pc[p] \in Locked \ {"release"}
    /\ lock' = Taken(hold[p])
    /\ UNCHANGED <<depVars, keyVars, page, token, pointer, pc, locals, late>>

LateBeat(h) ==
    /\ h \in late
    /\ lock' = Taken(h)
    /\ late' = late \ {h}
    /\ UNCHANGED <<depVars, keyVars, page, token, pointer, pc, locals>>

(* Mutation of MayExpire: withLock has no heartbeat. *)
ExpiresUnrenewed == lock # Free
(* Redis drops a key at its TTL.  A running heartbeat renews the lock long *)
(* before that, unless Lapse lets renewals fail.                           *)
MayExpire == lock # Free /\ (Lapse \/ \A p \in Proc : pc[p] \in Locked => hold[p] # lock)
(* Mutation of LockExpires: a lock that is not a deploy's has no TTL. *)
DeployLockExpires ==
    /\ MayExpire /\ lock.op = "deploy"
    /\ lock' = Free
    /\ UNCHANGED <<depVars, keyVars, page, token, pointer, pc, locals, late>>
LockExpires ==
    /\ MayExpire
    /\ lock' = Free
    /\ UNCHANGED <<depVars, keyVars, page, token, pointer, pc, locals, late>>

TokenExpires(k) ==
    /\ token[k] # NoToken
    /\ token' = [token EXCEPT ![k] = NoToken]
    /\ UNCHANGED <<depVars, keyVars, page, lock, pointer, pc, locals, late>>

PointerExpires ==
    /\ pointer # NoVersion
    /\ pointer' = NoVersion
    /\ UNCHANGED <<depVars, keyVars, page, lock, token, pc, locals, late>>

-----------------------------------------------------------------------------
Prepare(p) ==
    \/ PrepareBase(p) \/ PrepareReserve(p) \/ PrepareSeenBefore(p)
    \/ PrepareAlreadyCompleted(p) \/ PrepareLookup(p) \/ PrepareLock(p)
    \/ PrepareRefused(p) \/ PrepareToken(p) \/ PrepareTokenError(p)
    \/ PrepareFailKey(p)

Commit(p) ==
    \/ CommitAcquire(p) \/ CommitCheckBase(p) \/ CommitVersion(p)
    \/ CommitInsert(p) \/ CommitTree(p) \/ CommitManifest(p)
    \/ CommitNewer(p) \/ ReadFence(p) \/ CommitComplete(p) \/ CommitConsume(p)

Shared(p) ==
    \/ AssertHeld(p) \/ FindActive(p) \/ Activate(p) \/ Publish(p) \/ Release(p)

Rollback(p) == RollbackAcquire(p) \/ RollbackManifest(p)

Delete(p) == DeleteMark(p) \/ DeleteFence(p) \/ DeleteClear(p)

(* A running handler takes its next step, fails, or is killed. *)
Run(p) ==
    Prepare(p) \/ Commit(p) \/ Shared(p) \/ Rollback(p) \/ Delete(p)
        \/ Throw(p) \/ Crash(p)

Arrive(p) ==
    \/ "prepare" \in Handlers /\ \E k \in Key : PrepareStart(p, k)
    \/ "commit" \in Handlers /\ \E k \in Key : CommitLoad(p, k)
    \/ "rollback" \in Handlers /\ \E v \in Version : RollbackStart(p, v)
    \/ "delete" \in Handlers /\ DeleteStart(p)

Next ==
    \/ \E p \in Proc : Arrive(p) \/ Run(p) \/ Beat(p)
    \/ \E h \in late : LateBeat(h)
    \/ LockExpires
    \/ \E k \in Key : TokenExpires(k)
    \/ PointerExpires

Spec == Init /\ [][Next]_vars

(* Fairness: a handler's awaits settle or its isolate is killed at          *)
(* maxDuration, a sent Redis command is executed, and Redis expires keys.   *)
FairSpec ==
    /\ Spec
    /\ \A p \in Proc : WF_vars(Run(p))
    /\ \A h \in Holder : WF_vars(LateBeat(h))
    /\ WF_vars(LockExpires)
=============================================================================
