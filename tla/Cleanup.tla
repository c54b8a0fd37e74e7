------------------------------- MODULE Cleanup -------------------------------
(***************************************************************************)
(* The cleanup worker and the storage it shares with the console.          *)
(*                                                                         *)
(* The console deploys, rolls back and soft-deletes pages; after each it   *)
(* enqueues a job.  The worker takes jobs from the queue, several at once, *)
(* and prunes old deployments (runDeploymentGC) or purges a deleted page   *)
(* (runPageDelete).  Both read PostgreSQL, delete R2 objects, and only     *)
(* then delete rows; each await is a step, and any step may fail or be the *)
(* last one of its isolate, after which the queue delivers the job again.  *)
(*                                                                         *)
(* A deployment <<pg, n>> is the n-th of page pg in order of created_at,   *)
(* and has one file.  A page's deploys and rollbacks exclude each other    *)
(* (module Deploy), so a page has one handler of them; its delete takes no *)
(* lock and waits for nobody.                                              *)
(***************************************************************************)
EXTENDS Integers, FiniteSets

CONSTANTS
    Page, Hash, NoHash,
    Slot,        \* queue messages that may be outstanding at the same time
    MaxDeploy,   \* bound: deployments a page ever has
    Retention,   \* DEPLOYMENT_RETENTION
    MaxAttempts, \* QUEUE_MAX_RETRIES
    Handlers,    \* console requests that arrive: "deploy", "rollback", "delete"
    Overlap      \* may jobs run while a deploy or a rollback is under way?

ASSUME CleanupAssumption ==
    /\ NoHash \notin Hash
    /\ MaxDeploy \in Nat /\ Retention \in Nat /\ MaxAttempts \in Nat \ {0}
    /\ Handlers \subseteq {"deploy", "rollback", "delete"}
    /\ Overlap \in BOOLEAN

Deployment == Page \X (1 .. MaxDeploy)
NoDeployment == <<>>

VARIABLES
    (* PostgreSQL *)
    page,      \* "live", "deleted" (soft) or "gone" (row deleted)
    made,      \* deployments created so far, for their order
    rows,      \* deployments
    tree,      \* blob_tree_entries: the hash of the deployment's file
    recorded,  \* deployments with manifest_key set
    active,    \* deployments with is_active
    blobs,     \* rows of table blobs
    (* R2 *)
    objects,   \* blobs/{hash}
    manifests, \* manifests/{deployment}
    (* the console: the deploy or rollback of each page, and its delete *)
    hpc, target, file,
    deleting,  \* pages that deletePage has marked and not yet enqueued
    (* the queue and the worker: one message, and its handler, per slot *)
    job, jpc, attempts, doomedRows, cand, doomed, freed

database == <<page, made, rows, tree, recorded, active, blobs>>
storage == <<objects, manifests>>
console == <<hpc, target, file, deleting>>
message == <<job, attempts>>
handler == <<doomedRows, cand, doomed, freed>>
worker == <<message, jpc, handler>>
vars == <<database, storage, console, worker>>

NoJob == <<>>
Job == {"deployment_gc", "page_delete"} \X Page

ConsoleSteps == {"idle", "read", "store", "blob", "insert", "tree", "manifest",
                 "activate", "enqueue"}
Running == {"guard", "list", "candidates", "referenced", "objects", "manifests",
            "purge", "page", "ack"}

TypeOK ==
    /\ page \in [Page -> {"live", "deleted", "gone"}]
    /\ made \in [Page -> 0 .. MaxDeploy]
    /\ rows \subseteq Deployment
    /\ tree \in [Deployment -> Hash \cup {NoHash}]
    /\ recorded \subseteq Deployment
    /\ active \subseteq rows
    /\ blobs \subseteq Hash
    /\ objects \subseteq Hash
    /\ manifests \subseteq Deployment
    /\ hpc \in [Page -> ConsoleSteps]
    /\ target \in [Page -> Deployment \cup {NoDeployment}]
    /\ file \in [Page -> Hash \cup {NoHash}]
    /\ deleting \subseteq Page
    /\ job \in [Slot -> Job \cup {NoJob}]
    /\ jpc \in [Slot -> {"none", "queued"} \cup Running]
    /\ attempts \in [Slot -> 0 .. MaxAttempts]
    /\ doomedRows \in [Slot -> SUBSET Deployment]
    /\ cand \in [Slot -> SUBSET Hash]
    /\ doomed \in [Slot -> SUBSET Hash]
    /\ freed \in [Slot -> SUBSET Hash]

Init ==
    /\ page = [pg \in Page |-> "live"]
    /\ made = [pg \in Page |-> 0]
    /\ rows = {} /\ recorded = {} /\ active = {}
    /\ tree = [d \in Deployment |-> NoHash]
    /\ blobs = {} /\ objects = {} /\ manifests = {}
    /\ hpc = [pg \in Page |-> "idle"]
    /\ target = [pg \in Page |-> NoDeployment]
    /\ file = [pg \in Page |-> NoHash]
    /\ deleting = {}
    /\ job = [s \in Slot |-> NoJob]
    /\ jpc = [s \in Slot |-> "none"]
    /\ attempts = [s \in Slot |-> 0]
    /\ doomedRows = [s \in Slot |-> {}]
    /\ cand = [s \in Slot |-> {}]
    /\ doomed = [s \in Slot |-> {}]
    /\ freed = [s \in Slot |-> {}]

-----------------------------------------------------------------------------
RowsOf(pg) == {d \in rows : d[1] = pg}
Inactive(pg) == RowsOf(pg) \ active
Newer(d) == {e \in Inactive(d[1]) : e[2] > d[2]}

(* Mutation of Expired: the active row is not left out. *)
ExpiredOfAll(pg) ==
    {d \in RowsOf(pg) : Cardinality({e \in RowsOf(pg) : e[2] > d[2]}) >= Retention}
(* Inactive rows, newest first, without the first Retention of them. *)
Expired(pg) == {d \in Inactive(pg) : Cardinality(Newer(d)) >= Retention}

Trees(ds) == {tree[d] : d \in ds} \ {NoHash}

HandlersIdle == \A pg \in Page : hpc[pg] \in {"idle", "enqueue"}
WorkerIdle == \A s \in Slot : jpc[s] \notin Running

Goto(pg, s) == hpc' = [hpc EXCEPT ![pg] = s]
End(pg) ==
    /\ Goto(pg, "idle")
    /\ target' = [target EXCEPT ![pg] = NoDeployment]
    /\ file' = [file EXCEPT ![pg] = NoHash]

-----------------------------------------------------------------------------
(* The console *)

(* prepareDeploy finds the object in R2, or the client uploads it. *)
Prepare(pg, h) ==
    /\ "deploy" \in Handlers
    /\ hpc[pg] = "idle" /\ page[pg] = "live" /\ made[pg] < MaxDeploy
    /\ Overlap \/ WorkerIdle
    /\ objects' = objects \cup {h}
    /\ file' = [file EXCEPT ![pg] = h]
    /\ Goto(pg, "read")
    /\ UNCHANGED <<database, manifests, target, deleting, worker>>

(* commitDeploy: readBlobBuffer refuses a file whose object is missing. *)
ReadBlob(pg) ==
    /\ hpc[pg] = "read"
    /\ IF file[pg] \in objects THEN Goto(pg, "store") /\ UNCHANGED <<target, file>>
                               ELSE End(pg)
    /\ UNCHANGED <<database, storage, deleting, worker>>

(* storeBlobFromBuffer: the object is put unless R2 has it ... *)
HasObject(pg) == file[pg] \in objects
StoreBlob(pg) ==
    /\ hpc[pg] = "store"
    /\ objects' = IF HasObject(pg) THEN objects ELSE objects \cup {file[pg]}
    /\ Goto(pg, "blob")
    /\ UNCHANGED <<database, manifests, target, file, deleting, worker>>

(* ... and its row is inserted ON CONFLICT DO NOTHING. *)
InsertBlob(pg) ==
    /\ hpc[pg] = "blob"
    /\ blobs' = blobs \cup {file[pg]}
    /\ Goto(pg, "insert")
    /\ UNCHANGED <<page, made, rows, tree, recorded, active, storage, target, file, deleting, worker>>

(* The deployment row refers to the page row. *)
InsertRow(pg) ==
    LET d == <<pg, made[pg] + 1>> IN
    /\ hpc[pg] = "insert"
    /\ IF page[pg] = "gone"
       THEN End(pg) /\ UNCHANGED <<made, rows>>
       ELSE /\ made' = [made EXCEPT ![pg] = @ + 1]
            /\ rows' = rows \cup {d}
            /\ target' = [target EXCEPT ![pg] = d]
            /\ Goto(pg, "tree") /\ UNCHANGED file
    /\ UNCHANGED <<page, tree, recorded, active, blobs, storage, deleting, worker>>

(* A tree entry refers to the deployment row and to the blobs row. *)
InsertTree(pg) ==
    /\ hpc[pg] = "tree"
    /\ IF target[pg] \in rows /\ file[pg] \in blobs
       THEN /\ tree' = [tree EXCEPT ![target[pg]] = file[pg]]
            /\ Goto(pg, "manifest") /\ UNCHANGED <<target, file>>
       ELSE End(pg) /\ UNCHANGED tree
    /\ UNCHANGED <<page, made, rows, recorded, active, blobs, storage, deleting, worker>>

(* generateAndPersistManifest: a recorded manifest must be readable, another *)
(* one is stored and recorded.                                              *)
PersistManifest(pg) ==
    LET d == target[pg] IN
    /\ hpc[pg] = "manifest"
    /\ \/ /\ d \in rows /\ d \notin recorded
          /\ manifests' = manifests \cup {d}
          /\ recorded' = recorded \cup {d}
          /\ Goto(pg, "activate") /\ UNCHANGED <<target, file>>
       \/ /\ d \in rows \cap recorded \cap manifests
          /\ UNCHANGED <<manifests, recorded, target, file>>
          /\ Goto(pg, "activate")
       \/ /\ d \notin rows \/ d \in recorded \ manifests
          /\ End(pg) /\ UNCHANGED <<manifests, recorded>>
    /\ UNCHANGED <<page, made, rows, tree, active, blobs, objects, deleting, worker>>

(* The activation transaction, which needs the row; only a deploy (it has a *)
(* file to store) reads the delete fence.                                   *)
Fenced(pg) == file[pg] # NoHash /\ page[pg] # "live"
Activate(pg) ==
    LET d == target[pg] IN
    /\ hpc[pg] = "activate"
    /\ IF d \in rows /\ ~Fenced(pg)
       THEN /\ active' = (active \ RowsOf(pg)) \cup {d}
            /\ Goto(pg, "enqueue") /\ UNCHANGED <<target, file>>
       ELSE End(pg) /\ UNCHANGED active
    /\ UNCHANGED <<page, made, rows, tree, recorded, blobs, storage, deleting, worker>>

(* rollbackToDeployment: the row has a tree; the page is not looked at. *)
RollbackStart(pg, d) ==
    /\ "rollback" \in Handlers
    /\ hpc[pg] = "idle" /\ d \in RowsOf(pg) /\ tree[d] # NoHash
    /\ Overlap \/ WorkerIdle
    /\ target' = [target EXCEPT ![pg] = d]
    /\ Goto(pg, "manifest")
    /\ UNCHANGED <<database, storage, file, deleting, worker>>

(* deletePage marks the page, whatever its handler is doing ... *)
SoftDelete(pg) ==
    /\ "delete" \in Handlers
    /\ page[pg] = "live"
    /\ page' = [page EXCEPT ![pg] = "deleted"]
    /\ deleting' = deleting \cup {pg}
    /\ UNCHANGED <<made, rows, tree, recorded, active, blobs, storage, hpc, target, file, worker>>

(* enqueue answers false when it gives up, and sends a job twice when its   *)
(* first attempt times out after the queue has taken the message.           *)
Send(j) ==
    \E S \in SUBSET {s \in Slot : jpc[s] = "none"} :
        /\ Cardinality(S) <= 2
        /\ job' = [s \in Slot |-> IF s \in S THEN j ELSE job[s]]
        /\ jpc' = [s \in Slot |-> IF s \in S THEN "queued" ELSE jpc[s]]

(* enqueueDeploymentGC, when a deploy or a rollback is done. *)
Enqueue(pg) ==
    /\ hpc[pg] = "enqueue"
    /\ Send(<<"deployment_gc", pg>>)
    /\ End(pg)
    /\ UNCHANGED <<database, storage, deleting, attempts, handler>>

(* ... and asks for the purge of its rows and objects: enqueuePageDelete.   *)
(* When the handler throws before, or is killed, nobody ever does.          *)
EnqueueDelete(pg) ==
    /\ pg \in deleting
    /\ Send(<<"page_delete", pg>>)
    /\ deleting' = deleting \ {pg}
    /\ UNCHANGED <<database, storage, hpc, target, file, attempts, handler>>

DeleteFails(pg) ==
    /\ pg \in deleting
    /\ deleting' = deleting \ {pg}
    /\ UNCHANGED <<database, storage, hpc, target, file, worker>>

(* A deploy or a rollback throws, or its isolate is killed. *)
ConsoleFails(pg) ==
    /\ hpc[pg] # "idle"
    /\ End(pg)
    /\ UNCHANGED <<database, storage, deleting, worker>>

-----------------------------------------------------------------------------
(* The worker *)

Step(s, to) == jpc' = [jpc EXCEPT ![s] = to]

Deliver(s) ==
    /\ jpc[s] = "queued"
    /\ Overlap \/ HandlersIdle
    /\ Step(s, IF job[s][1] = "page_delete" THEN "guard" ELSE "list")
    /\ attempts' = [attempts EXCEPT ![s] = @ + 1]
    /\ UNCHANGED <<database, storage, console, job, handler>>

(* page_delete purges a page only if it is soft-deleted and still has a row; *)
(* any other answer is final.                                               *)
Guard(s) ==
    /\ jpc[s] = "guard"
    /\ Step(s, IF page[job[s][2]] = "deleted" THEN "list" ELSE "ack")
    /\ UNCHANGED <<database, storage, console, message, handler>>

ListRows(s) ==
    LET pg == job[s][2]
        ds == IF job[s][1] = "page_delete" THEN RowsOf(pg) ELSE Expired(pg) IN
    /\ jpc[s] = "list"
    /\ doomedRows' = [doomedRows EXCEPT ![s] = ds]
    /\ Step(s, IF ds = {} /\ job[s][1] = "deployment_gc" THEN "ack" ELSE "candidates")
    /\ UNCHANGED <<database, storage, console, message, cand, doomed, freed>>

ListCandidates(s) ==
    /\ jpc[s] = "candidates"
    /\ cand' = [cand EXCEPT ![s] = Trees(doomedRows[s] \cap rows)]
    /\ Step(s, "referenced")
    /\ UNCHANGED <<database, storage, console, message, doomedRows, doomed, freed>>

(* Mutation of StillReferenced: only rows of the job's page are looked at. *)
ReferencedByPage(s) == Trees(RowsOf(job[s][2]) \ doomedRows[s])
(* Hashes that a row outside the doomed ones refers to, on any page. *)
StillReferenced(s) == Trees(rows \ doomedRows[s])
DropReferenced(s) ==
    /\ jpc[s] = "referenced"
    /\ doomed' = [doomed EXCEPT ![s] = cand[s] \ StillReferenced(s)]
    /\ Step(s, "objects")
    /\ UNCHANGED <<database, storage, console, message, doomedRows, cand, freed>>

(* deleteBlobObjects answers with the hashes whose delete succeeded.  GC    *)
(* goes on with those, page_delete fails unless they are all there.         *)
DeleteObjects(s) ==
    /\ jpc[s] = "objects"
    /\ \E done \in SUBSET doomed[s] :
          /\ job[s][1] = "page_delete" => done = doomed[s]
          /\ objects' = objects \ done
          /\ freed' = [freed EXCEPT ![s] = done]
    /\ Step(s, "manifests")
    /\ UNCHANGED <<database, manifests, console, message, doomedRows, cand, doomed>>

DeleteManifests(s) ==
    /\ jpc[s] = "manifests"
    /\ \E done \in SUBSET doomedRows[s] :
          /\ job[s][1] = "page_delete" => done = doomedRows[s]
          /\ manifests' = manifests \ done
    /\ Step(s, "purge")
    /\ UNCHANGED <<database, objects, console, message, handler>>

(* purgeDeployments: trees, deployments and blobs in one transaction.  The  *)
(* foreign key of blob_tree_entries aborts it when a freed hash is in use.  *)
PurgeRows(s) ==
    LET kept == rows \ doomedRows[s] IN
    /\ jpc[s] = "purge"
    /\ freed[s] \cap Trees(kept) = {}
    /\ rows' = kept
    /\ active' = active \cap kept
    /\ recorded' = recorded \cap kept
    /\ tree' = [d \in Deployment |-> IF d \in kept THEN tree[d] ELSE NoHash]
    /\ blobs' = blobs \ freed[s]
    /\ Step(s, IF job[s][1] = "page_delete" THEN "page" ELSE "ack")
    /\ UNCHANGED <<page, made, storage, console, message, handler>>

(* hardDeletePage: the rows that are left go with it (ON DELETE CASCADE). *)
HardDelete(s) ==
    LET pg == job[s][2]
        kept == rows \ RowsOf(pg) IN
    /\ jpc[s] = "page"
    /\ page' = [page EXCEPT ![pg] = "gone"]
    /\ rows' = kept
    /\ active' = active \cap kept
    /\ recorded' = recorded \cap kept
    /\ tree' = [d \in Deployment |-> IF d \in kept THEN tree[d] ELSE NoHash]
    /\ Step(s, "ack")
    /\ UNCHANGED <<made, blobs, storage, console, message, handler>>

(* Mutation of AttemptsAfter: a retry is a new message. *)
NoAttempts(s, to) == 0
AttemptsAfter(s, to) == IF to = "none" THEN 0 ELSE attempts[s]
Dispose(s, to) ==
    /\ Step(s, to)
    /\ job' = [job EXCEPT ![s] = IF to = "none" THEN NoJob ELSE @]
    /\ attempts' = [attempts EXCEPT ![s] = AttemptsAfter(s, to)]
    /\ doomedRows' = [doomedRows EXCEPT ![s] = {}]
    /\ cand' = [cand EXCEPT ![s] = {}]
    /\ doomed' = [doomed EXCEPT ![s] = {}]
    /\ freed' = [freed EXCEPT ![s] = {}]
    /\ UNCHANGED <<database, storage, console>>

Ack(s) == jpc[s] = "ack" /\ Dispose(s, "none")

(* Mutation of AfterFailure: one attempt too many. *)
RetryOnceMore(s) == IF attempts[s] > MaxAttempts THEN "none" ELSE "queued"
(* The handler's answer to a failure: retry, or give up and ack. *)
AfterFailure(s) == IF attempts[s] >= MaxAttempts THEN "none" ELSE "queued"

(* A handler throws, its isolate is killed, or its ack is lost: the queue   *)
(* delivers the message again until the attempts are used up.  What an      *)
(* interrupted R2 delete has done is done.                                  *)
JobFails(s) ==
    /\ jpc[s] \in Running
    /\ Dispose(s, AfterFailure(s))

PartialDelete(s) ==
    /\ jpc[s] \in {"objects", "manifests"}
    /\ IF jpc[s] = "objects"
       THEN \E h \in doomed[s] \cap objects : objects' = objects \ {h} /\ UNCHANGED manifests
       ELSE \E d \in doomedRows[s] \cap manifests : manifests' = manifests \ {d} /\ UNCHANGED objects
    /\ UNCHANGED <<database, console, worker>>

-----------------------------------------------------------------------------
ConsoleStep(pg) ==
    \/ ReadBlob(pg) \/ StoreBlob(pg) \/ InsertBlob(pg) \/ InsertRow(pg)
    \/ InsertTree(pg) \/ PersistManifest(pg) \/ Activate(pg)
    \/ Enqueue(pg) \/ ConsoleFails(pg)

DeleteStep(pg) == EnqueueDelete(pg) \/ DeleteFails(pg)

WorkerStep(s) ==
    \/ Deliver(s) \/ Guard(s) \/ ListRows(s) \/ ListCandidates(s)
    \/ DropReferenced(s) \/ DeleteObjects(s) \/ DeleteManifests(s)
    \/ PurgeRows(s) \/ HardDelete(s) \/ Ack(s) \/ JobFails(s)

Next ==
    \/ \E pg \in Page :
          \/ \E h \in Hash : Prepare(pg, h)
          \/ \E d \in Deployment : RollbackStart(pg, d)
          \/ SoftDelete(pg)
          \/ ConsoleStep(pg) \/ DeleteStep(pg)
    \/ \E s \in Slot : WorkerStep(s) \/ PartialDelete(s)

Spec == Init /\ [][Next]_vars

(* The queue delivers what it holds, and a worker's awaits settle. *)
FairSpec ==
    /\ Spec
    /\ \A pg \in Page : WF_vars(ConsoleStep(pg)) /\ WF_vars(DeleteStep(pg))
    /\ \A s \in Slot : WF_vars(WorkerStep(s))
=============================================================================
