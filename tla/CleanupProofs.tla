----------------------------- MODULE CleanupProofs -----------------------------
(* Theorems about modules Cleanup and CleanupProps: for any number of pages, *)
(* objects and queue messages, any retention and any number of attempts.     *)
EXTENDS CleanupProps, FiniteSetTheorems, WellFoundedInduction, TLAPS

-----------------------------------------------------------------------------
(* Type correctness, whatever overlaps.                                      *)

(* A page has room for the row that its handler has not inserted yet.        *)
Roomy(pg) ==
    /\ hpc[pg] \in {"read", "store", "blob", "insert"} =>
           made[pg] < MaxDeploy /\ file[pg] \in Hash
    /\ hpc[pg] = "tree" => target[pg] \in Deployment /\ file[pg] \in Hash
    /\ hpc[pg] \in {"manifest", "activate"} => target[pg] \in Deployment

(* A message that waits has an attempt left.                                 *)
Queued(s) ==
    /\ jpc[s] = "none" => attempts[s] = 0
    /\ jpc[s] = "queued" => attempts[s] < MaxAttempts
    /\ jpc[s] # "none" => job[s] \in Job

Typed ==
    /\ TypeOK
    /\ \A pg \in Page : Roomy(pg)
    /\ \A s \in Slot : Queued(s)

(* The type invariant of the handlers, and of the rest.                      *)
LEMMA TypedInit == Init => Typed
<1> SUFFICES ASSUME Init PROVE Typed
  OBVIOUS
<1>1. TypeOK
  BY CleanupAssumption DEF Init, TypeOK, ConsoleSteps
<1>2. \A pg \in Page : Roomy(pg)
  BY DEF Init, Roomy
<1>3. \A s \in Slot : Queued(s)
  BY CleanupAssumption DEF Init, Queued
<1> QED  BY <1>1, <1>2, <1>3 DEF Typed

(* A handler that ends leaves everything typed.                              *)
LEMMA EndTyped ==
  ASSUME Typed, NEW pg \in Page, End(pg)
  PROVE  /\ hpc' \in [Page -> ConsoleSteps]
         /\ target' \in [Page -> Deployment \cup {NoDeployment}]
         /\ file' \in [Page -> Hash \cup {NoHash}]
         /\ UNCHANGED made => \A p \in Page : Roomy(p)'
<1> USE DEF Typed, TypeOK, End, Goto
<1>1. hpc' \in [Page -> ConsoleSteps]
  BY DEF ConsoleSteps
<1>2. target' \in [Page -> Deployment \cup {NoDeployment}] /\ file' \in [Page -> Hash \cup {NoHash}]
  OBVIOUS
<1>3. ASSUME UNCHANGED made, NEW p \in Page PROVE Roomy(p)'
  BY <1>3 DEF Roomy
<1> QED  BY <1>1, <1>2, <1>3

(* What the console's handlers do keeps the types.                           *)
LEMMA ConsoleTyped ==
  ASSUME Typed, NEW pg \in Page,
         \/ \E h \in Hash : Prepare(pg, h)
         \/ \E d \in Deployment : RollbackStart(pg, d)
         \/ SoftDelete(pg) \/ ReadBlob(pg) \/ StoreBlob(pg) \/ InsertBlob(pg)
         \/ InsertRow(pg) \/ InsertTree(pg) \/ PersistManifest(pg) \/ Activate(pg)
         \/ ConsoleFails(pg) \/ DeleteFails(pg)
  PROVE  Typed'
<1> USE DEF database, storage, console, worker, message, handler
<1>0. Roomy(pg) /\ (\A p \in Page : Roomy(p)) /\ (\A s \in Slot : Queued(s)) /\ TypeOK
  BY DEF Typed
<1>1. UNCHANGED worker
  BY DEF Prepare, RollbackStart, SoftDelete, ReadBlob, StoreBlob, InsertBlob,
         InsertRow, InsertTree, PersistManifest, Activate, ConsoleFails, DeleteFails
<1>2. \A s \in Slot : Queued(s)'
  BY <1>0, <1>1 DEF Queued
<1>3. SUFFICES TypeOK' /\ \A p \in Page : Roomy(p)'
  BY <1>2 DEF Typed
<1>4. CASE \E h \in Hash : Prepare(pg, h)
  <2>1. PICK h \in Hash : Prepare(pg, h)
    BY <1>4
  <2>2. TypeOK'
    BY <1>0, <2>1 DEF Prepare, TypeOK, Goto, ConsoleSteps
  <2>3. \A p \in Page : Roomy(p)'
    BY <1>0, <2>1 DEF Prepare, TypeOK, Goto, Roomy
  <2> QED  BY <2>2, <2>3
<1>5. CASE \E d \in Deployment : RollbackStart(pg, d)
  <2>1. PICK d \in Deployment : RollbackStart(pg, d)
    BY <1>5
  <2>2. TypeOK'
    BY <1>0, <2>1 DEF RollbackStart, TypeOK, Goto, ConsoleSteps
  <2>3. \A p \in Page : Roomy(p)'
    BY <1>0, <2>1 DEF RollbackStart, TypeOK, Goto, Roomy
  <2> QED  BY <2>2, <2>3
<1>6. CASE SoftDelete(pg) \/ DeleteFails(pg)
  <2>1. TypeOK'
    BY <1>0, <1>6 DEF SoftDelete, DeleteFails, TypeOK
  <2>2. \A p \in Page : Roomy(p)'
    BY <1>0, <1>6 DEF SoftDelete, DeleteFails, Roomy
  <2> QED  BY <2>1, <2>2
<1>7. CASE End(pg) /\ UNCHANGED <<database, storage, deleting, worker>>
  <2>1. TypeOK'
    BY <1>0, <1>7, EndTyped DEF TypeOK
  <2> QED  BY <1>7, <2>1, EndTyped
<1>8. CASE ReadBlob(pg) /\ file[pg] \in objects
  <2>1. TypeOK'
    BY <1>0, <1>8 DEF ReadBlob, TypeOK, Goto, ConsoleSteps
  <2>2. \A p \in Page : Roomy(p)'
    BY <1>0, <1>8 DEF ReadBlob, TypeOK, Goto, Roomy
  <2> QED  BY <2>1, <2>2
<1>9. CASE StoreBlob(pg) \/ InsertBlob(pg)
  <2>1. file[pg] \in Hash
    BY <1>0, <1>9 DEF StoreBlob, InsertBlob, Roomy
  <2>2. TypeOK'
    BY <1>0, <1>9, <2>1 DEF StoreBlob, InsertBlob, HasObject, TypeOK, Goto, ConsoleSteps
  <2>3. \A p \in Page : Roomy(p)'
    BY <1>0, <1>9 DEF StoreBlob, InsertBlob, TypeOK, Goto, Roomy
  <2> QED  BY <2>2, <2>3
<1>10. CASE InsertRow(pg) /\ page[pg] # "gone"
  <2> DEFINE d == <<pg, made[pg] + 1>>
  <2>1. d \in Deployment /\ made[pg] + 1 \in 0..MaxDeploy /\ file[pg] \in Hash
    BY <1>0, <1>10, CleanupAssumption DEF InsertRow, Roomy, TypeOK, Deployment
  <2>2. /\ made' = [made EXCEPT ![pg] = made[pg] + 1] /\ rows' = rows \cup {d}
        /\ target' = [target EXCEPT ![pg] = d] /\ hpc' = [hpc EXCEPT ![pg] = "tree"]
        /\ UNCHANGED <<file, page, tree, recorded, active, blobs, storage, deleting, worker>>
    BY <1>10 DEF InsertRow, Goto
  <2> HIDE DEF d
  <2>3. TypeOK'
    BY <1>0, <2>1, <2>2 DEF TypeOK, ConsoleSteps
  <2>4. ASSUME NEW p \in Page PROVE Roomy(p)'
    BY <1>0, <2>1, <2>2 DEF TypeOK, Roomy
  <2> QED  BY <2>3, <2>4
<1>11. CASE InsertRow(pg) /\ page[pg] = "gone"
  BY <1>7, <1>11 DEF InsertRow
<1>12. CASE InsertTree(pg) /\ target[pg] \in rows /\ file[pg] \in blobs
  <2>1. target[pg] \in Deployment /\ file[pg] \in Hash
    BY <1>0, <1>12 DEF InsertTree, Roomy
  <2>2. TypeOK'
    BY <1>0, <1>12, <2>1 DEF InsertTree, TypeOK, Goto, ConsoleSteps
  <2>3. \A p \in Page : Roomy(p)'
    BY <1>0, <1>12, <2>1 DEF InsertTree, TypeOK, Goto, Roomy
  <2> QED  BY <2>2, <2>3
<1>13. CASE InsertTree(pg) /\ ~(target[pg] \in rows /\ file[pg] \in blobs)
  BY <1>7, <1>13 DEF InsertTree
<1>14. CASE PersistManifest(pg) /\ hpc' = [hpc EXCEPT ![pg] = "activate"] /\ UNCHANGED <<target, file>>
  <2>1. target[pg] \in Deployment
    BY <1>0, <1>14 DEF PersistManifest, Roomy
  <2>2. /\ manifests' \in {manifests, manifests \cup {target[pg]}}
        /\ recorded' \in {recorded, recorded \cup {target[pg]}}
        /\ UNCHANGED <<page, made, rows, tree, active, blobs, objects, deleting, worker>>
    BY <1>14 DEF PersistManifest
  <2>3. TypeOK'
    BY <1>0, <1>14, <2>1, <2>2 DEF TypeOK, ConsoleSteps
  <2>4. \A p \in Page : Roomy(p)'
    BY <1>0, <1>14, <2>1, <2>2 DEF TypeOK, Roomy
  <2> QED  BY <2>3, <2>4
<1>15. CASE PersistManifest(pg) /\ End(pg) /\ UNCHANGED <<manifests, recorded>>
  BY <1>7, <1>15 DEF PersistManifest
<1>16. CASE Activate(pg) /\ target[pg] \in rows /\ ~Fenced(pg)
  <2>1. TypeOK'
    BY <1>0, <1>16 DEF Activate, TypeOK, Goto, ConsoleSteps
  <2>2. \A p \in Page : Roomy(p)'
    BY <1>0, <1>16 DEF Activate, TypeOK, Goto, Roomy
  <2> QED  BY <2>1, <2>2
<1>17. CASE Activate(pg) /\ ~(target[pg] \in rows /\ ~Fenced(pg))
  BY <1>7, <1>17 DEF Activate
<1>18. CASE ReadBlob(pg) /\ file[pg] \notin objects
  BY <1>7, <1>18 DEF ReadBlob
<1>19. CASE ConsoleFails(pg)
  BY <1>7, <1>19 DEF ConsoleFails
<1>20. CASE PersistManifest(pg)
  BY <1>14, <1>15, <1>20 DEF PersistManifest, Goto
<1> QED
  BY <1>4, <1>5, <1>6, <1>8, <1>9, <1>10, <1>11, <1>12, <1>13, <1>16, <1>17, <1>18, <1>19, <1>20

(* Sending a job fills slots that are free.                                  *)
LEMMA SendTyped ==
  ASSUME Typed, NEW j \in Job, Send(j), UNCHANGED attempts
  PROVE  /\ job' \in [Slot -> Job \cup {NoJob}]
         /\ jpc' \in [Slot -> {"none", "queued"} \cup Running]
         /\ \A s \in Slot : Queued(s)'
<1>1. PICK S \in SUBSET {s \in Slot : jpc[s] = "none"} :
            /\ job' = [s \in Slot |-> IF s \in S THEN j ELSE job[s]]
            /\ jpc' = [s \in Slot |-> IF s \in S THEN "queued" ELSE jpc[s]]
  BY DEF Send
<1>2. ASSUME NEW s \in Slot PROVE Queued(s)'
  BY <1>1, CleanupAssumption DEF Typed, TypeOK, Queued
<1> QED  BY <1>1, <1>2 DEF Typed, TypeOK

(* A deploy or a rollback sends its job and ends, a delete sends its own.    *)
LEMMA EnqueueTyped ==
  ASSUME Typed, NEW pg \in Page, Enqueue(pg) \/ EnqueueDelete(pg)
  PROVE  Typed'
<1> USE DEF database, storage, handler
<1>1. UNCHANGED <<database, storage, attempts, handler>>
      /\ deleting' \subseteq deleting /\ \E j \in Job : Send(j)
  BY DEF Enqueue, EnqueueDelete, Job
<1>2. /\ job' \in [Slot -> Job \cup {NoJob}]
      /\ jpc' \in [Slot -> {"none", "queued"} \cup Running]
      /\ \A s \in Slot : Queued(s)'
  BY <1>1, SendTyped
<1>3. /\ hpc' \in [Page -> ConsoleSteps]
      /\ target' \in [Page -> Deployment \cup {NoDeployment}]
      /\ file' \in [Page -> Hash \cup {NoHash}]
      /\ \A p \in Page : Roomy(p)'
  <2>1. CASE Enqueue(pg)
    BY <1>1, <2>1, EndTyped DEF Enqueue
  <2>2. CASE EnqueueDelete(pg)
    BY <1>1, <2>2 DEF EnqueueDelete, Typed, TypeOK, Roomy
  <2> QED  BY <2>1, <2>2
<1>4. TypeOK'
  BY <1>1, <1>2, <1>3 DEF Typed, TypeOK
<1> QED  BY <1>2, <1>3, <1>4 DEF Typed

(* A page's room and its handler do not depend on the worker.                *)
LEMMA RoomyElsewhere ==
  ASSUME Typed, UNCHANGED <<made, console>>
  PROVE  \A p \in Page : Roomy(p)'
BY DEF Typed, Roomy, console

(* A worker that runs a message and keeps it.                                *)
LEMMA RunningTyped ==
  ASSUME Typed, NEW s \in Slot, jpc[s] \in Running, NEW to \in Running,
         Step(s, to), UNCHANGED message
  PROVE  /\ jpc' \in [Slot -> {"none", "queued"} \cup Running]
         /\ \A t \in Slot : Queued(t)'
<1> USE DEF Typed, TypeOK, Step, message, Running
<1>1. jpc' \in [Slot -> {"none", "queued"} \cup Running]
  OBVIOUS
<1>2. ASSUME NEW t \in Slot PROVE Queued(t)'
  BY DEF Queued
<1> QED  BY <1>1, <1>2

(* A message that is disposed of.                                            *)
LEMMA DisposeTyped ==
  ASSUME Typed, NEW s \in Slot, jpc[s] \in Running, NEW to \in {"none", "queued"},
         to = "queued" => attempts[s] < MaxAttempts, Dispose(s, to)
  PROVE  Typed'
<1> USE DEF Dispose, Step, database, storage, console
<1>1. TypeOK'
  BY CleanupAssumption DEF Typed, TypeOK, AttemptsAfter
<1>2. \A p \in Page : Roomy(p)'
  BY RoomyElsewhere DEF Typed, Roomy
<1>3. ASSUME NEW t \in Slot PROVE Queued(t)'
  <2>1. job[s] \in Job
    BY DEF Typed, Queued, Running
  <2>2. CASE t = s
    BY <2>1, <2>2 DEF Typed, TypeOK, Queued, AttemptsAfter
  <2>3. CASE t # s
    BY <2>3 DEF Typed, TypeOK, Queued
  <2> QED  BY <2>2, <2>3
<1> QED  BY <1>1, <1>2, <1>3 DEF Typed

(* What the worker does keeps the types.                                     *)
LEMMA WorkerTyped ==
  ASSUME Typed, NEW s \in Slot, WorkerStep(s) \/ PartialDelete(s)
  PROVE  Typed'
<1> USE DEF database, storage, console, message, handler
<1>0. TypeOK /\ Queued(s)
  BY DEF Typed
<1>1. CASE Deliver(s)
  <2>1. job[s] \in Job /\ attempts[s] < MaxAttempts
    BY <1>0, <1>1 DEF Queued, Deliver
  <2>2. TypeOK'
    BY <1>0, <1>1, <2>1, CleanupAssumption DEF Deliver, Step, TypeOK, Running
  <2>3. ASSUME NEW t \in Slot PROVE Queued(t)'
    BY <1>0, <1>1, <2>1 DEF Typed, Queued, Deliver, Step, TypeOK
  <2> QED  BY <1>1, <2>2, <2>3, RoomyElsewhere DEF Typed, Deliver
<1>2. CASE Ack(s)
  BY <1>2, DisposeTyped DEF Ack, Running
<1>3. CASE JobFails(s)
  <2>1. AfterFailure(s) \in {"none", "queued"}
        /\ (AfterFailure(s) = "queued" => attempts[s] < MaxAttempts)
    BY <1>0, CleanupAssumption DEF AfterFailure, TypeOK
  <2> QED  BY <1>3, <2>1, DisposeTyped DEF JobFails
<1>4. CASE PartialDelete(s)
  <2>1. objects' \subseteq objects /\ manifests' \subseteq manifests
        /\ UNCHANGED <<database, console, worker>>
    BY <1>4 DEF PartialDelete
  <2>2. TypeOK'
    BY <1>0, <2>1 DEF TypeOK, worker
  <2>3. \A t \in Slot : Queued(t)'
    BY <2>1 DEF Typed, Queued, worker
  <2> QED  BY <2>1, <2>2, <2>3, RoomyElsewhere DEF Typed
<1>5. ASSUME Guard(s) \/ ListRows(s) \/ ListCandidates(s) \/ DropReferenced(s)
             \/ DeleteObjects(s) \/ DeleteManifests(s) \/ PurgeRows(s) \/ HardDelete(s)
      PROVE  Typed'
  <2>1. jpc[s] \in Running /\ job[s] \in Job /\ UNCHANGED <<made, console, message>>
    BY <1>0, <1>5 DEF Guard, ListRows, ListCandidates, DropReferenced, DeleteObjects,
                      DeleteManifests, PurgeRows, HardDelete, Running, Queued
  <2>2. \E to \in Running : Step(s, to)
    BY <1>5 DEF Guard, ListRows, ListCandidates, DropReferenced, DeleteObjects,
                DeleteManifests, PurgeRows, HardDelete, Running
  <2>3. jpc' \in [Slot -> {"none", "queued"} \cup Running] /\ \A t \in Slot : Queued(t)'
    BY <2>1, <2>2, RunningTyped
  <2>4. /\ page' \in [Page -> {"live", "deleted", "gone"}] /\ rows' \subseteq rows
        /\ tree' \in [Deployment -> Hash \cup {NoHash}] /\ recorded' \subseteq recorded
        /\ active' \subseteq rows' /\ blobs' \subseteq blobs
    BY <1>0, <1>5, <2>1 DEF TypeOK, Job, Guard, ListRows, ListCandidates, DropReferenced,
         DeleteObjects, DeleteManifests, PurgeRows, HardDelete
  <2>5. objects' \subseteq objects /\ manifests' \subseteq manifests
    BY <1>5 DEF Guard, ListRows, ListCandidates, DropReferenced, DeleteObjects,
                DeleteManifests, PurgeRows, HardDelete
  <2>6. /\ doomedRows' \in [Slot -> SUBSET Deployment] /\ cand' \in [Slot -> SUBSET Hash]
        /\ doomed' \in [Slot -> SUBSET Hash] /\ freed' \in [Slot -> SUBSET Hash]
    <3>1. CASE ListRows(s)
      <4>1. RowsOf(job[s][2]) \in SUBSET Deployment /\ Expired(job[s][2]) \in SUBSET Deployment
        BY <1>0 DEF TypeOK, RowsOf, Expired, Inactive
      <4> QED  BY <1>0, <3>1, <4>1 DEF ListRows, TypeOK
    <3>2. CASE ListCandidates(s)
      <4>1. Trees(doomedRows[s] \cap rows) \in SUBSET Hash
        BY <1>0 DEF TypeOK, Trees
      <4> QED  BY <1>0, <3>2, <4>1 DEF ListCandidates, TypeOK
    <3>3. CASE DropReferenced(s)
      BY <1>0, <3>3 DEF DropReferenced, TypeOK
    <3>4. CASE DeleteObjects(s)
      <4>1. PICK done \in SUBSET doomed[s] : freed' = [freed EXCEPT ![s] = done]
        BY <3>4 DEF DeleteObjects
      <4>2. done \in SUBSET Hash
        BY <1>0, <4>1 DEF TypeOK
      <4> QED  BY <1>0, <3>4, <4>1, <4>2 DEF DeleteObjects, TypeOK
    <3>5. CASE Guard(s) \/ DeleteManifests(s) \/ PurgeRows(s) \/ HardDelete(s)
      BY <1>0, <3>5 DEF Guard, DeleteManifests, PurgeRows, HardDelete, TypeOK
    <3> QED  BY <1>5, <3>1, <3>2, <3>3, <3>4, <3>5
  <2>7. TypeOK'
    BY <1>0, <2>1, <2>3, <2>4, <2>5, <2>6 DEF TypeOK
  <2> QED  BY <2>1, <2>3, <2>7, RoomyElsewhere DEF Typed
<1> QED  BY <1>1, <1>2, <1>3, <1>4, <1>5 DEF WorkerStep

(* Every step keeps the types.                                               *)
LEMMA TypedStep == Typed /\ [Next]_vars => Typed'
<1> SUFFICES ASSUME Typed, [Next]_vars PROVE Typed'
  OBVIOUS
<1>1. CASE UNCHANGED vars
  BY <1>1 DEF vars, database, storage, console, worker, message, handler, Typed, TypeOK,
              Roomy, Queued
<1>2. CASE Next
  BY <1>2, ConsoleTyped, EnqueueTyped, WorkerTyped DEF Next, ConsoleStep, DeleteStep
<1> QED  BY <1>1, <1>2

(* A delete marks its page and sends a job.  It goes on next to the page's   *)
(* deploy or rollback, and leaves it alone.                                  *)
LEMMA DeleteMarks ==
  ASSUME TypeOK, NEW pg \in Page, SoftDelete(pg) \/ DeleteStep(pg)
  PROVE  /\ UNCHANGED <<made, rows, tree, recorded, active, blobs, objects, manifests>>
         /\ UNCHANGED <<hpc, target, file, doomedRows, doomed>>
         /\ \A p \in Page : page'[p] = "live" => page[p] = "live"
         /\ \A s \in Slot : \/ jpc'[s] = jpc[s] /\ job'[s] = job[s]
                            \/ jpc'[s] = "queued"
<1> USE DEF database, storage, worker, message, handler
<1>1. CASE SoftDelete(pg)
  BY <1>1 DEF SoftDelete, TypeOK
<1>2. CASE EnqueueDelete(pg)
  BY <1>2 DEF EnqueueDelete, Send
<1>3. CASE DeleteFails(pg)
  BY <1>3 DEF DeleteFails
<1> QED  BY <1>1, <1>2, <1>3 DEF DeleteStep

(* The tables, the bucket, the queue and every handler keep their types.     *)
THEOREM CleanupTypeCorrect == Spec => []TypeOK
<1>1. Spec => []Typed
  BY TypedInit, TypedStep, PTL DEF Spec
<1>2. Typed => TypeOK
  BY DEF Typed
<1> QED  BY <1>1, <1>2, PTL

-----------------------------------------------------------------------------
(* What retention keeps, when jobs and handlers do not overlap and nothing   *)
(* is rolled back.  A handler between its insert and its activation has a    *)
(* row that is going to leave the inactive ones; it must not be counted for  *)
(* an older deployment that has been damaged.                                *)
Between == {"tree", "manifest", "activate"}
Own(pg) == IF hpc[pg] \in Between THEN {target[pg]} ELSE {}
NewerSettled(d) == Newer(d) \ Own(d[1])

Kept(d) ==
    \/ Servable(d)
    \/ d \notin active /\ Cardinality(NewerSettled(d)) >= Retention

(* What a handler has done so far is still there.                            *)
Working(pg) ==
    /\ hpc[pg] \in {"blob", "insert"} \cup Between => file[pg] \in Hash \cap objects
    /\ hpc[pg] \in {"insert"} \cup Between => file[pg] \in blobs
    /\ hpc[pg] \in Between => target[pg] \in rows \ active /\ target[pg][1] = pg
    /\ hpc[pg] = "tree" => target[pg] \notin recorded
    /\ hpc[pg] \in {"manifest", "activate"} => tree[target[pg]] = file[pg]
    /\ hpc[pg] = "activate" => target[pg] \in recorded \cap manifests

(* What a job goes by is still true.                                         *)
Listed(s) ==
    jpc[s] \in {"candidates", "referenced", "objects", "manifests", "purge"} =>
        \A d \in doomedRows[s] :
            /\ d[1] = job[s][2]
            /\ page[d[1]] = "live" /\ d \in rows => MayGo(d)

Purging(s) ==
    /\ jpc[s] \in Running \ {"guard", "ack"} /\ job[s][1] = "page_delete" =>
           page[job[s][2]] # "live"
    /\ jpc[s] = "page" => job[s][1] = "page_delete"

Unshared(s) == jpc[s] = "objects" => doomed[s] \cap StillReferenced(s) = {}

(* Handlers and jobs take turns.                                             *)
Apart == WorkerIdle \/ HandlersIdle

Known == recorded \subseteq rows /\ \A d \in rows : d[2] <= made[d[1]]

CleanInv ==
    /\ Typed
    /\ Apart /\ Known
    /\ \A pg \in Page : Working(pg)
    /\ \A d \in recorded : page[d[1]] = "live" => Kept(d)
    /\ \A s \in Slot : Listed(s) /\ Purging(s) /\ Unshared(s)

(* The deployments of a page are finitely many.                              *)
LEMMA Few ==
  ASSUME NEW pg \in Page, NEW S, S \subseteq {d \in Deployment : d[1] = pg}
  PROVE  IsFiniteSet(S) /\ Cardinality(S) \in Nat
<1>1. IsFiniteSet({pg}) /\ IsFiniteSet(1 .. MaxDeploy)
  <2>1. IsFiniteSet({pg})
    BY FS_Singleton
  <2>2. 1 \in Int /\ MaxDeploy \in Int
    BY CleanupAssumption
  <2>3. IsFiniteSet(1 .. MaxDeploy)
    BY <2>2, FS_Interval
  <2> QED  BY <2>1, <2>3
<1>2. IsFiniteSet({pg} \X (1 .. MaxDeploy))
  BY <1>1, FS_Product
<1>3. S \subseteq {pg} \X (1 .. MaxDeploy)
  BY DEF Deployment
<1> QED  BY <1>2, <1>3, FS_Subset, FS_CardinalityType

LEMMA NewerFew ==
  ASSUME TypeOK, NEW d \in Deployment
  PROVE  /\ IsFiniteSet(Newer(d)) /\ Cardinality(Newer(d)) \in Nat
         /\ IsFiniteSet(NewerSettled(d)) /\ Cardinality(NewerSettled(d)) \in Nat
         /\ Cardinality(NewerSettled(d)) <= Cardinality(Newer(d))
<1>1. d[1] \in Page /\ Newer(d) \subseteq {e \in Deployment : e[1] = d[1]}
  BY DEF TypeOK, Deployment, Newer, Inactive, RowsOf
<1>2. NewerSettled(d) \subseteq Newer(d)
  BY DEF NewerSettled
<1> QED  BY <1>1, <1>2, Few, FS_Subset

(* A set of deployments that is not empty has a newest one.                  *)
LEMMA Newest ==
  ASSUME NEW S, S \subseteq Deployment, S # {}
  PROVE  \E e \in S : \A f \in S : ~ (f[2] > e[2])
<1> DEFINE T == {MaxDeploy - e[2] : e \in S}
           R == OpToRel(<, Nat)
<1>1. T \subseteq Nat /\ T # {}
  BY CleanupAssumption DEF Deployment
<1>2. IsWellFoundedOn(R, Nat)
  BY NatLessThanWellFounded
<1>3. PICK x \in T : \A y \in T : ~ (<<y, x>> \in R)
  <2> HIDE DEF R, T
  <2> QED  BY <1>1, <1>2, WFMin
<1>4. PICK e \in S : x = MaxDeploy - e[2]
  BY <1>3
<1>5. ASSUME NEW f \in S, f[2] > e[2] PROVE FALSE
  <2>1. MaxDeploy - f[2] \in T /\ MaxDeploy - f[2] < x /\ MaxDeploy - f[2] \in Nat /\ x \in Nat
    BY <1>4, <1>5, <1>1, CleanupAssumption DEF Deployment
  <2> QED  BY <1>3, <2>1 DEF OpToRel
<1> QED  BY <1>5

(* Taking away rows that may go leaves Retention newer ones: the newest of   *)
(* those taken has as many that are not taken.                               *)
LEMMA StillNewer ==
  ASSUME TypeOK, NEW d \in rows, MayGo(d),
         NEW gone, \A e \in gone \cap RowsOf(d[1]) : MayGo(e)
  PROVE  Cardinality(Newer(d) \ gone) >= Retention
<1> DEFINE N == Newer(d)
<1>1. d \in Deployment /\ N \subseteq rows /\ N \subseteq RowsOf(d[1]) /\ N \subseteq Deployment
  BY DEF TypeOK, Newer, Inactive, RowsOf
<1>2. CASE N \cap gone = {}
  BY <1>2 DEF MayGo
<1>3. CASE N \cap gone # {}
  <2>1. PICK e \in N \cap gone : \A f \in N \cap gone : ~ (f[2] > e[2])
    BY <1>1, <1>3, Newest
  <2>2. e[1] = d[1] /\ e[2] > d[2] /\ e \in Deployment
    BY <1>1 DEF Newer, Inactive, RowsOf
  <2>3. Newer(e) \subseteq N \ gone
    BY <1>1, <2>1, <2>2 DEF Newer, Inactive, RowsOf, Deployment, TypeOK
  <2>4. Cardinality(Newer(e)) >= Retention
    BY <1>1, <2>1, <2>2 DEF MayGo
  <2>5. IsFiniteSet(N \ gone) /\ Cardinality(N \ gone) \in Nat
    <3>1. N \ gone \subseteq {f \in Deployment : f[1] = d[1]} /\ d[1] \in Page
      BY <1>1 DEF Deployment, RowsOf
    <3> QED  BY <3>1, Few
  <2>6. Cardinality(Newer(e)) <= Cardinality(N \ gone) /\ Cardinality(Newer(e)) \in Nat
    BY <2>2, <2>3, <2>5, FS_Subset, NewerFew
  <2> QED  BY <2>4, <2>5, <2>6, CleanupAssumption
<1> QED  BY <1>2, <1>3

(* While handlers are idle, none of them has a row to set apart.             *)
LEMMA IdleOwnsNothing ==
  ASSUME HandlersIdle, NEW d \in Deployment
  PROVE  NewerSettled(d) = Newer(d)
BY DEF HandlersIdle, NewerSettled, Own, Between, Deployment

(* The promise of retention follows.                                         *)
LEMMA KeptServes ==
  ASSUME CleanInv
  PROVE  RetainedServable
<1> SUFFICES ASSUME NEW pg \in Page, page[pg] = "live", NEW d \in RowsOf(pg) \cap recorded,
                    ~MayGo(d)
             PROVE  Servable(d)
  BY DEF RetainedServable
<1>1. d[1] = pg /\ d \in Deployment /\ TypeOK
  BY DEF RowsOf, CleanInv, Typed, TypeOK
<1>2. Kept(d)
  BY <1>1 DEF CleanInv
<1>3. Cardinality(NewerSettled(d)) \in Nat /\ Cardinality(Newer(d)) \in Nat
      /\ Cardinality(NewerSettled(d)) <= Cardinality(Newer(d))
  BY <1>1, NewerFew
<1> QED  BY <1>2, <1>3, CleanupAssumption DEF Kept, MayGo

(* At first there is nothing to keep.                                        *)
LEMMA CleanInit == Init => CleanInv
<1> SUFFICES ASSUME Init PROVE CleanInv
  OBVIOUS
<1>1. Apart /\ Known /\ recorded = {}
  BY DEF Init, Apart, WorkerIdle, Running, Known
<1>2. \A pg \in Page : Working(pg)
  BY DEF Init, Working, Between
<1>3. \A s \in Slot : Listed(s) /\ Purging(s) /\ Unshared(s)
  BY DEF Init, Listed, Purging, Unshared, Running
<1> QED  BY <1>1, <1>2, <1>3, TypedInit DEF CleanInv

-----------------------------------------------------------------------------
(* The worker.  No handler is busy while a job runs.                         *)
LEMMA IdleFrame ==
  ASSUME HandlersIdle, UNCHANGED console
  PROVE  /\ Apart' /\ \A pg \in Page : Working(pg)'
         /\ \A d \in Deployment :
               /\ Kept(d) <=> Servable(d) \/ MayGo(d)
               /\ Kept(d)' <=> Servable(d)' \/ MayGo(d)'
<1>1. HandlersIdle'
  BY DEF HandlersIdle, console
<1>2. \A pg \in Page : Working(pg)'
  BY <1>1 DEF HandlersIdle, Working, Between
<1>3. ASSUME NEW d \in Deployment
      PROVE  NewerSettled(d) = Newer(d) /\ NewerSettled(d)' = Newer(d)'
  BY <1>1, <1>3 DEF HandlersIdle, NewerSettled, Own, Between, Deployment
<1> QED  BY <1>1, <1>2, <1>3 DEF Apart, Kept, MayGo

(* A slot whose message and findings do not change.                          *)
LEMMA OtherSlots ==
  ASSUME CleanInv, NEW t \in Slot,
         jpc'[t] = jpc[t], job'[t] = job[t],
         doomedRows'[t] = doomedRows[t], doomed'[t] = doomed[t],
         rows' \subseteq rows, \A d \in rows' : tree'[d] = tree[d],
         \A pg \in Page : page'[pg] = "live" => page[pg] = "live",
         \A d \in rows' : page'[d[1]] = "live" /\ MayGo(d) => MayGo(d)'
  PROVE  Listed(t)' /\ Purging(t)' /\ Unshared(t)'
<1> USE DEF CleanInv
<1>0. jpc[t] # "none" => job[t][2] \in Page
  BY DEF Typed, Queued, Job
<1>1. Listed(t)'
  BY <1>0 DEF Listed
<1>2. Purging(t)'
  BY <1>0 DEF Purging, Running
<1>3. Unshared(t)'
  <2>1. StillReferenced(t)' \subseteq StillReferenced(t)
    BY DEF StillReferenced, Trees
  <2> QED  BY <2>1 DEF Unshared
<1> QED  BY <1>1, <1>2, <1>3

(* Steps that write neither the tables nor the bucket: they find out what to *)
(* delete, or end.                                                           *)
LEMMA FindingKeeps ==
  ASSUME CleanInv, Typed', NEW s \in Slot, Overlap = FALSE,
         \/ Deliver(s) \/ Guard(s) \/ ListRows(s) \/ ListCandidates(s)
         \/ DropReferenced(s) \/ Ack(s) \/ JobFails(s)
  PROVE  CleanInv'
<1> USE DEF database, storage, console, message, handler
<1>0. Typed /\ TypeOK /\ Known /\ (jpc[s] # "none" => job[s] \in Job)
  BY DEF CleanInv, Typed, Queued
<1>1. UNCHANGED <<database, storage, console>>
  BY DEF Deliver, Guard, ListRows, ListCandidates, DropReferenced, Ack, JobFails, Dispose
<1>2. HandlersIdle
  <2>1. CASE Deliver(s)
    BY <2>1 DEF Deliver
  <2>2. CASE ~Deliver(s)
    <3>1. jpc[s] \in Running
      BY <2>2 DEF Guard, ListRows, ListCandidates, DropReferenced, Ack, JobFails, Running
    <3> QED  BY <3>1 DEF CleanInv, Apart, WorkerIdle
  <2> QED  BY <2>1, <2>2
<1>3. Apart' /\ Known' /\ \A pg \in Page : Working(pg)'
  BY <1>0, <1>1, <1>2, IdleFrame DEF Known
<1>4. \A d \in recorded' : page'[d[1]] = "live" => Kept(d)'
  <2>1. \A d \in Deployment : Kept(d)' <=> Kept(d)
    BY <1>1 DEF Kept, Servable, NewerSettled, Newer, Inactive, RowsOf, Own
  <2> QED  BY <1>0, <1>1, <2>1 DEF CleanInv, TypeOK
<1>5. ASSUME NEW d PROVE MayGo(d)' <=> MayGo(d)
  BY <1>1 DEF MayGo, Newer, Inactive, RowsOf
<1>6. ASSUME NEW t \in Slot, t # s PROVE Listed(t)' /\ Purging(t)' /\ Unshared(t)'
  <2>1. jpc'[t] = jpc[t] /\ job'[t] = job[t]
        /\ doomedRows'[t] = doomedRows[t] /\ doomed'[t] = doomed[t]
    BY <1>0, <1>6 DEF TypeOK, Deliver, Guard, ListRows, ListCandidates, DropReferenced, Ack,
                      JobFails, Dispose, Step
  <2> QED  BY <1>1, <1>5, <2>1, OtherSlots
<1>7. Listed(s)' /\ Purging(s)' /\ Unshared(s)'
  <2>1. CASE Deliver(s)
    <3>1. jpc'[s] = (IF job[s][1] = "page_delete" THEN "guard" ELSE "list") /\ job'[s] = job[s]
      BY <1>0, <2>1 DEF Deliver, Step, TypeOK
    <3> QED  BY <3>1 DEF Listed, Purging, Unshared
  <2>2. CASE Guard(s)
    <3>1. job'[s] = job[s] /\ page' = page
          /\ \/ jpc'[s] = "ack"
             \/ jpc'[s] = "list" /\ page[job[s][2]] = "deleted"
      BY <1>0, <2>2 DEF Guard, Step, TypeOK
    <3> QED  BY <3>1 DEF Listed, Purging, Unshared
  <2>3. CASE ListRows(s)
    <3> DEFINE ds == IF job[s][1] = "page_delete" THEN RowsOf(job[s][2]) ELSE Expired(job[s][2])
    <3>1. /\ job'[s] = job[s] /\ page' = page /\ jpc[s] = "list"
          /\ jpc'[s] \in {"ack", "candidates"} /\ doomedRows'[s] = ds
      BY <1>0, <2>3 DEF ListRows, Step, TypeOK
    <3>2. Purging(s)
      BY DEF CleanInv
    <3>3. \A d \in ds : d[1] = job[s][2] /\ (page[d[1]] = "live" => MayGo(d))
      BY <3>1, <3>2 DEF Purging, Running, Expired, Inactive, RowsOf, MayGo
    <3> QED  BY <1>5, <3>1, <3>2, <3>3 DEF Listed, Purging, Unshared, Running
  <2>4. CASE ListCandidates(s)
    <3>1. jpc[s] = "candidates" /\ jpc'[s] = "referenced" /\ UNCHANGED <<job, doomedRows, page, rows>>
      BY <1>0, <2>4 DEF ListCandidates, Step, TypeOK
    <3> QED  BY <1>5, <3>1 DEF CleanInv, Listed, Purging, Unshared, Running
  <2>5. CASE DropReferenced(s)
    <3>1. /\ jpc[s] = "referenced" /\ jpc'[s] = "objects"
          /\ UNCHANGED <<job, doomedRows, page, rows, tree>>
          /\ doomed'[s] = cand[s] \ StillReferenced(s)
      BY <1>0, <2>5 DEF DropReferenced, Step, TypeOK
    <3>2. StillReferenced(s)' = StillReferenced(s)
      BY <3>1 DEF StillReferenced, Trees
    <3> QED  BY <1>5, <3>1, <3>2 DEF CleanInv, Listed, Purging, Unshared, Running
  <2>6. CASE Ack(s) \/ JobFails(s)
    <3>1. jpc'[s] \in {"none", "queued"}
      BY <1>0, <2>6 DEF Ack, JobFails, Dispose, Step, AfterFailure, TypeOK
    <3> QED  BY <3>1 DEF Listed, Purging, Unshared, Running
  <2> QED  BY <2>1, <2>2, <2>3, <2>4, <2>5, <2>6
<1> QED  BY <1>3, <1>4, <1>6, <1>7 DEF CleanInv

(* What a job deletes belongs to rows that may go, or to a page that is not  *)
(* live; what is kept is not damaged.                                        *)
LEMMA SparesKept ==
  ASSUME CleanInv, NEW s \in Slot, jpc[s] \in {"objects", "manifests"},
         NEW d \in recorded, page[d[1]] = "live", Servable(d), ~MayGo(d)
  PROVE  /\ d \notin doomedRows[s]
         /\ jpc[s] = "objects" => tree[d] \notin doomed[s]
<1>1. d \in rows
  BY DEF CleanInv, Known
<1>2. d \notin doomedRows[s]
  BY <1>1 DEF CleanInv, Listed
<1>3. tree[d] # NoHash
  BY CleanupAssumption DEF Servable, CleanInv, Typed, TypeOK
<1>4. tree[d] \in StillReferenced(s)
  BY <1>1, <1>2, <1>3 DEF StillReferenced, Trees
<1> QED  BY <1>2, <1>4 DEF CleanInv, Unshared

LEMMA DeletingKeeps ==
  ASSUME CleanInv, Typed', NEW s \in Slot,
         DeleteObjects(s) \/ DeleteManifests(s) \/ PartialDelete(s)
  PROVE  CleanInv'
<1> USE DEF database, storage, console, message, handler, worker
<1>0. Typed /\ TypeOK /\ Known
  BY DEF CleanInv, Typed
<1>1. UNCHANGED <<database, console, job, doomedRows, doomed>>
  BY DEF DeleteObjects, DeleteManifests, PartialDelete
<1>2. jpc[s] \in {"objects", "manifests"}
  BY DEF DeleteObjects, DeleteManifests, PartialDelete
<1>3. HandlersIdle
  BY <1>2 DEF CleanInv, Apart, WorkerIdle, Running
<1>4. Apart' /\ Known' /\ \A pg \in Page : Working(pg)'
  BY <1>0, <1>1, <1>3, IdleFrame DEF Known
<1>5. ASSUME NEW d PROVE MayGo(d)' <=> MayGo(d)
  BY <1>1 DEF MayGo, Newer, Inactive, RowsOf
<1>6. /\ manifests \ manifests' \subseteq doomedRows[s]
      /\ objects \ objects' \subseteq doomed[s]
      /\ objects' # objects => jpc[s] = "objects"
  BY DEF DeleteObjects, DeleteManifests, PartialDelete
<1>7. ASSUME NEW d \in recorded, page[d[1]] = "live" PROVE Kept(d)'
  <2>1. d \in Deployment /\ Kept(d)
    BY <1>0, <1>7 DEF CleanInv, TypeOK
  <2>2. CASE MayGo(d)
    BY <1>1, <1>3, <1>5, <2>1, <2>2, IdleFrame
  <2>3. CASE Servable(d) /\ ~MayGo(d)
    <3>1. d \notin doomedRows[s] /\ (jpc[s] = "objects" => tree[d] \notin doomed[s])
      BY <1>2, <1>7, <2>3, SparesKept
    <3>2. d \in manifests' /\ tree[d] \in objects'
      BY <1>6, <2>3, <3>1 DEF Servable
    <3>3. Servable(d)'
      BY <1>1, <2>3, <3>2 DEF Servable
    <3> QED  BY <3>3 DEF Kept
  <2> QED  BY <1>1, <1>3, <2>1, <2>2, <2>3, IdleFrame
<1>8. ASSUME NEW t \in Slot, jpc'[t] = jpc[t] PROVE Listed(t)' /\ Purging(t)' /\ Unshared(t)'
  BY <1>1, <1>5, <1>8, OtherSlots
<1>9. ASSUME NEW t \in Slot, jpc'[t] # jpc[t] PROVE Listed(t)' /\ Purging(t)' /\ Unshared(t)'
  <2>1. t = s /\ jpc'[s] \in {"manifests", "purge"}
    BY <1>0, <1>9 DEF DeleteObjects, DeleteManifests, PartialDelete, Step, TypeOK
  <2> QED  BY <1>1, <1>2, <1>5, <2>1 DEF CleanInv, Listed, Purging, Unshared, Running
<1> QED  BY <1>1, <1>4, <1>7, <1>8, <1>9 DEF CleanInv

(* The transaction that purges rows: who may go still may.                   *)
LEMMA PurgeKeeps ==
  ASSUME CleanInv, Typed', NEW s \in Slot, PurgeRows(s)
  PROVE  /\ CleanInv'
         /\ \A d \in rows \ rows' : page[d[1]] = "live" => MayGo(d)
<1> USE DEF database, storage, console, message, handler
<1>0. Typed /\ TypeOK /\ Known /\ Listed(s) /\ Purging(s)
  BY DEF CleanInv, Typed
<1>1. /\ jpc[s] = "purge" /\ freed[s] \cap Trees(rows \ doomedRows[s]) = {}
      /\ rows' = rows \ doomedRows[s] /\ active' = active \cap rows'
      /\ recorded' = recorded \cap rows' /\ blobs' = blobs \ freed[s]
      /\ \A d \in rows' : tree'[d] = tree[d]
      /\ UNCHANGED <<page, made, storage, console, message, handler>>
  BY <1>0 DEF PurgeRows, TypeOK
<1>2. HandlersIdle
  BY <1>1 DEF CleanInv, Apart, WorkerIdle, Running
<1>3. Apart' /\ Known' /\ \A pg \in Page : Working(pg)'
  BY <1>0, <1>1, <1>2, IdleFrame DEF Known
<1>4. \A d \in doomedRows[s] \cap rows : page[d[1]] = "live" => MayGo(d)
  BY <1>0, <1>1 DEF Listed
<1>5. ASSUME NEW d \in rows', page[d[1]] = "live", MayGo(d) PROVE MayGo(d)'
  <2>1. Newer(d)' = Newer(d) \ doomedRows[s]
    BY <1>1 DEF Newer, Inactive, RowsOf
  <2>2. \A e \in doomedRows[s] \cap RowsOf(d[1]) : MayGo(e)
    BY <1>4, <1>5 DEF RowsOf
  <2>3. Cardinality(Newer(d) \ doomedRows[s]) >= Retention
    BY <1>0, <1>1, <1>5, <2>2, StillNewer
  <2> QED  BY <1>1, <1>5, <2>1, <2>3 DEF MayGo
<1>6. ASSUME NEW d \in recorded', page'[d[1]] = "live" PROVE Kept(d)'
  <2>1. d \in recorded /\ d \in rows' /\ d \in Deployment /\ page[d[1]] = "live"
    BY <1>0, <1>1, <1>6 DEF TypeOK
  <2>2. Kept(d) /\ (Kept(d) <=> Servable(d) \/ MayGo(d)) /\ (MayGo(d)' => Kept(d)')
    BY <1>1, <1>2, <2>1, IdleFrame DEF CleanInv
  <2>3. CASE MayGo(d)
    BY <1>5, <2>1, <2>2, <2>3
  <2>4. CASE Servable(d)
    <3>1. tree[d] # NoHash
      BY <1>0, <2>4, CleanupAssumption DEF Servable, TypeOK
    <3>2. tree[d] \notin freed[s]
      BY <1>1, <2>1, <3>1 DEF Trees
    <3>3. Servable(d)'
      BY <1>1, <2>1, <2>4, <3>2 DEF Servable
    <3> QED  BY <3>3 DEF Kept
  <2> QED  BY <2>2, <2>3, <2>4
<1>7. ASSUME NEW t \in Slot, t # s PROVE Listed(t)' /\ Purging(t)' /\ Unshared(t)'
  <2>1. jpc'[t] = jpc[t]
    BY <1>0, <1>7 DEF PurgeRows, Step, TypeOK
  <2> QED  BY <1>1, <1>5, <2>1, OtherSlots
<1>8. Listed(s)' /\ Purging(s)' /\ Unshared(s)'
  <2>1. jpc'[s] = (IF job[s][1] = "page_delete" THEN "page" ELSE "ack")
    BY <1>0 DEF PurgeRows, Step, TypeOK
  <2> QED  BY <1>0, <1>1, <2>1 DEF Listed, Purging, Unshared, Running
<1> QED  BY <1>1, <1>3, <1>4, <1>6, <1>7, <1>8 DEF CleanInv

(* The page row goes, and what is left of its deployments.                   *)
LEMMA HardDeleteKeeps ==
  ASSUME CleanInv, Typed', NEW s \in Slot, HardDelete(s)
  PROVE  /\ CleanInv'
         /\ \A d \in rows \ rows' : page[d[1]] # "live"
<1> USE DEF database, storage, console, message, handler
<1> DEFINE pg == job[s][2]
<1>0. Typed /\ TypeOK /\ Known /\ Purging(s) /\ jpc[s] = "page" /\ pg \in Page
  BY DEF CleanInv, Typed, Queued, HardDelete, Job
<1>1. page[pg] # "live"
  BY <1>0 DEF Purging, Running
<1>2. /\ rows' = rows \ RowsOf(pg) /\ active' = active \cap rows'
      /\ recorded' = recorded \cap rows' /\ page' = [page EXCEPT ![pg] = "gone"]
      /\ \A d \in rows' : tree'[d] = tree[d]
      /\ UNCHANGED <<made, blobs, storage, console, message, handler>>
  BY <1>0 DEF HardDelete, TypeOK
<1>3. HandlersIdle
  BY <1>0 DEF CleanInv, Apart, WorkerIdle, Running
<1>4. Apart' /\ Known' /\ \A p \in Page : Working(p)'
  BY <1>0, <1>2, <1>3, IdleFrame DEF Known
<1>5. ASSUME NEW d \in rows' PROVE d[1] # pg /\ page'[d[1]] = page[d[1]] /\ (MayGo(d)' <=> MayGo(d))
  <2>1. d[1] # pg /\ d[1] \in Page
    BY <1>0, <1>2, <1>5 DEF RowsOf, TypeOK, Deployment
  <2>2. Newer(d)' = Newer(d)
    BY <1>2, <2>1 DEF Newer, Inactive, RowsOf
  <2> QED  BY <1>0, <1>2, <1>5, <2>1, <2>2 DEF MayGo, TypeOK
<1>6. ASSUME NEW d \in recorded', page'[d[1]] = "live" PROVE Kept(d)'
  <2>1. d \in recorded /\ d \in rows' /\ d \in Deployment /\ page[d[1]] = "live"
    BY <1>0, <1>2, <1>5, <1>6 DEF TypeOK
  <2>2. Servable(d) => Servable(d)'
    BY <1>2, <2>1 DEF Servable
  <2>3. MayGo(d) => MayGo(d)'
    BY <1>5, <2>1
  <2> QED  BY <1>2, <1>3, <2>1, <2>2, <2>3, IdleFrame DEF CleanInv
<1>7. \A p \in Page : page'[p] = "live" => page[p] = "live"
  BY <1>0, <1>2 DEF TypeOK
<1>8. ASSUME NEW t \in Slot, t # s PROVE Listed(t)' /\ Purging(t)' /\ Unshared(t)'
  <2>1. jpc'[t] = jpc[t]
    BY <1>0, <1>8 DEF HardDelete, Step, TypeOK
  <2> QED  BY <1>2, <1>5, <1>7, <2>1, OtherSlots
<1>9. Listed(s)' /\ Purging(s)' /\ Unshared(s)'
  <2>1. jpc'[s] = "ack"
    BY <1>0 DEF HardDelete, Step, TypeOK
  <2> QED  BY <2>1 DEF Listed, Purging, Unshared, Running
<1>10. \A d \in rows \ rows' : page[d[1]] # "live"
  BY <1>1, <1>2 DEF RowsOf
<1> QED  BY <1>4, <1>6, <1>8, <1>9, <1>10 DEF CleanInv

-----------------------------------------------------------------------------
(* The console.                                                              *)

(* A deployment that stays as it is, with at least as many newer ones.       *)
LEMMA KeptStays ==
  ASSUME TypeOK, TypeOK', NEW d \in Deployment, Kept(d),
         Servable(d) => Servable(d)',
         ~Servable(d) /\ d \notin active => d \notin active',
         NewerSettled(d) \subseteq NewerSettled(d)'
  PROVE  Kept(d)'
<1>1. NewerSettled(d)' \subseteq {e \in Deployment : e[1] = d[1]} /\ d[1] \in Page
  BY DEF TypeOK, Deployment, NewerSettled, Newer, Inactive, RowsOf
<1>2. IsFiniteSet(NewerSettled(d)') /\ Cardinality(NewerSettled(d)') \in Nat
  BY <1>1, Few
<1>3. /\ Cardinality(NewerSettled(d)) <= Cardinality(NewerSettled(d)')
      /\ Cardinality(NewerSettled(d)) \in Nat
  BY <1>2, FS_Subset, NewerFew
<1> QED  BY <1>2, <1>3, CleanupAssumption DEF Kept

(* A handler that ends, with or without a job sent, and a delete leave       *)
(* tables and bucket alone but for the page's mark.                          *)
LEMMA EndKeeps ==
  ASSUME CleanInv, Typed', NEW pg \in Page,
         End(pg) \/ UNCHANGED <<hpc, target, file>>,
         UNCHANGED <<made, rows, tree, recorded, active, blobs, storage, doomedRows, doomed>>,
         \A p \in Page : page'[p] = "live" => page[p] = "live",
         \A s \in Slot : \/ jpc'[s] = jpc[s] /\ job'[s] = job[s]
                         \/ jpc'[s] = "queued"
  PROVE  CleanInv'
<1> USE DEF storage
<1>0. TypeOK /\ TypeOK' /\ Known
  BY DEF CleanInv, Typed
<1>1. /\ hpc'[pg] = "idle" \/ UNCHANGED <<hpc, target, file>>
      /\ \A p \in Page \ {pg} : hpc'[p] = hpc[p] /\ target'[p] = target[p] /\ file'[p] = file[p]
  BY <1>0 DEF End, Goto, TypeOK
<1>2. Apart'
  BY <1>1 DEF CleanInv, Apart, WorkerIdle, HandlersIdle, Running
<1>3. ASSUME NEW p \in Page PROVE Working(p)'
  BY <1>1 DEF CleanInv, Working, Between
<1>4. ASSUME NEW d \in recorded', page'[d[1]] = "live" PROVE Kept(d)'
  <2>1. d \in Deployment /\ d[1] \in Page /\ Kept(d)
    BY <1>0, <1>4 DEF CleanInv, TypeOK, Deployment
  <2>2. Servable(d) => Servable(d)'
    BY DEF Servable
  <2>3. Newer(d)' = Newer(d) /\ Own(d[1])' \subseteq Own(d[1])
    BY <1>1, <2>1 DEF Newer, Inactive, RowsOf, Own, Between
  <2> QED  BY <1>0, <2>1, <2>2, <2>3, KeptStays DEF NewerSettled
<1>5. ASSUME NEW s \in Slot PROVE Listed(s)' /\ Purging(s)' /\ Unshared(s)'
  <2>1. CASE jpc'[s] = "queued"
    BY <2>1 DEF Listed, Purging, Unshared, Running
  <2>2. CASE jpc'[s] = jpc[s] /\ job'[s] = job[s]
    <3>1. \A d \in rows' : MayGo(d) => MayGo(d)'
      BY DEF MayGo, Newer, Inactive, RowsOf
    <3> QED  BY <2>2, <3>1, OtherSlots
  <2> QED  BY <2>1, <2>2
<1>6. Known'
  BY <1>0 DEF Known
<1> QED  BY <1>2, <1>3, <1>4, <1>5, <1>6 DEF CleanInv

(* A handler that goes on while no job runs: what it leaves to other pages   *)
(* is at least what they had.                                                *)
LEMMA StepKeeps ==
  ASSUME CleanInv, Typed', NEW pg \in Page, WorkerIdle, UNCHANGED <<worker, page>>,
         \A p \in Page \ {pg} : hpc'[p] = hpc[p] /\ target'[p] = target[p] /\ file'[p] = file[p],
         objects \subseteq objects', manifests \subseteq manifests', blobs \subseteq blobs',
         \A d \in Deployment : d[1] # pg =>
             /\ d \in rows' <=> d \in rows
             /\ d \in active' <=> d \in active
             /\ d \in recorded' <=> d \in recorded
             /\ tree'[d] = tree[d],
         Known', Working(pg)',
         \A d \in recorded' : d[1] = pg /\ page[pg] = "live" => Kept(d)'
  PROVE  CleanInv'
<1> USE DEF worker, message, handler
<1>0. TypeOK /\ TypeOK' /\ WorkerIdle'
  BY DEF CleanInv, Typed, WorkerIdle
<1>1. ASSUME NEW p \in Page, p # pg PROVE Working(p)'
  <2>1. Working(p)
    BY DEF CleanInv
  <2>2. hpc[p] \in Between => target[p] \in Deployment /\ target[p][1] = p
    BY <1>0, <2>1 DEF Working, TypeOK
  <2> QED  BY <1>1, <2>1, <2>2 DEF Working, Between
<1>2. ASSUME NEW d \in recorded', page'[d[1]] = "live", d[1] # pg PROVE Kept(d)'
  <2>1. d \in Deployment /\ d[1] \in Page /\ Kept(d)
    BY <1>0, <1>2 DEF CleanInv, TypeOK, Deployment
  <2>2. Servable(d) => Servable(d)'
    BY <1>2, <2>1 DEF Servable
  <2>3. Inactive(d[1])' = Inactive(d[1])
    BY <1>0, <1>2 DEF Inactive, RowsOf, TypeOK
  <2>4. NewerSettled(d)' = NewerSettled(d)
    BY <1>2, <2>1, <2>3 DEF NewerSettled, Newer, Own
  <2> QED  BY <1>0, <1>2, <2>1, <2>2, <2>4, KeptStays
<1>3. \A s \in Slot : Listed(s)' /\ Purging(s)' /\ Unshared(s)'
  BY <1>0 DEF WorkerIdle, Running, Listed, Purging, Unshared
<1> QED  BY <1>0, <1>1, <1>2, <1>3 DEF CleanInv, Apart

(* While a handler is busy no job runs.                                      *)
LEMMA BusyAlone ==
  ASSUME CleanInv, NEW pg \in Page, hpc[pg] \notin {"idle", "enqueue"}
  PROVE  WorkerIdle
BY DEF CleanInv, Apart, HandlersIdle

(* Uploading, reading and storing an object.                                 *)
LEMMA StoringKeeps ==
  ASSUME CleanInv, Typed', Overlap = FALSE, NEW pg \in Page,
         \/ \E h \in Hash : Prepare(pg, h)
         \/ ReadBlob(pg) /\ file[pg] \in objects
         \/ StoreBlob(pg) \/ InsertBlob(pg)
  PROVE  CleanInv'
<1> USE DEF database, storage
<1>0. TypeOK /\ TypeOK' /\ Known /\ Roomy(pg) /\ Working(pg)
  BY DEF CleanInv, Typed
<1>1. WorkerIdle /\ UNCHANGED <<worker, page, made, rows, active, recorded, tree, manifests>>
  <2>1. CASE \E h \in Hash : Prepare(pg, h)
    BY <2>1 DEF Prepare
  <2>2. CASE ~ \E h \in Hash : Prepare(pg, h)
    <3>1. hpc[pg] \in {"read", "store", "blob"}
      BY <2>2 DEF ReadBlob, StoreBlob, InsertBlob
    <3>2. WorkerIdle
      BY <3>1, BusyAlone
    <3> QED  BY <2>2, <3>2 DEF ReadBlob, StoreBlob, InsertBlob
  <2> QED  BY <2>1, <2>2
<1>2. objects \subseteq objects' /\ blobs \subseteq blobs'
  BY DEF Prepare, ReadBlob, StoreBlob, InsertBlob
<1>3. \A p \in Page \ {pg} : hpc'[p] = hpc[p] /\ target'[p] = target[p] /\ file'[p] = file[p]
  BY <1>0 DEF Prepare, ReadBlob, StoreBlob, InsertBlob, Goto, TypeOK
<1>4. /\ hpc[pg] \in {"idle", "read", "store", "blob"}
      /\ hpc'[pg] \in {"read", "store", "blob", "insert"}
  BY <1>0 DEF Prepare, ReadBlob, StoreBlob, InsertBlob, Goto, TypeOK
<1>5. Working(pg)'
  <2>1. CASE hpc'[pg] = "blob"
    <3>1. StoreBlob(pg)
      BY <1>0, <2>1 DEF Prepare, ReadBlob, StoreBlob, InsertBlob, Goto, TypeOK
    <3> QED  BY <1>0, <2>1, <3>1 DEF StoreBlob, HasObject, Roomy, Working, Between
  <2>2. CASE hpc'[pg] = "insert"
    <3>1. InsertBlob(pg)
      BY <1>0, <2>2 DEF Prepare, ReadBlob, StoreBlob, InsertBlob, Goto, TypeOK
    <3> QED  BY <1>0, <2>2, <3>1 DEF InsertBlob, Working, Between
  <2> QED  BY <1>4, <2>1, <2>2 DEF Working, Between
<1>6. ASSUME NEW d \in recorded', d[1] = pg, page[pg] = "live" PROVE Kept(d)'
  <2>1. d \in Deployment /\ Kept(d)
    BY <1>0, <1>1, <1>6 DEF CleanInv, TypeOK
  <2>2. Servable(d) => Servable(d)'
    BY <1>1, <1>2 DEF Servable
  <2>3. Own(d[1]) = {} /\ Own(d[1])' = {}
    BY <1>4, <1>6 DEF Own, Between
  <2>4. NewerSettled(d)' = NewerSettled(d)
    BY <1>1, <2>3 DEF NewerSettled, Newer, Inactive, RowsOf
  <2> QED  BY <1>0, <1>1, <2>1, <2>2, <2>4, KeptStays
<1>7. Known'
  BY <1>0, <1>1 DEF Known
<1> QED  BY <1>1, <1>2, <1>3, <1>5, <1>6, <1>7, StepKeeps

(* The row of the deployment: nothing refers to it yet, and it counts for    *)
(* nobody until it is known whether it becomes the active one.               *)
LEMMA InsertRowKeeps ==
  ASSUME CleanInv, Typed', NEW pg \in Page, InsertRow(pg), page[pg] # "gone"
  PROVE  CleanInv'
<1> DEFINE new == <<pg, made[pg] + 1>>
<1> USE DEF storage
<1>0. TypeOK /\ TypeOK' /\ Known /\ Working(pg) /\ hpc[pg] = "insert"
  BY DEF CleanInv, Typed, InsertRow
<1>1. /\ made' = [made EXCEPT ![pg] = made[pg] + 1] /\ rows' = rows \cup {new}
      /\ hpc'[pg] = "tree" /\ target'[pg] = new /\ file'[pg] = file[pg]
      /\ \A p \in Page \ {pg} : hpc'[p] = hpc[p] /\ target'[p] = target[p] /\ file'[p] = file[p]
      /\ UNCHANGED <<page, tree, recorded, active, blobs, storage, worker>>
  BY <1>0 DEF InsertRow, Goto, TypeOK
<1>2. new[1] = pg /\ new[2] = made[pg] + 1 /\ made[pg] \in Nat /\ new \in rows'
  BY <1>0, <1>1, CleanupAssumption DEF TypeOK
<1> HIDE DEF new
<1>3. new \notin rows
  BY <1>0, <1>2 DEF Known
<1>4. WorkerIdle
  BY <1>0, BusyAlone
<1>5. Known'
  <2>1. ASSUME NEW d \in rows PROVE d[2] <= made'[d[1]]
    <3>1. d[1] \in Page /\ d[2] \in Nat /\ d[2] <= made[d[1]]
      BY <1>0, <2>1, CleanupAssumption DEF Known, TypeOK, Deployment
    <3> QED  BY <1>0, <1>1, <1>2, <3>1, CleanupAssumption DEF TypeOK
  <2>2. new[2] <= made'[new[1]]
    BY <1>0, <1>1, <1>2 DEF TypeOK
  <2> QED  BY <1>0, <1>1, <2>1, <2>2 DEF Known
<1>6. Working(pg)'
  BY <1>0, <1>1, <1>2, <1>3 DEF Working, Between, Known, TypeOK
<1>7. ASSUME NEW d \in recorded', d[1] = pg, page[pg] = "live" PROVE Kept(d)'
  <2>1. d \in Deployment /\ Kept(d)
    BY <1>0, <1>1, <1>7 DEF CleanInv, TypeOK
  <2>2. Servable(d) => Servable(d)'
    BY <1>1 DEF Servable
  <2>3. Own(pg) = {} /\ Own(pg)' = {new}
    BY <1>0, <1>1 DEF Own, Between
  <2>4. NewerSettled(d) \subseteq NewerSettled(d)'
    BY <1>1, <1>3, <1>7, <2>3 DEF NewerSettled, Newer, Inactive, RowsOf
  <2> QED  BY <1>0, <1>1, <2>1, <2>2, <2>4, KeptStays
<1>8. \A d \in Deployment : d[1] # pg => (d \in rows' <=> d \in rows)
  BY <1>1, <1>2
<1> QED  BY <1>1, <1>4, <1>5, <1>6, <1>7, <1>8, StepKeeps

(* The tree of a deployment that has no manifest yet.                        *)
LEMMA InsertTreeKeeps ==
  ASSUME CleanInv, Typed', NEW pg \in Page, InsertTree(pg),
         target[pg] \in rows /\ file[pg] \in blobs
  PROVE  CleanInv'
<1> DEFINE new == target[pg]
<1> USE DEF storage
<1>0. TypeOK /\ TypeOK' /\ Known /\ Working(pg) /\ hpc[pg] = "tree"
  BY DEF CleanInv, Typed, InsertTree
<1>1. /\ tree' = [tree EXCEPT ![new] = file[pg]]
      /\ hpc'[pg] = "manifest" /\ UNCHANGED <<target, file>>
      /\ \A p \in Page \ {pg} : hpc'[p] = hpc[p]
      /\ UNCHANGED <<page, made, rows, recorded, active, blobs, storage, worker>>
  BY <1>0 DEF InsertTree, Goto, TypeOK
<1>2. new \in rows \ active /\ new[1] = pg /\ new \notin recorded /\ new \in Deployment
  BY <1>0 DEF Working, Between, TypeOK
<1>3. WorkerIdle
  BY <1>0, BusyAlone
<1>4. \A d \in Deployment : d # new => tree'[d] = tree[d]
  BY <1>0, <1>1 DEF TypeOK
<1>5. Working(pg)'
  BY <1>0, <1>1, <1>2 DEF Working, Between, TypeOK
<1>6. ASSUME NEW d \in recorded', d[1] = pg, page[pg] = "live" PROVE Kept(d)'
  <2>1. d \in Deployment /\ d # new /\ Kept(d)
    BY <1>0, <1>1, <1>2, <1>6 DEF CleanInv, TypeOK
  <2>2. Servable(d) => Servable(d)'
    BY <1>1, <1>4, <2>1 DEF Servable
  <2>3. Own(pg)' = Own(pg)
    BY <1>0, <1>1 DEF Own, Between
  <2>4. NewerSettled(d)' = NewerSettled(d)
    BY <1>1, <1>6, <2>3 DEF NewerSettled, Newer, Inactive, RowsOf
  <2> QED  BY <1>0, <1>1, <2>1, <2>2, <2>4, KeptStays
<1>7. Known'
  BY <1>0, <1>1 DEF Known
<1> QED  BY <1>1, <1>2, <1>3, <1>4, <1>5, <1>6, <1>7, StepKeeps

(* The manifest completes the deployment.                                    *)
LEMMA PersistManifestKeeps ==
  ASSUME CleanInv, Typed', NEW pg \in Page, PersistManifest(pg),
         hpc' = [hpc EXCEPT ![pg] = "activate"], UNCHANGED <<target, file>>
  PROVE  CleanInv'
<1> DEFINE new == target[pg]
<1>0. TypeOK /\ TypeOK' /\ Known /\ Working(pg) /\ hpc[pg] = "manifest"
  BY DEF CleanInv, Typed, PersistManifest
<1>1. hpc'[pg] = "activate" /\ \A p \in Page \ {pg} : hpc'[p] = hpc[p]
  BY <1>0 DEF TypeOK
<1>2. new \in rows \ active /\ new[1] = pg /\ tree[new] = file[pg]
      /\ file[pg] \in objects \cap blobs
  BY <1>0 DEF Working, Between
<1>3. /\ recorded' = recorded \cup {new} /\ manifests' = manifests \cup {new}
      /\ UNCHANGED <<page, made, rows, tree, active, blobs, objects, worker>>
  BY <1>1, <1>2 DEF PersistManifest, End, Goto
<1>4. WorkerIdle
  BY <1>0, BusyAlone
<1>5. Working(pg)'
  BY <1>0, <1>1, <1>2, <1>3 DEF Working, Between
<1>6. ASSUME NEW d \in recorded', d[1] = pg, page[pg] = "live" PROVE Kept(d)'
  <2>1. CASE d = new
    BY <1>2, <1>3, <2>1 DEF Kept, Servable
  <2>2. CASE d # new
    <3>1. d \in Deployment /\ Kept(d)
      BY <1>0, <1>3, <1>6, <2>2 DEF CleanInv, TypeOK
    <3>2. Servable(d) => Servable(d)'
      BY <1>3 DEF Servable
    <3>3. Own(pg)' = Own(pg)
      BY <1>0, <1>1 DEF Own, Between
    <3>4. NewerSettled(d)' = NewerSettled(d)
      BY <1>3, <1>6, <3>3 DEF NewerSettled, Newer, Inactive, RowsOf
    <3> QED  BY <1>0, <1>3, <3>1, <3>2, <3>4, KeptStays
  <2> QED  BY <2>1, <2>2
<1>7. Known'
  BY <1>0, <1>2, <1>3 DEF Known
<1> QED  BY <1>1, <1>2, <1>3, <1>4, <1>5, <1>6, <1>7, StepKeeps

(* The activation: the row that becomes active was not counted, the one that *)
(* was active is complete.                                                   *)
LEMMA ActivateKeeps ==
  ASSUME CleanInv, Typed', NEW pg \in Page, Activate(pg),
         target[pg] \in rows, ~Fenced(pg)
  PROVE  CleanInv'
<1> DEFINE new == target[pg]
<1> USE DEF storage
<1>0. TypeOK /\ TypeOK' /\ Known /\ Working(pg) /\ hpc[pg] = "activate"
  BY DEF CleanInv, Typed, Activate
<1>1. /\ active' = (active \ RowsOf(pg)) \cup {new}
      /\ hpc'[pg] = "enqueue" /\ UNCHANGED <<target, file>>
      /\ \A p \in Page \ {pg} : hpc'[p] = hpc[p]
      /\ UNCHANGED <<page, made, rows, tree, recorded, blobs, storage, worker>>
  BY <1>0 DEF Activate, Goto, TypeOK
<1>2. new \in rows \ active /\ new[1] = pg /\ tree[new] = file[pg]
      /\ file[pg] \in objects \cap blobs /\ new \in manifests
  BY <1>0 DEF Working, Between
<1>3. WorkerIdle
  BY <1>0, BusyAlone
<1>4. Working(pg)'
  BY <1>1 DEF Working, Between
<1>5. ASSUME NEW d \in recorded', d[1] = pg, page[pg] = "live" PROVE Kept(d)'
  <2>1. CASE d = new
    BY <1>1, <1>2, <2>1 DEF Kept, Servable
  <2>2. CASE d # new
    <3>1. d \in Deployment /\ Kept(d)
      BY <1>0, <1>1, <1>5 DEF CleanInv, TypeOK
    <3>2. Servable(d) => Servable(d)'
      BY <1>1 DEF Servable
    <3>3. d \notin active => d \notin active'
      BY <1>1, <2>2
    <3>4. Own(pg) = {new} /\ Own(pg)' = {}
      BY <1>0, <1>1 DEF Own, Between
    <3>5. NewerSettled(d) \subseteq NewerSettled(d)'
      BY <1>1, <1>5, <3>4 DEF NewerSettled, Newer, Inactive, RowsOf
    <3> QED  BY <1>0, <3>1, <3>2, <3>3, <3>5, KeptStays
  <2> QED  BY <2>1, <2>2
<1>6. Known'
  BY <1>0, <1>1 DEF Known
<1>7. \A d \in Deployment : d[1] # pg => (d \in active' <=> d \in active)
  BY <1>1, <1>2 DEF RowsOf
<1> QED  BY <1>1, <1>3, <1>4, <1>5, <1>6, <1>7, StepKeeps

(* Every step of a handler keeps the invariant.                              *)
LEMMA ConsoleKeeps ==
  ASSUME CleanInv, Typed', Overlap = FALSE, NEW pg \in Page,
         \/ \E h \in Hash : Prepare(pg, h)
         \/ SoftDelete(pg) \/ DeleteStep(pg) \/ ConsoleStep(pg)
  PROVE  CleanInv'
<1> USE DEF database, storage, worker, message, handler
<1>0. TypeOK
  BY DEF CleanInv, Typed
<1>1. CASE End(pg) /\ UNCHANGED <<database, storage, worker>>
  BY <1>1, EndKeeps
<1>2. CASE SoftDelete(pg) \/ DeleteStep(pg)
  BY <1>0, <1>2, DeleteMarks, EndKeeps
<1>3. CASE Enqueue(pg)
  <2>1. \A s \in Slot : \/ jpc'[s] = jpc[s] /\ job'[s] = job[s]
                        \/ jpc'[s] = "queued"
    BY <1>3 DEF Enqueue, Send
  <2> QED  BY <1>3, <2>1, EndKeeps DEF Enqueue
<1>4. CASE PersistManifest(pg)
  <2>1. CASE hpc' = [hpc EXCEPT ![pg] = "activate"] /\ UNCHANGED <<target, file>>
    BY <1>4, <2>1, PersistManifestKeeps
  <2>2. CASE End(pg) /\ UNCHANGED <<manifests, recorded>>
    BY <1>1, <1>4, <2>2 DEF PersistManifest
  <2> QED  BY <1>4, <2>1, <2>2 DEF PersistManifest, Goto
<1>5. CASE InsertRow(pg)
  BY <1>1, <1>5, InsertRowKeeps DEF InsertRow
<1>6. CASE InsertTree(pg)
  BY <1>1, <1>6, InsertTreeKeeps DEF InsertTree
<1>7. CASE Activate(pg)
  BY <1>1, <1>7, ActivateKeeps DEF Activate
<1>8. CASE ReadBlob(pg)
  BY <1>1, <1>8, StoringKeeps DEF ReadBlob
<1>9. CASE ConsoleFails(pg)
  BY <1>1, <1>9 DEF ConsoleFails
<1>10. CASE (\E h \in Hash : Prepare(pg, h)) \/ StoreBlob(pg) \/ InsertBlob(pg)
  BY <1>10, StoringKeeps
<1> QED
  BY <1>2, <1>3, <1>4, <1>5, <1>6, <1>7, <1>8, <1>9, <1>10 DEF ConsoleStep

(* Jobs that do not overlap with handlers, and no rollbacks: the invariant   *)
(* holds throughout.                                                         *)
LEMMA CleanStep ==
  ASSUME Overlap = FALSE, "rollback" \notin Handlers, CleanInv, [Next]_vars
  PROVE  CleanInv'
<1>1. Typed /\ Typed'
  BY TypedStep DEF CleanInv
<1>2. CASE UNCHANGED vars
  <2> USE <1>2 DEF vars, database, storage, console, worker, message, handler
  <2>1. Apart' /\ Known' /\ \A pg \in Page : Working(pg)'
    BY DEF CleanInv, Apart, WorkerIdle, HandlersIdle, Known, Working
  <2>2. \A d \in recorded' : page'[d[1]] = "live" => Kept(d)'
    BY DEF CleanInv, Kept, Servable, NewerSettled, Newer, Inactive, RowsOf, Own
  <2>3. \A s \in Slot : Listed(s)' /\ Purging(s)' /\ Unshared(s)'
    BY DEF CleanInv, Listed, Purging, Unshared, MayGo, Newer, Inactive, RowsOf,
           StillReferenced, Trees
  <2> QED  BY <1>1, <2>1, <2>2, <2>3 DEF CleanInv
<1>3. ASSUME NEW pg \in Page,
             \/ \E h \in Hash : Prepare(pg, h)
             \/ SoftDelete(pg) \/ DeleteStep(pg) \/ ConsoleStep(pg)
      PROVE  CleanInv'
  BY <1>1, <1>3, ConsoleKeeps
<1>4. ASSUME NEW s \in Slot, WorkerStep(s) \/ PartialDelete(s)
      PROVE  CleanInv'
  BY <1>1, <1>4, FindingKeeps, DeletingKeeps, PurgeKeeps, HardDeleteKeeps DEF WorkerStep
<1>5. \A pg \in Page, d \in Deployment : ~RollbackStart(pg, d)
  BY DEF RollbackStart
<1> QED  BY <1>2, <1>3, <1>4, <1>5 DEF Next

LEMMA CleanInvAlways ==
  ASSUME Overlap = FALSE, "rollback" \notin Handlers
  PROVE  Spec => []CleanInv
<1>1. CleanInv /\ [Next]_vars => CleanInv'
  BY CleanStep
<1> QED  BY <1>1, CleanInit, PTL DEF Spec

(* What a page serves, or may be rolled back to, is complete, however often  *)
(* jobs are delivered, at the same time, half done or given up, and whatever *)
(* objects pages share, as long as jobs and handlers take turns.             *)
THEOREM RetainedServableHolds ==
  ASSUME Overlap = FALSE, "rollback" \notin Handlers
  PROVE  Spec => []RetainedServable
<1> QED  BY CleanInvAlways, KeptServes, PTL

(* Rows go by purges and hard deletes only.                                  *)
LEMMA OnlyPurges ==
  ASSUME CleanInv, Overlap = FALSE, "rollback" \notin Handlers, [Next]_vars
  PROVE  \A d \in rows \ rows' : page[d[1]] = "live" => MayGo(d)
<1> USE DEF database, storage, console, worker, message, handler
<1>1. Typed'
  BY TypedStep DEF CleanInv
<1>2. CASE UNCHANGED vars
  BY <1>2 DEF vars
<1>3. ASSUME NEW pg \in Page,
             \/ \E h \in Hash : Prepare(pg, h)
             \/ SoftDelete(pg) \/ DeleteStep(pg) \/ ConsoleStep(pg)
      PROVE  rows \subseteq rows'
  BY <1>3 DEF Prepare, SoftDelete, DeleteStep, EnqueueDelete, DeleteFails, ConsoleStep, ReadBlob,
              StoreBlob, InsertBlob, InsertRow, InsertTree, PersistManifest, Activate, Enqueue,
              ConsoleFails
<1>4. ASSUME NEW s \in Slot, WorkerStep(s) \/ PartialDelete(s), ~PurgeRows(s), ~HardDelete(s)
      PROVE  rows \subseteq rows'
  BY <1>4 DEF WorkerStep, Deliver, Guard, ListRows, ListCandidates, DropReferenced,
              DeleteObjects, DeleteManifests, Ack, JobFails, Dispose, PartialDelete
<1>5. ASSUME NEW s \in Slot, PurgeRows(s) \/ HardDelete(s)
      PROVE  \A d \in rows \ rows' : page[d[1]] = "live" => MayGo(d)
  BY <1>1, <1>5, PurgeKeeps, HardDeleteKeeps
<1>6. \A pg \in Page, d \in Deployment : ~RollbackStart(pg, d)
  BY DEF RollbackStart
<1> QED  BY <1>2, <1>3, <1>4, <1>5, <1>6 DEF Next

(* A row of a live page goes only when it is inactive and Retention newer    *)
(* inactive ones remain, although it was listed long before it is purged.    *)
THEOREM PurgedWasExpiredHolds ==
  ASSUME Overlap = FALSE, "rollback" \notin Handlers
  PROVE  Spec => PurgedWasExpired
<1>1. CleanInv /\ [Next]_vars =>
        [\A d \in rows \ rows' : page[d[1]] = "live" => MayGo(d)]_vars
  BY OnlyPurges
<1> QED  BY <1>1, CleanInvAlways, PTL DEF Spec, PurgedWasExpired

-----------------------------------------------------------------------------
(* Deploys that overlap with jobs.  A job goes by rows that it listed before *)
(* the page moved on: a deploy that was under way then has activated its     *)
(* row, and that row counts no longer.                                       *)
Spare(d) ==
    /\ d \notin active \cup Own(d[1])
    /\ Cardinality(NewerSettled(d)) >= Retention - 1

Spared(s) ==
    jpc[s] \in {"candidates", "referenced", "objects", "manifests", "purge"} =>
        \A d \in doomedRows[s] :
            /\ d \in Deployment /\ d[2] <= made[d[1]]
            /\ page[d[1]] = "live" /\ d \in rows => Spare(d)

(* A handler without a rollback works on the last row of its page.           *)
Latest(pg) == hpc[pg] \in Between => target[pg] = <<pg, made[pg]>>

OverlapInv ==
    /\ Typed
    /\ \A d \in rows : d[2] <= made[d[1]]
    /\ \A pg \in Page : Latest(pg)
    /\ \A s \in Slot : Spared(s) /\ Purging(s)

(* At first nothing is listed.                                               *)
LEMMA OverlapInit == Init => OverlapInv
<1> SUFFICES ASSUME Init PROVE OverlapInv
  OBVIOUS
<1>1. \A d \in rows : d[2] <= made[d[1]]
  BY DEF Init
<1>2. \A pg \in Page : Latest(pg)
  BY DEF Init, Latest, Between
<1>3. \A s \in Slot : Spared(s) /\ Purging(s)
  BY DEF Init, Spared, Purging, Running
<1> QED  BY <1>1, <1>2, <1>3, TypedInit DEF OverlapInv

(* A row to spare stays one while the rows that count for it do.             *)
LEMMA SpareStays ==
  ASSUME TypeOK, TypeOK', NEW d \in Deployment, Spare(d),
         d \notin active' \cup Own(d[1])',
         NewerSettled(d) \subseteq NewerSettled(d)'
  PROVE  Spare(d)'
<1>1. NewerSettled(d)' \subseteq {e \in Deployment : e[1] = d[1]} /\ d[1] \in Page
  BY DEF TypeOK, Deployment, NewerSettled, Newer, Inactive, RowsOf
<1>2. IsFiniteSet(NewerSettled(d)') /\ Cardinality(NewerSettled(d)') \in Nat
  BY <1>1, Few
<1>3. /\ Cardinality(NewerSettled(d)) <= Cardinality(NewerSettled(d)')
      /\ Cardinality(NewerSettled(d)) \in Nat
  BY <1>2, FS_Subset, NewerFew
<1> QED  BY <1>2, <1>3, CleanupAssumption DEF Spare

(* So it does when other rows to spare are taken away.                       *)
LEMMA SpareLeft ==
  ASSUME TypeOK, NEW d \in rows, Spare(d),
         NEW gone, \A e \in gone \cap RowsOf(d[1]) : Spare(e)
  PROVE  Cardinality(NewerSettled(d) \ gone) >= Retention - 1
<1> DEFINE N == NewerSettled(d)
<1>1. d \in Deployment /\ N \subseteq rows /\ N \subseteq RowsOf(d[1]) /\ N \subseteq Deployment
  BY DEF TypeOK, NewerSettled, Newer, Inactive, RowsOf
<1>2. CASE N \cap gone = {}
  <2>1. N \ gone = N
    BY <1>2
  <2> QED  BY <2>1 DEF Spare
<1>3. CASE N \cap gone # {}
  <2>1. PICK e \in N \cap gone : \A f \in N \cap gone : ~ (f[2] > e[2])
    BY <1>1, <1>3, Newest
  <2>2. e[1] = d[1] /\ e[2] > d[2] /\ e \in Deployment
    BY <1>1 DEF NewerSettled, Newer, Inactive, RowsOf
  <2>3. NewerSettled(e) \subseteq N \ gone
    <3>1. NewerSettled(e) \subseteq N
      BY <1>1, <2>2 DEF NewerSettled, Newer, Inactive, RowsOf, Deployment, TypeOK
    <3>2. \A f \in NewerSettled(e) : f[2] > e[2]
      BY DEF NewerSettled, Newer
    <3> QED  BY <2>1, <3>1, <3>2
  <2>4. Cardinality(NewerSettled(e)) >= Retention - 1
    BY <1>1, <2>1, <2>2 DEF Spare
  <2>5. IsFiniteSet(N \ gone) /\ Cardinality(N \ gone) \in Nat
    <3>1. N \ gone \subseteq {f \in Deployment : f[1] = d[1]} /\ d[1] \in Page
      BY <1>1 DEF Deployment, RowsOf
    <3> QED  BY <3>1, Few
  <2>6. Cardinality(NewerSettled(e)) <= Cardinality(N \ gone) /\ Cardinality(NewerSettled(e)) \in Nat
    BY <2>2, <2>3, <2>5, FS_Subset, NewerFew
  <2> QED  BY <2>4, <2>5, <2>6, CleanupAssumption
<1> QED  BY <1>2, <1>3

(* What a prune lists may be spared: the row of a deploy under way is the    *)
(* newest, and there is one such row.                                        *)
LEMMA ExpiredSpare ==
  ASSUME OverlapInv, Retention >= 1, NEW pg \in Page, NEW d \in Expired(pg)
  PROVE  Spare(d)
<1>0. TypeOK /\ Latest(pg)
  BY DEF OverlapInv, Typed
<1>1. /\ d \in rows \ active /\ d[1] = pg /\ d \in Deployment
      /\ Cardinality(Newer(d)) >= Retention
  BY <1>0 DEF Expired, Inactive, RowsOf, TypeOK
<1>2. IsFiniteSet(Newer(d)) /\ Cardinality(Newer(d)) \in Nat
  BY <1>0, <1>1, NewerFew
<1>3. Cardinality(NewerSettled(d)) >= Cardinality(Newer(d)) - 1
  <2>1. CASE Own(pg) = {}
    <3>1. NewerSettled(d) = Newer(d)
      BY <1>1, <2>1 DEF NewerSettled
    <3> QED  BY <1>2, <3>1
  <2>2. CASE Own(pg) = {target[pg]}
    <3>1. NewerSettled(d) = Newer(d) \ {target[pg]}
      BY <1>1, <2>2 DEF NewerSettled
    <3>2. Cardinality(Newer(d) \ {target[pg]}) =
            IF target[pg] \in Newer(d) THEN Cardinality(Newer(d)) - 1 ELSE Cardinality(Newer(d))
      BY <1>2, FS_RemoveElement
    <3> QED  BY <1>2, <3>1, <3>2
  <2> QED  BY <2>1, <2>2 DEF Own
<1>4. d \notin Own(pg)
  <2> SUFFICES ASSUME d \in Own(pg) PROVE FALSE
    OBVIOUS
  <2>1. d[2] = made[pg]
    BY <1>0 DEF Own, Latest
  <2>2. ASSUME NEW e \in Newer(d) PROVE FALSE
    <3>1. e \in rows /\ e[1] = pg /\ e[2] > d[2]
      BY <1>1 DEF Newer, Inactive, RowsOf
    <3>2. e[2] <= made[pg] /\ e[2] \in Nat /\ made[pg] \in Nat
      BY <1>0, <3>1, CleanupAssumption DEF OverlapInv, TypeOK, Deployment
    <3> QED  BY <2>1, <3>1, <3>2
  <2>3. Cardinality(Newer(d)) = 0
    <3>1. Newer(d) = {}
      BY <2>2
    <3> QED  BY <3>1, FS_EmptySet
  <2> QED  BY <1>1, <2>3, CleanupAssumption
<1>5. Cardinality(NewerSettled(d)) \in Nat
  BY <1>0, <1>1, NewerFew
<1>6. Cardinality(NewerSettled(d)) >= Retention - 1
  BY <1>1, <1>2, <1>3, <1>5, CleanupAssumption
<1> QED  BY <1>1, <1>4, <1>6 DEF Spare

(* A slot whose message and findings do not change.                          *)
LEMMA SparedElsewhere ==
  ASSUME OverlapInv, NEW t \in Slot,
         jpc'[t] = jpc[t], job'[t] = job[t], doomedRows'[t] = doomedRows[t],
         \A pg \in Page : page'[pg] = "live" => page[pg] = "live",
         \A d \in Deployment : d[2] <= made[d[1]] => d[2] <= made'[d[1]],
         \A d \in Deployment : d \in rows' /\ d[2] <= made[d[1]] /\ page'[d[1]] = "live" =>
             d \in rows /\ (Spare(d) => Spare(d)')
  PROVE  Spared(t)' /\ Purging(t)'
<1>0. Spared(t) /\ Purging(t) /\ (jpc[t] # "none" => job[t][2] \in Page)
  BY DEF OverlapInv, Typed, Queued, Job
<1>1. Spared(t)'
  <2>1. \A d \in Deployment : d[1] \in Page
    BY DEF Deployment
  <2> QED  BY <1>0, <2>1 DEF Spared
<1>2. Purging(t)'
  BY <1>0 DEF Purging, Running
<1> QED  BY <1>1, <1>2

(* The handlers.  A row to spare stays one: those that are made later do not *)
(* count until they have been active, and one that is activated had not been *)
(* counted.                                                                  *)
LEMMA ConsoleSpares ==
  ASSUME OverlapInv, Typed', Retention >= 1, "rollback" \notin Handlers, NEW pg \in Page,
         \/ \E h \in Hash : Prepare(pg, h)
         \/ SoftDelete(pg) \/ DeleteStep(pg) \/ ConsoleStep(pg)
  PROVE  OverlapInv' /\ \A d \in rows : Spare(d) => Spare(d)'
<1> USE DEF database, storage, console, worker, message, handler
<1>0. TypeOK /\ TypeOK' /\ Latest(pg) /\ (\A d \in rows : d[2] <= made[d[1]])
  BY DEF OverlapInv, Typed
<1>1. /\ \A p \in Page : page'[p] = "live" => page[p] = "live"
      /\ UNCHANGED doomedRows
      /\ \A s \in Slot : \/ jpc'[s] = jpc[s] /\ job'[s] = job[s]
                         \/ jpc'[s] = "queued"
      /\ \A p \in Page \ {pg} : hpc'[p] = hpc[p] /\ target'[p] = target[p]
  <2>1. CASE SoftDelete(pg) \/ DeleteStep(pg)
    BY <1>0, <2>1, DeleteMarks
  <2>2. CASE (\E h \in Hash : Prepare(pg, h)) \/ ConsoleStep(pg)
    BY <1>0, <2>2 DEF Prepare, ConsoleStep, ReadBlob, StoreBlob, InsertBlob, InsertRow,
              InsertTree, PersistManifest, Activate, Enqueue, Send, ConsoleFails, End, Goto, TypeOK
  <2> QED  BY <2>1, <2>2
<1>2. ASSUME /\ \A d \in rows' : d[2] <= made'[d[1]]
             /\ Latest(pg)'
             /\ \A p \in Page \ {pg} : made'[p] = made[p]
             /\ made[pg] <= made'[pg]
             /\ \A d \in Deployment : d \in rows' /\ d[2] <= made[d[1]] => d \in rows
             /\ \A d \in rows : Spare(d) => Spare(d)'
      PROVE  OverlapInv' /\ \A d \in rows : Spare(d) => Spare(d)'
  <2>1. \A p \in Page : Latest(p)'
    BY <1>1, <1>2 DEF OverlapInv, Latest
  <2>2. ASSUME NEW d \in Deployment, d[2] <= made[d[1]] PROVE d[2] <= made'[d[1]]
    <3>1. d[1] \in Page /\ d[2] \in Nat /\ made[d[1]] \in Nat /\ made'[d[1]] \in Nat
      BY <1>0, CleanupAssumption DEF Deployment, TypeOK
    <3> QED  BY <1>2, <2>2, <3>1
  <2>3. ASSUME NEW s \in Slot PROVE Spared(s)' /\ Purging(s)'
    <3>1. CASE jpc'[s] = "queued"
      BY <3>1 DEF Spared, Purging, Running
    <3>2. CASE jpc'[s] = jpc[s] /\ job'[s] = job[s]
      BY <1>1, <1>2, <2>2, <3>2, SparedElsewhere
    <3> QED  BY <1>1, <3>1, <3>2
  <2> QED  BY <1>2, <2>1, <2>3 DEF OverlapInv
<1>3. CASE UNCHANGED <<made, rows, active>> /\ Own(pg)' \subseteq Own(pg) /\ Latest(pg)'
  <2>1. ASSUME NEW d \in rows, Spare(d) PROVE Spare(d)'
    <3>1. d \in Deployment /\ d[1] \in Page
      BY <1>0 DEF TypeOK, Deployment
    <3>2. Own(d[1])' \subseteq Own(d[1])
      BY <1>1, <1>3, <3>1 DEF Own
    <3>3. Newer(d)' = Newer(d)
      BY <1>3 DEF Newer, Inactive, RowsOf
    <3>4. NewerSettled(d) \subseteq NewerSettled(d)'
      BY <3>2, <3>3 DEF NewerSettled
    <3> QED  BY <1>0, <1>3, <2>1, <3>1, <3>2, <3>4, SpareStays DEF Spare
  <2>2. made[pg] <= made[pg]
    BY <1>0, CleanupAssumption DEF TypeOK
  <2> QED  BY <1>0, <1>2, <1>3, <2>1, <2>2
<1>4. CASE End(pg) /\ UNCHANGED <<made, rows, active>>
  <2>1. hpc'[pg] = "idle"
    BY <1>0, <1>4 DEF End, Goto, TypeOK
  <2> QED  BY <1>3, <1>4, <2>1 DEF Own, Latest, Between
<1>5. CASE InsertRow(pg) /\ page[pg] # "gone"
  <2> DEFINE new == <<pg, made[pg] + 1>>
  <2>1. /\ made' = [made EXCEPT ![pg] = made[pg] + 1] /\ rows' = rows \cup {new}
        /\ hpc'[pg] = "tree" /\ target'[pg] = new /\ hpc[pg] = "insert" /\ active' = active
    BY <1>0, <1>5 DEF InsertRow, Goto, TypeOK
  <2>2. new[1] = pg /\ new[2] = made[pg] + 1 /\ made[pg] \in Nat /\ made'[pg] = made[pg] + 1
    BY <1>0, <2>1, CleanupAssumption DEF TypeOK
  <2> HIDE DEF new
  <2>3. new \notin rows
    BY <1>0, <2>2
  <2>4. \A p \in Page \ {pg} : made'[p] = made[p]
    BY <1>0, <2>1 DEF TypeOK
  <2>5. \A d \in rows' : d[2] <= made'[d[1]]
    <3>1. ASSUME NEW d \in rows PROVE d[2] <= made'[d[1]]
      <4>1. d[1] \in Page /\ d[2] \in Nat /\ d[2] <= made[d[1]]
        BY <1>0, CleanupAssumption DEF TypeOK, Deployment
      <4> QED  BY <2>2, <2>4, <4>1
    <3> QED  BY <2>1, <2>2, <3>1
  <2>6. Latest(pg)'
    BY <2>1, <2>2 DEF Latest, new
  <2>7. ASSUME NEW d \in rows, Spare(d) PROVE Spare(d)'
    <3>1. d \in Deployment /\ d[1] \in Page /\ d # new
      BY <1>0, <2>3 DEF TypeOK, Deployment
    <3>2. Own(pg) = {} /\ Own(pg)' = {new} /\ (d[1] # pg => Own(d[1])' = Own(d[1]))
      BY <1>1, <2>1, <3>1 DEF Own, Between
    <3>3. NewerSettled(d) \subseteq NewerSettled(d)'
      BY <2>1, <2>3, <3>2 DEF NewerSettled, Newer, Inactive, RowsOf
    <3> QED  BY <1>0, <2>1, <2>7, <3>1, <3>2, <3>3, SpareStays DEF Spare
  <2>8. \A d \in Deployment : d \in rows' /\ d[2] <= made[d[1]] => d \in rows
    BY <2>1, <2>2
  <2> QED  BY <1>2, <2>2, <2>4, <2>5, <2>6, <2>7, <2>8
<1>6. CASE Activate(pg) /\ target[pg] \in rows /\ ~Fenced(pg)
  <2> DEFINE new == target[pg]
  <2>1. /\ active' = (active \ RowsOf(pg)) \cup {new}
        /\ hpc[pg] = "activate" /\ hpc'[pg] = "enqueue"
        /\ UNCHANGED <<made, rows>>
    BY <1>0, <1>6 DEF Activate, Goto, TypeOK
  <2>2. Own(pg) = {new} /\ Own(pg)' = {} /\ new[1] = pg
    BY <1>0, <2>1 DEF Own, Between, Latest
  <2>3. ASSUME NEW d \in rows, Spare(d) PROVE Spare(d)'
    <3>1. d \in Deployment /\ d[1] \in Page
      BY <1>0 DEF TypeOK, Deployment
    <3>2. d[1] # pg => Own(d[1])' = Own(d[1])
      BY <1>1, <3>1 DEF Own
    <3>3. d \notin active' \cup Own(d[1])'
      BY <2>1, <2>2, <2>3, <3>2 DEF Spare
    <3>4. NewerSettled(d) \subseteq NewerSettled(d)'
      BY <2>1, <2>2, <3>2 DEF NewerSettled, Newer, Inactive, RowsOf
    <3> QED  BY <1>0, <2>3, <3>1, <3>3, <3>4, SpareStays
  <2>4. Latest(pg)'
    BY <2>1 DEF Latest, Between
  <2>5. made[pg] <= made[pg]
    BY <1>0, CleanupAssumption DEF TypeOK
  <2> QED  BY <1>0, <1>2, <2>1, <2>3, <2>4, <2>5
<1>7. CASE InsertTree(pg) /\ target[pg] \in rows /\ file[pg] \in blobs
  <2>1. hpc[pg] = "tree" /\ hpc'[pg] = "manifest" /\ UNCHANGED <<made, rows, active, target>>
    BY <1>0, <1>7 DEF InsertTree, Goto, TypeOK
  <2> QED  BY <1>0, <1>3, <2>1 DEF Own, Latest, Between
<1>8. CASE PersistManifest(pg) /\ Goto(pg, "activate") /\ UNCHANGED <<target, file>>
  <2>1. hpc[pg] = "manifest" /\ hpc'[pg] = "activate" /\ UNCHANGED <<made, rows, active, target>>
    BY <1>0, <1>8 DEF PersistManifest, Goto, TypeOK
  <2> QED  BY <1>0, <1>3, <2>1 DEF Own, Latest, Between
<1>9. CASE \/ \E h \in Hash : Prepare(pg, h)
           \/ ReadBlob(pg) /\ file[pg] \in objects
           \/ StoreBlob(pg) \/ InsertBlob(pg)
  <2>1. UNCHANGED <<made, rows, active, target>>
        /\ hpc'[pg] \in {"read", "store", "blob", "insert"}
    BY <1>0, <1>9 DEF Prepare, ReadBlob, StoreBlob, InsertBlob, Goto, TypeOK
  <2> QED  BY <1>3, <2>1 DEF Own, Latest, Between
<1>10. CASE PersistManifest(pg)
  BY <1>4, <1>8, <1>10 DEF PersistManifest
<1>11. CASE \/ ReadBlob(pg) /\ ~(file[pg] \in objects)
            \/ InsertRow(pg) /\ ~(page[pg] # "gone")
            \/ InsertTree(pg) /\ ~(target[pg] \in rows /\ file[pg] \in blobs)
            \/ Activate(pg) /\ ~(target[pg] \in rows /\ ~Fenced(pg))
            \/ Enqueue(pg) \/ ConsoleFails(pg)
  BY <1>4, <1>11 DEF ReadBlob, InsertRow, InsertTree, Activate, Enqueue, ConsoleFails
<1>12. CASE SoftDelete(pg) \/ DeleteStep(pg)
  <2>1. UNCHANGED <<made, rows, active, hpc, target>>
    BY <1>0, <1>12, DeleteMarks
  <2> QED  BY <1>0, <1>3, <2>1 DEF Own, Latest
<1> QED  BY <1>5, <1>6, <1>7, <1>9, <1>10, <1>11, <1>12 DEF ConsoleStep

(* The worker.  What one job takes away leaves enough for what another has   *)
(* listed.                                                                   *)
LEMMA WorkerSpares ==
  ASSUME OverlapInv, Typed', Retention >= 1, NEW s \in Slot, WorkerStep(s) \/ PartialDelete(s)
  PROVE  /\ OverlapInv'
         /\ \A d \in rows \ rows' : page[d[1]] = "live" => Spare(d)
         /\ \A d \in rows \cap rows' : page'[d[1]] = "live" /\ Spare(d) => Spare(d)'
<1> USE DEF database, storage, console, worker, message, handler
<1>0. TypeOK /\ TypeOK' /\ (\A d \in rows : d[2] <= made[d[1]]) /\ Spared(s) /\ Purging(s)
      /\ (jpc[s] # "none" => job[s] \in Job)
  BY DEF OverlapInv, Typed, Queued
<1>1. UNCHANGED <<made, console>>
      /\ \A t \in Slot \ {s} : jpc'[t] = jpc[t] /\ job'[t] = job[t] /\ doomedRows'[t] = doomedRows[t]
  BY <1>0 DEF WorkerStep, Deliver, Guard, ListRows, ListCandidates, DropReferenced, DeleteObjects,
              DeleteManifests, PurgeRows, HardDelete, Ack, JobFails, Dispose, PartialDelete, Step, TypeOK
<1>2. \A pg \in Page : Latest(pg)'
  BY <1>1 DEF OverlapInv, Latest
<1>3. ASSUME /\ rows' \subseteq rows
             /\ \A pg \in Page : page'[pg] = "live" => page[pg] = "live"
             /\ \A d \in rows' : page'[d[1]] = "live" /\ Spare(d) => Spare(d)'
             /\ \A d \in rows \ rows' : page[d[1]] = "live" => Spare(d)
             /\ Spared(s)' /\ Purging(s)'
      PROVE  /\ OverlapInv'
             /\ \A d \in rows \ rows' : page[d[1]] = "live" => Spare(d)
             /\ \A d \in rows \cap rows' : page'[d[1]] = "live" /\ Spare(d) => Spare(d)'
  <2>1. \A t \in Slot \ {s} : Spared(t)' /\ Purging(t)'
    BY <1>1, <1>3, SparedElsewhere
  <2>2. \A d \in rows' : d[2] <= made'[d[1]]
    BY <1>0, <1>1, <1>3
  <2> QED  BY <1>2, <1>3, <2>1, <2>2 DEF OverlapInv
<1>4. CASE UNCHANGED <<page, rows, active>> /\ Spared(s)' /\ Purging(s)'
  <2>1. \A d : Spare(d)' <=> Spare(d)
    BY <1>1, <1>4 DEF Spare, NewerSettled, Newer, Inactive, RowsOf, Own
  <2> QED  BY <1>3, <1>4, <2>1
<1>5. CASE UNCHANGED <<page, rows, active, job, doomedRows>>
           /\ \/ jpc'[s] \in {"none", "queued", "guard", "ack"}
              \/ /\ jpc'[s] = "list"
                 /\ \/ jpc[s] = "queued" /\ job[s][1] # "page_delete"
                    \/ page[job[s][2]] # "live"
              \/ jpc[s] \in {"candidates", "referenced", "objects", "manifests"}
                 /\ jpc'[s] \in {"candidates", "referenced", "objects", "manifests", "purge"}
  <2>1. \A d : Spare(d)' <=> Spare(d)
    BY <1>1, <1>5 DEF Spare, NewerSettled, Newer, Inactive, RowsOf, Own
  <2>2. Spared(s)' /\ Purging(s)'
    BY <1>0, <1>1, <1>5, <2>1 DEF Spared, Purging, Running
  <2> QED  BY <1>4, <1>5, <2>2
<1>6. CASE \/ Deliver(s) \/ Guard(s) \/ ListCandidates(s) \/ DropReferenced(s)
           \/ DeleteObjects(s) \/ DeleteManifests(s) \/ PartialDelete(s)
  <2>1. UNCHANGED <<page, rows, active, job, doomedRows>>
    BY <1>6 DEF Deliver, Guard, ListCandidates, DropReferenced, DeleteObjects, DeleteManifests,
                PartialDelete
  <2> QED
    BY <1>0, <1>5, <1>6, <2>1 DEF Deliver, Guard, ListCandidates, DropReferenced, DeleteObjects,
         DeleteManifests, PartialDelete, Step, TypeOK
<1>7. CASE Ack(s) \/ JobFails(s)
  <2>1. jpc'[s] \in {"none", "queued"} /\ UNCHANGED <<page, rows, active>>
    BY <1>0, <1>7 DEF Ack, JobFails, Dispose, Step, AfterFailure, TypeOK
  <2> QED  BY <1>4, <2>1 DEF Spared, Purging, Running
<1>8. CASE ListRows(s)
  <2> DEFINE pg == job[s][2]
             ds == IF job[s][1] = "page_delete" THEN RowsOf(pg) ELSE Expired(pg)
  <2>1. /\ jpc[s] = "list" /\ jpc'[s] \in {"ack", "candidates"} /\ doomedRows'[s] = ds
        /\ job'[s] = job[s] /\ UNCHANGED <<page, rows, active>>
    BY <1>0, <1>8 DEF ListRows, Step, TypeOK
  <2>2. pg \in Page /\ ds \subseteq rows
    BY <1>0, <2>1 DEF Job, RowsOf, Expired, Inactive
  <2>3. ASSUME NEW d \in ds, page[d[1]] = "live" PROVE Spare(d)
    <3>1. d[1] = pg
      BY DEF RowsOf, Expired, Inactive
    <3>2. job[s][1] # "page_delete"
      BY <1>0, <2>1, <2>3, <3>1 DEF Purging, Running
    <3> QED  BY <2>2, <3>2, ExpiredSpare
  <2>4. \A d : Spare(d)' <=> Spare(d)
    BY <1>1, <2>1 DEF Spare, NewerSettled, Newer, Inactive, RowsOf, Own
  <2> HIDE DEF ds
  <2>5. Spared(s)'
    BY <1>0, <1>1, <2>1, <2>2, <2>3, <2>4 DEF Spared, TypeOK
  <2>6. Purging(s)'
    BY <1>0, <2>1 DEF Purging, Running
  <2> QED  BY <1>4, <2>1, <2>5, <2>6
<1>9. CASE PurgeRows(s)
  <2>1. /\ jpc[s] = "purge" /\ rows' = rows \ doomedRows[s] /\ active' = active \cap rows'
        /\ jpc'[s] = (IF job[s][1] = "page_delete" THEN "page" ELSE "ack")
        /\ UNCHANGED <<page, job, doomedRows>>
    BY <1>0, <1>9 DEF PurgeRows, Step, TypeOK
  <2>2. \A d \in doomedRows[s] \cap rows : page[d[1]] = "live" => Spare(d)
    BY <1>0, <2>1 DEF Spared
  <2>3. ASSUME NEW d \in rows', page[d[1]] = "live", Spare(d) PROVE Spare(d)'
    <3>1. NewerSettled(d)' = NewerSettled(d) \ doomedRows[s] /\ Own(d[1])' = Own(d[1])
      BY <1>1, <2>1 DEF NewerSettled, Newer, Inactive, RowsOf, Own
    <3>2. \A e \in doomedRows[s] \cap RowsOf(d[1]) : Spare(e)
      BY <2>2, <2>3 DEF RowsOf
    <3>3. Cardinality(NewerSettled(d) \ doomedRows[s]) >= Retention - 1
      BY <1>0, <2>1, <2>3, <3>2, SpareLeft
    <3> QED  BY <2>1, <2>3, <3>1, <3>3 DEF Spare
  <2>4. Spared(s)' /\ Purging(s)'
    BY <1>0, <2>1 DEF Spared, Purging, Running
  <2> QED  BY <1>3, <2>1, <2>2, <2>3, <2>4
<1>10. CASE HardDelete(s)
  <2> DEFINE pg == job[s][2]
  <2>1. /\ jpc[s] = "page" /\ rows' = rows \ RowsOf(pg) /\ active' = active \cap rows'
        /\ page' = [page EXCEPT ![pg] = "gone"] /\ jpc'[s] = "ack"
    BY <1>0, <1>10 DEF HardDelete, Step, TypeOK
  <2>2. page[pg] # "live" /\ pg \in Page
    BY <1>0, <2>1 DEF Purging, Running, Job
  <2>3. \A p \in Page : page'[p] = "live" => page[p] = "live"
    BY <1>0, <2>1 DEF TypeOK
  <2>4. ASSUME NEW d \in rows', Spare(d) PROVE Spare(d)'
    <3>1. d[1] # pg /\ Own(d[1])' = Own(d[1])
      BY <1>1, <2>1 DEF RowsOf, Own
    <3>2. Newer(d)' = Newer(d)
      BY <2>1, <3>1 DEF Newer, Inactive, RowsOf
    <3> QED  BY <2>1, <2>4, <3>1, <3>2 DEF Spare, NewerSettled
  <2>5. Spared(s)' /\ Purging(s)'
    BY <2>1 DEF Spared, Purging, Running
  <2>6. \A d \in rows \ rows' : page[d[1]] # "live"
    BY <2>1, <2>2 DEF RowsOf
  <2> QED  BY <1>3, <2>1, <2>3, <2>4, <2>5, <2>6
<1> QED  BY <1>6, <1>7, <1>8, <1>9, <1>10 DEF WorkerStep

(* Whatever overlaps, as long as nothing is rolled back.                     *)
LEMMA OverlapStep ==
  ASSUME Retention >= 1, "rollback" \notin Handlers, OverlapInv, [Next]_vars
  PROVE  /\ OverlapInv'
         /\ \A d \in rows \ rows' : page[d[1]] = "live" => Spare(d)
         /\ \A d \in rows \cap rows' : page'[d[1]] = "live" /\ Spare(d) => Spare(d)'
<1>1. Typed'
  BY TypedStep DEF OverlapInv
<1>2. CASE UNCHANGED vars
  <2> USE <1>2 DEF vars, database, storage, console, worker, message, handler
  <2>1. \A s \in Slot : Spared(s)' /\ Purging(s)'
    BY DEF OverlapInv, Spared, Purging, Spare, NewerSettled, Newer, Inactive, RowsOf, Own
  <2>2. \A pg \in Page : Latest(pg)'
    BY DEF OverlapInv, Latest
  <2>3. \A d : Spare(d) => Spare(d)'
    BY DEF Spare, NewerSettled, Newer, Inactive, RowsOf, Own
  <2> QED  BY <1>1, <2>1, <2>2, <2>3 DEF OverlapInv
<1>3. ASSUME NEW pg \in Page,
             \/ \E h \in Hash : Prepare(pg, h)
             \/ SoftDelete(pg) \/ DeleteStep(pg) \/ ConsoleStep(pg)
      PROVE  OverlapInv' /\ rows \subseteq rows' /\ \A d \in rows : Spare(d) => Spare(d)'
  <2>1. rows \subseteq rows'
    BY <1>3 DEF Prepare, SoftDelete, DeleteStep, EnqueueDelete, DeleteFails, ConsoleStep, ReadBlob,
                StoreBlob, InsertBlob, InsertRow, InsertTree, PersistManifest, Activate, Enqueue,
                ConsoleFails, database, storage, worker, console
  <2> QED  BY <1>1, <1>3, <2>1, ConsoleSpares
<1>4. ASSUME NEW s \in Slot, WorkerStep(s) \/ PartialDelete(s)
      PROVE  /\ OverlapInv'
             /\ \A d \in rows \ rows' : page[d[1]] = "live" => Spare(d)
             /\ \A d \in rows \cap rows' : page'[d[1]] = "live" /\ Spare(d) => Spare(d)'
  BY <1>1, <1>4, WorkerSpares
<1>5. \A pg \in Page, d \in Deployment : ~RollbackStart(pg, d)
  BY DEF RollbackStart
<1> QED  BY <1>2, <1>3, <1>4, <1>5 DEF Next

(* Deploys next to jobs cost a page at most one of the rows that retention   *)
(* keeps, and never the active one.                                          *)
THEOREM PurgedButOneHolds ==
  ASSUME Retention >= 1, "rollback" \notin Handlers
  PROVE  Spec => PurgedButOne
<1>1. OverlapInv /\ [Next]_vars => OverlapInv'
  BY OverlapStep
<1>2. ASSUME OverlapInv, [Next]_vars, NEW d \in rows \ rows', page[d[1]] = "live"
      PROVE  d \notin active /\ Cardinality(Newer(d)) >= Retention - 1
  <2>1. Spare(d) /\ TypeOK /\ d \in Deployment
    BY <1>2, OverlapStep DEF OverlapInv, Typed, TypeOK
  <2>2. /\ Cardinality(NewerSettled(d)) <= Cardinality(Newer(d))
        /\ Cardinality(NewerSettled(d)) \in Nat /\ Cardinality(Newer(d)) \in Nat
    BY <2>1, NewerFew
  <2> QED  BY <2>1, <2>2, CleanupAssumption DEF Spare
<1>3. OverlapInv /\ [Next]_vars =>
        [\A d \in rows \ rows' : page[d[1]] = "live" =>
            d \notin active /\ Cardinality(Newer(d)) >= Retention - 1]_vars
  BY <1>2
<1> QED  BY <1>1, <1>3, OverlapInit, PTL DEF Spec, PurgedButOne

(* Without rollbacks the active deployment of a live page is never purged:   *)
(* the run that finds one purged needs its rollback.                         *)
THEOREM ActiveNeverPurgedHolds ==
  ASSUME Retention >= 1, "rollback" \notin Handlers
  PROVE  Spec => ActiveNeverPurged
<1>1. OverlapInv /\ [Next]_vars => OverlapInv'
  BY OverlapStep
<1>2. OverlapInv /\ [Next]_vars => [\A d \in active \ rows' : page[d[1]] # "live"]_vars
  <2> SUFFICES ASSUME OverlapInv, [Next]_vars, NEW d \in active \ rows', page[d[1]] = "live"
               PROVE  FALSE
    OBVIOUS
  <2>1. d \in rows
    BY DEF OverlapInv, Typed, TypeOK
  <2> QED  BY <2>1, OverlapStep DEF Spare
<1> QED  BY <1>1, <1>2, OverlapInit, PTL DEF Spec, ActiveNeverPurged

-----------------------------------------------------------------------------
(* What the database holds of a deployment is whole, whatever overlaps and   *)
(* with rollbacks: its tree refers to it, and to the rows of its objects.    *)
Referred(d) ==
    /\ tree[d] # NoHash => d \in rows /\ tree[d] \in blobs
    /\ d \in recorded => tree[d] # NoHash

(* A handler works on a row of its page, which another may have purged.      *)
Placed(pg) ==
    /\ hpc[pg] \in Between => target[pg][1] = pg /\ target[pg][2] <= made[pg]
    /\ hpc[pg] = "manifest" /\ target[pg] \in rows => tree[target[pg]] # NoHash

TreeInv ==
    /\ Typed /\ Known
    /\ \A pg \in Page : Placed(pg)
    /\ \A d \in Deployment : Referred(d)

(* At first there is no tree.                                                *)
LEMMA TreeInit == Init => TreeInv
<1> SUFFICES ASSUME Init PROVE TreeInv
  OBVIOUS
<1>1. Known
  BY DEF Init, Known
<1>2. \A pg \in Page : Placed(pg)
  BY DEF Init, Placed, Between
<1>3. \A d \in Deployment : Referred(d)
  BY DEF Init, Referred
<1> QED  BY <1>1, <1>2, <1>3, TypedInit DEF TreeInv

(* A handler that leaves the rows alone, or adds to the objects' rows.       *)
LEMMA TreeFrame ==
  ASSUME TreeInv, Typed', NEW pg \in Page, UNCHANGED <<made, rows, tree, recorded>>,
         blobs \subseteq blobs', Placed(pg)',
         \A p \in Page \ {pg} : hpc'[p] = hpc[p] /\ target'[p] = target[p]
  PROVE  TreeInv'
<1>1. Known'
  BY DEF TreeInv, Known
<1>2. \A p \in Page : Placed(p)'
  BY DEF TreeInv, Placed
<1>3. \A d \in Deployment : Referred(d)'
  BY DEF TreeInv, Referred
<1> QED  BY <1>1, <1>2, <1>3 DEF TreeInv

(* What the handlers do, rollbacks included.                                 *)
LEMMA ConsoleRefers ==
  ASSUME TreeInv, Typed', NEW pg \in Page,
         \/ \E h \in Hash : Prepare(pg, h)
         \/ \E d \in Deployment : RollbackStart(pg, d)
         \/ SoftDelete(pg) \/ DeleteStep(pg) \/ ConsoleStep(pg)
  PROVE  TreeInv'
<1> USE DEF database, storage, console, worker, message, handler
<1>0. /\ TypeOK /\ TypeOK' /\ Known /\ Placed(pg) /\ Roomy(pg)
      /\ \A d \in Deployment : Referred(d)
  BY DEF TreeInv, Typed
<1>1. \A p \in Page \ {pg} : hpc'[p] = hpc[p] /\ target'[p] = target[p]
  <2>1. CASE SoftDelete(pg) \/ DeleteStep(pg)
    BY <1>0, <2>1, DeleteMarks
  <2>2. CASE ~(SoftDelete(pg) \/ DeleteStep(pg))
    BY <1>0, <2>2 DEF Prepare, RollbackStart, ConsoleStep, ReadBlob, StoreBlob, InsertBlob,
              InsertRow, InsertTree, PersistManifest, Activate, Enqueue, ConsoleFails, End, Goto,
              TypeOK
  <2> QED  BY <2>1, <2>2
<1>2. CASE End(pg) /\ UNCHANGED <<made, rows, tree, recorded, blobs>>
  <2>1. hpc'[pg] = "idle"
    BY <1>0, <1>2 DEF End, Goto, TypeOK
  <2> QED  BY <1>1, <1>2, <2>1, TreeFrame DEF Placed, Between
<1>3. CASE \/ \E h \in Hash : Prepare(pg, h)
           \/ ReadBlob(pg) /\ file[pg] \in objects
           \/ StoreBlob(pg) \/ InsertBlob(pg)
           \/ Activate(pg) /\ target[pg] \in rows /\ ~Fenced(pg)
  <2>1. UNCHANGED <<made, rows, tree, recorded>> /\ blobs \subseteq blobs'
    BY <1>3 DEF Prepare, ReadBlob, StoreBlob, InsertBlob, Activate
  <2>2. hpc'[pg] \in {"read", "store", "blob", "insert", "enqueue"}
    BY <1>0, <1>3 DEF Prepare, ReadBlob, StoreBlob, InsertBlob, Activate, Goto, TypeOK
  <2> QED  BY <1>1, <2>1, <2>2, TreeFrame DEF Placed, Between
<1>4. CASE \E d \in Deployment : RollbackStart(pg, d)
  <2>1. PICK d \in Deployment : RollbackStart(pg, d)
    BY <1>4
  <2>2. /\ d \in rows /\ d[1] = pg /\ tree[d] # NoHash
        /\ hpc'[pg] = "manifest" /\ target'[pg] = d
        /\ UNCHANGED <<made, rows, tree, recorded, blobs>>
    BY <1>0, <2>1 DEF RollbackStart, RowsOf, Goto, TypeOK
  <2>3. d[2] <= made[pg]
    BY <1>0, <2>2 DEF Known
  <2> QED  BY <1>1, <2>2, <2>3, TreeFrame DEF Placed
<1>5. CASE InsertRow(pg) /\ page[pg] # "gone"
  <2> DEFINE new == <<pg, made[pg] + 1>>
  <2>1. /\ made' = [made EXCEPT ![pg] = made[pg] + 1] /\ rows' = rows \cup {new}
        /\ hpc'[pg] = "tree" /\ target'[pg] = new
        /\ UNCHANGED <<tree, recorded, blobs>>
    BY <1>0, <1>5 DEF InsertRow, Goto, TypeOK
  <2>2. new[1] = pg /\ new[2] = made[pg] + 1 /\ made[pg] \in Nat /\ made'[pg] = made[pg] + 1
    BY <1>0, <2>1, CleanupAssumption DEF TypeOK
  <2> HIDE DEF new
  <2>3. \A p \in Page \ {pg} : made'[p] = made[p]
    BY <1>0, <2>1 DEF TypeOK
  <2>4. Known'
    <3>1. ASSUME NEW d \in rows PROVE d[2] <= made'[d[1]]
      <4>1. d[1] \in Page /\ d[2] \in Nat /\ d[2] <= made[d[1]]
        BY <1>0, CleanupAssumption DEF Known, TypeOK, Deployment
      <4> QED  BY <2>2, <2>3, <4>1
    <3> QED  BY <1>0, <2>1, <2>2, <3>1 DEF Known
  <2>5. Placed(pg)'
    BY <2>1, <2>2 DEF Placed
  <2>6. ASSUME NEW p \in Page \ {pg} PROVE Placed(p)'
    <3>1. Placed(p) /\ hpc'[p] = hpc[p] /\ target'[p] = target[p]
      BY <1>1 DEF TreeInv
    <3>2. hpc[p] \in Between => target[p] # new
      BY <2>2, <3>1 DEF Placed
    <3> QED  BY <2>1, <2>3, <3>1, <3>2 DEF Placed, Between
  <2>7. \A d \in Deployment : Referred(d)'
    BY <1>0, <2>1 DEF Referred
  <2> QED  BY <2>4, <2>5, <2>6, <2>7 DEF TreeInv
<1>6. CASE InsertTree(pg) /\ target[pg] \in rows /\ file[pg] \in blobs
  <2> DEFINE d == target[pg]
  <2>1. d \in Deployment /\ file[pg] \in Hash /\ file[pg] # NoHash
    BY <1>0, <1>6, CleanupAssumption DEF InsertTree, Roomy
  <2>2. /\ tree' = [tree EXCEPT ![d] = file[pg]] /\ hpc[pg] = "tree" /\ hpc'[pg] = "manifest"
        /\ UNCHANGED <<made, rows, recorded, blobs, target>>
    BY <1>0, <1>6 DEF InsertTree, Goto, TypeOK
  <2>3. tree'[d] = file[pg] /\ \A e \in Deployment \ {d} : tree'[e] = tree[e]
    BY <1>0, <2>1, <2>2 DEF TypeOK
  <2>4. Placed(pg)'
    BY <1>0, <2>1, <2>2, <2>3 DEF Placed, Between
  <2>5. ASSUME NEW p \in Page \ {pg} PROVE Placed(p)'
    <3>1. Placed(p) /\ Roomy(p) /\ hpc'[p] = hpc[p] /\ target'[p] = target[p]
      BY <1>1 DEF TreeInv, Typed
    <3>2. hpc[p] = "manifest" => target[p] \in Deployment
      BY <3>1 DEF Roomy
    <3> QED  BY <2>1, <2>2, <2>3, <3>1, <3>2 DEF Placed
  <2>6. \A e \in Deployment : Referred(e)'
    BY <1>0, <1>6, <2>1, <2>2, <2>3 DEF Referred
  <2>7. Known'
    BY <1>0, <2>2 DEF Known
  <2> QED  BY <2>4, <2>5, <2>6, <2>7 DEF TreeInv
<1>7. CASE PersistManifest(pg) /\ Goto(pg, "activate") /\ UNCHANGED <<target, file>>
  <2> DEFINE d == target[pg]
  <2>1. /\ hpc[pg] = "manifest" /\ hpc'[pg] = "activate" /\ d \in rows
        /\ recorded' \in {recorded, recorded \cup {d}}
        /\ UNCHANGED <<made, rows, tree, blobs, target>>
    BY <1>0, <1>7 DEF PersistManifest, Goto, End, TypeOK
  <2>2. tree[d] # NoHash
    BY <1>0, <2>1 DEF Placed
  <2>3. \A e \in Deployment : Referred(e)'
    BY <1>0, <2>1, <2>2 DEF Referred
  <2>4. Known'
    BY <1>0, <2>1 DEF Known
  <2>5. Placed(pg)'
    BY <1>0, <2>1 DEF Placed, Between
  <2>6. \A p \in Page \ {pg} : Placed(p)'
    BY <1>1, <2>1 DEF TreeInv, Placed
  <2> QED  BY <2>3, <2>4, <2>5, <2>6 DEF TreeInv
<1>8. CASE PersistManifest(pg) /\ End(pg) /\ UNCHANGED <<manifests, recorded>>
  BY <1>2, <1>8 DEF PersistManifest
<1>9. CASE PersistManifest(pg)
  BY <1>7, <1>8, <1>9 DEF PersistManifest
<1>10. CASE \/ ReadBlob(pg) /\ ~(file[pg] \in objects)
            \/ InsertRow(pg) /\ ~(page[pg] # "gone")
            \/ InsertTree(pg) /\ ~(target[pg] \in rows /\ file[pg] \in blobs)
            \/ Activate(pg) /\ ~(target[pg] \in rows /\ ~Fenced(pg))
            \/ Enqueue(pg) \/ ConsoleFails(pg)
  BY <1>2, <1>10 DEF ReadBlob, InsertRow, InsertTree, Activate, Enqueue, ConsoleFails
<1>11. CASE SoftDelete(pg) \/ DeleteStep(pg)
  <2>1. UNCHANGED <<made, rows, tree, recorded, blobs, hpc, target>>
    BY <1>0, <1>11, DeleteMarks
  <2> QED  BY <1>0, <1>1, <2>1, TreeFrame DEF Placed
<1> QED  BY <1>3, <1>4, <1>5, <1>6, <1>9, <1>10, <1>11 DEF ConsoleStep

(* The worker purges a row with its tree, and an object's row only when no   *)
(* tree that stays refers to it.                                             *)
LEMMA WorkerRefers ==
  ASSUME TreeInv, Typed', NEW s \in Slot, WorkerStep(s) \/ PartialDelete(s)
  PROVE  TreeInv'
<1> USE DEF database, storage, console, worker, message, handler
<1>0. TypeOK /\ Known /\ \A d \in Deployment : Referred(d)
  BY DEF TreeInv, Typed
<1>1. UNCHANGED <<made, console>>
  BY DEF WorkerStep, Deliver, Guard, ListRows, ListCandidates, DropReferenced, DeleteObjects,
         DeleteManifests, PurgeRows, HardDelete, Ack, JobFails, Dispose, PartialDelete
<1>2. ASSUME /\ rows' \subseteq rows /\ recorded' = recorded \cap rows'
             /\ \A d \in Deployment : tree'[d] = IF d \in rows' THEN tree[d] ELSE NoHash
             /\ \A d \in rows' : tree[d] # NoHash => tree[d] \in blobs'
      PROVE  TreeInv'
  <2>1. Known'
    BY <1>0, <1>1, <1>2 DEF Known
  <2>2. ASSUME NEW p \in Page PROVE Placed(p)'
    <3>1. Placed(p) /\ Roomy(p)
      BY DEF TreeInv, Typed
    <3>2. hpc[p] = "manifest" => target[p] \in Deployment
      BY <3>1 DEF Roomy
    <3> QED  BY <1>1, <1>2, <3>1, <3>2 DEF Placed
  <2>3. \A d \in Deployment : Referred(d)'
    BY <1>0, <1>2 DEF Referred
  <2> QED  BY <2>1, <2>2, <2>3 DEF TreeInv
<1>3. CASE PurgeRows(s)
  <2>1. /\ freed[s] \cap Trees(rows') = {} /\ rows' \subseteq rows
        /\ recorded' = recorded \cap rows' /\ blobs' = blobs \ freed[s]
        /\ tree' = [d \in Deployment |-> IF d \in rows' THEN tree[d] ELSE NoHash]
    BY <1>3 DEF PurgeRows, Trees
  <2>2. ASSUME NEW d \in rows', tree[d] # NoHash PROVE tree[d] \in blobs'
    <3>1. tree[d] \in blobs
      BY <1>0, <2>1, <2>2 DEF TypeOK, Referred
    <3>2. tree[d] \notin freed[s]
      BY <2>1, <2>2 DEF Trees
    <3> QED  BY <2>1, <3>1, <3>2
  <2> QED  BY <1>2, <2>1, <2>2
<1>4. CASE HardDelete(s)
  <2>1. /\ rows' \subseteq rows /\ recorded' = recorded \cap rows' /\ blobs' = blobs
        /\ tree' = [d \in Deployment |-> IF d \in rows' THEN tree[d] ELSE NoHash]
    BY <1>4 DEF HardDelete
  <2> QED  BY <1>0, <1>2, <2>1 DEF TypeOK, Referred
<1>5. CASE UNCHANGED <<rows, tree, recorded, blobs>>
  <2>1. recorded' = recorded \cap rows'
    BY <1>0, <1>5 DEF Known
  <2>2. \A d \in Deployment : tree'[d] = IF d \in rows' THEN tree[d] ELSE NoHash
    BY <1>0, <1>5 DEF Referred
  <2>3. \A d \in rows' : tree[d] # NoHash => tree[d] \in blobs'
    BY <1>0, <1>5 DEF TypeOK, Referred
  <2> QED  BY <1>2, <1>5, <2>1, <2>2, <2>3
<1> QED
  BY <1>3, <1>4, <1>5 DEF WorkerStep, Deliver, Guard, ListRows, ListCandidates, DropReferenced,
       DeleteObjects, DeleteManifests, Ack, JobFails, Dispose, PartialDelete

(* Every step keeps what the rows refer to.                                  *)
LEMMA TreeStep == TreeInv /\ [Next]_vars => TreeInv'
<1> SUFFICES ASSUME TreeInv, [Next]_vars PROVE TreeInv'
  OBVIOUS
<1>1. Typed'
  BY TypedStep DEF TreeInv
<1>2. CASE UNCHANGED vars
  <2> USE <1>2 DEF vars, database, storage, console, worker, message, handler
  <2>1. (\A pg \in Page : Placed(pg)') /\ (\A d \in Deployment : Referred(d)')
    BY DEF TreeInv, Placed, Referred
  <2> QED  BY <1>1, <2>1 DEF TreeInv, Known
<1>3. CASE Next
  BY <1>1, <1>3, ConsoleRefers, WorkerRefers DEF Next
<1> QED  BY <1>2, <1>3

(* No purge, retried or delivered twice or next to a deploy or a rollback,   *)
(* leaves a recorded deployment without the rows of its objects.             *)
THEOREM RecordedReferredHolds == Spec => []RecordedReferred
<1>1. TreeInv => RecordedReferred
  BY DEF TreeInv, Typed, TypeOK, Referred, RecordedReferred
<1> QED  BY <1>1, TreeInit, TreeStep, PTL DEF Spec

(* A manifest goes in a job's delete of what it listed, and a deployment is  *)
(* recorded with its manifest.                                               *)
LEMMA ManifestsGo ==
  ASSUME Typed, [Next]_vars
  PROVE  /\ recorded' \ recorded \subseteq manifests'
         /\ \A pg \in Page : page'[pg] = "live" => page[pg] = "live"
         /\ \A d \in manifests \ manifests' :
                \E s \in Slot : jpc[s] = "manifests" /\ d \in doomedRows[s]
<1> USE DEF database, storage, console, worker, message, handler
<1>0. TypeOK
  BY DEF Typed
<1>1. CASE UNCHANGED vars
  BY <1>1 DEF vars
<1>2. ASSUME NEW pg \in Page,
             \/ \E h \in Hash : Prepare(pg, h)
             \/ \E d \in Deployment : RollbackStart(pg, d)
             \/ SoftDelete(pg) \/ DeleteStep(pg) \/ ConsoleStep(pg)
      PROVE  /\ recorded' \ recorded \subseteq manifests' /\ manifests \subseteq manifests'
             /\ \A p \in Page : page'[p] = "live" => page[p] = "live"
  <2>1. CASE SoftDelete(pg) \/ DeleteStep(pg)
    BY <1>0, <2>1, DeleteMarks
  <2>2. CASE ~(SoftDelete(pg) \/ DeleteStep(pg))
    BY <1>2, <2>2 DEF Prepare, RollbackStart, ConsoleStep, ReadBlob, StoreBlob, InsertBlob,
       InsertRow, InsertTree, PersistManifest, Activate, Enqueue, ConsoleFails
  <2> QED  BY <2>1, <2>2
<1>3. ASSUME NEW s \in Slot, DeleteManifests(s) \/ PartialDelete(s)
      PROVE  /\ UNCHANGED <<page, recorded>>
             /\ \A d \in manifests \ manifests' : jpc[s] = "manifests" /\ d \in doomedRows[s]
  BY <1>3 DEF DeleteManifests, PartialDelete
<1>4. ASSUME NEW s \in Slot, WorkerStep(s), ~DeleteManifests(s)
      PROVE  /\ recorded' \subseteq recorded /\ UNCHANGED manifests
             /\ \A p \in Page : page'[p] = "live" => page[p] = "live"
  BY <1>0, <1>4 DEF WorkerStep, Deliver, Guard, ListRows, ListCandidates, DropReferenced,
       DeleteObjects, PurgeRows, HardDelete, Ack, JobFails, Dispose, TypeOK
<1> QED  BY <1>1, <1>2, <1>3, <1>4 DEF Next

(* A recorded deployment has its manifest while it may not be spared.        *)
ManifestKept ==
    \A d \in recorded : page[d[1]] = "live" => d \in manifests \/ Spare(d)

LEMMA ManifestStep ==
  ASSUME Retention >= 1, "rollback" \notin Handlers,
         OverlapInv, TreeInv, ManifestKept, [Next]_vars
  PROVE  ManifestKept'
<1>1. TreeInv' /\ Typed
  BY TreeStep DEF TreeInv
<1>2. SUFFICES ASSUME NEW d \in recorded', page'[d[1]] = "live", d \notin manifests'
               PROVE  Spare(d)'
  BY DEF ManifestKept
<1>3. d \in recorded /\ d \in rows \cap rows' /\ d \in Deployment /\ page[d[1]] = "live"
  <2>1. d \in recorded
    BY <1>1, <1>2, ManifestsGo
  <2>2. d \in rows \cap rows' /\ d \in Deployment /\ d[1] \in Page
    BY <1>1, <1>2, <2>1 DEF TreeInv, Known, Typed, TypeOK, Deployment
  <2> QED  BY <1>1, <1>2, <2>1, <2>2, ManifestsGo
<1>4. Spare(d)
  <2>1. CASE d \in manifests
    <3>1. PICK s \in Slot : jpc[s] = "manifests" /\ d \in doomedRows[s]
      BY <1>1, <1>2, <2>1, ManifestsGo
    <3> QED  BY <1>3, <3>1 DEF OverlapInv, Spared
  <2>2. CASE d \notin manifests
    BY <1>3, <2>2 DEF ManifestKept
  <2> QED  BY <2>1, <2>2
<1> QED  BY <1>2, <1>3, <1>4, OverlapStep

(* Next to deploys, too, what is kept but for one row, and what is active,   *)
(* has its manifest.                                                         *)
THEOREM ManifestsButOneHolds ==
  ASSUME Retention >= 1, "rollback" \notin Handlers
  PROVE  Spec => []ManifestsButOne
<1>1. Init => OverlapInv /\ TreeInv /\ ManifestKept
  BY OverlapInit, TreeInit DEF Init, ManifestKept
<1>2. OverlapInv /\ TreeInv /\ ManifestKept /\ [Next]_vars
        => (OverlapInv /\ TreeInv /\ ManifestKept)'
  BY OverlapStep, TreeStep, ManifestStep
<1>3. OverlapInv /\ TreeInv /\ ManifestKept => ManifestsButOne
  <2> SUFFICES ASSUME OverlapInv, ManifestKept, NEW pg \in Page, page[pg] = "live",
                      NEW d \in RowsOf(pg) \cap recorded,
                      d \in active \/ Cardinality(Newer(d)) < Retention - 1
               PROVE  d \in manifests
    BY DEF ManifestsButOne
  <2>1. TypeOK /\ d \in Deployment /\ d[1] = pg
    BY DEF OverlapInv, Typed, TypeOK, RowsOf
  <2>2. /\ Cardinality(NewerSettled(d)) <= Cardinality(Newer(d))
        /\ Cardinality(NewerSettled(d)) \in Nat /\ Cardinality(Newer(d)) \in Nat
    BY <2>1, NewerFew
  <2>3. ~Spare(d)
    BY <2>2, CleanupAssumption DEF Spare
  <2> QED  BY <2>1, <2>3 DEF ManifestKept
<1> QED  BY <1>1, <1>2, <1>3, PTL DEF Spec
=============================================================================
