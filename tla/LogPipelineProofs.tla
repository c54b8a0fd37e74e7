--------------------------- MODULE LogPipelineProofs ---------------------------
(* Theorems about modules LogPipeline and LogPipelineProps, for any number   *)
(* of workers and files and whatever the limits of the configuration are.    *)
EXTENDS LogPipelineProps, FiniteSetTheorems, TLAPS

(* What a worker works on is what its place in the run says: it stages keys, *)
(* and acknowledges a key only when pending_files or the counters have it.   *)
Staged(w) ==
    /\ wkpc[w] = "stage" => batch[w] \subseteq Key
    /\ wkpc[w] = "ack" =>
           \A k \in batch[w] \cap Key :
               k \in pending \cup processed \/ kind[k] = "outside"
    /\ wkpc[w] \in {"fetch", "store"} => todo[w] # <<>>

(* The workers that have found k not processed and have not stored it yet.   *)
(* Each of them may still add k to the counters, and nobody joins them once  *)
(* k is processed.                                                           *)
InFlight(k) == {w \in Worker : wkpc[w] \in {"fetch", "store"} /\ Current(w, k)}

Shares(k) ==
    /\ counted[k] > 0 <=> k \in processed
    /\ counted[k] + Cardinality(InFlight(k)) <= Cardinality(Worker)

PipelineInv ==
    /\ PipelineTypeOK
    /\ \A w \in Worker : Staged(w)
    /\ \A k \in Key : Shares(k)

(* Any set of workers is finite and has at most as many as there are.        *)
LEMMA FewWorkers ==
  ASSUME NEW S \in SUBSET Worker
  PROVE  /\ IsFiniteSet(S)
         /\ Cardinality(S) \in Nat /\ Cardinality(Worker) \in Nat
         /\ Cardinality(S) <= Cardinality(Worker)
BY PipelineAssumption, FS_Subset, FS_CardinalityType

(* A smaller set of workers in flight leaves an uncounted share free.        *)
LEMMA SharesKept ==
  ASSUME NEW k \in Key, Shares(k), counted[k] \in Nat,
         counted'[k] = counted[k], k \in processed' <=> k \in processed,
         InFlight(k)' \subseteq InFlight(k)
  PROVE  Shares(k)'
<1>1. InFlight(k) \subseteq Worker
  BY DEF InFlight
<1>2. /\ IsFiniteSet(InFlight(k)) /\ Cardinality(InFlight(k)) \in Nat
      /\ Cardinality(Worker) \in Nat
  BY <1>1, FewWorkers
<1>3. /\ Cardinality(InFlight(k)') <= Cardinality(InFlight(k))
      /\ Cardinality(InFlight(k)') \in Nat
  BY <1>2, FS_Subset, FS_CardinalityType
<1> QED  BY <1>2, <1>3 DEF Shares

(* Staging keeps the rows there are and adds keys only.                      *)
LEMMA StageFacts ==
  ASSUME PipelineTypeOK, NEW keys \in SUBSET Key, Stage(keys)
  PROVE  /\ pending' \subseteq Key /\ pending' = pending \cup keys
         /\ ahead' \in [Key -> SUBSET Key]
BY DEF Stage, PipelineTypeOK

(* A row that goes is the only one that goes.                                *)
LEMMA UnstageFacts ==
  ASSUME PipelineTypeOK, NEW k \in Key, Unstage(k)
  PROVE  pending' = pending \ {k} /\ ahead' \in [Key -> SUBSET Key]
BY DEF Unstage, PipelineTypeOK

(* At first no worker runs and nothing is counted.                           *)
LEMMA PipelineInvInit == PipelineInit => PipelineInv
<1> SUFFICES ASSUME PipelineInit PROVE PipelineInv
  OBVIOUS
<1>1. PipelineTypeOK
  BY DEF PipelineInit, PipelineTypeOK
<1>2. \A w \in Worker : Staged(w)
  BY DEF PipelineInit, Staged
<1>3. ASSUME NEW k \in Key PROVE Shares(k)
  <2>1. InFlight(k) \subseteq Worker /\ counted[k] = 0 /\ k \notin processed
    BY DEF PipelineInit, InFlight
  <2> QED  BY <2>1, FewWorkers DEF Shares
<1> QED  BY <1>1, <1>2, <1>3 DEF PipelineInv

(* Uploads and notifications touch neither the tables nor the workers.       *)
LEMMA OutsideKeeps ==
  ASSUME PipelineInv, NEW k \in Key, Uploads(k) \/ Notifies(k)
  PROVE  PipelineInv'
<1> USE DEF PipelineInv, bucket, tables, run
<1>1. PipelineTypeOK'
  <2>1. CASE Uploads(k)
    <3>1. object'[k] \in {"partial", "there"} /\ object' = [object EXCEPT ![k] = object'[k]]
      BY <2>1 DEF PipelineTypeOK, Uploads
    <3> QED  BY <2>1, <3>1 DEF PipelineTypeOK, Uploads
  <2>2. CASE Notifies(k)
    BY <2>2 DEF PipelineTypeOK, Notifies
  <2> QED  BY <2>1, <2>2
<1>2. UNCHANGED <<kind, tables, run, wkpc>>
  BY DEF Uploads, Notifies
<1>3. \A w \in Worker : Staged(w)'
  BY <1>2 DEF Staged
<1>4. \A j \in Key : InFlight(j)' = InFlight(j)
  BY <1>2 DEF InFlight, Current
<1>5. \A j \in Key : Shares(j)'
  BY <1>2, <1>4, SharesKept DEF PipelineTypeOK
<1> QED  BY <1>1, <1>3, <1>5

(* A worker that neither fetches nor stores after its step, and leaves the   *)
(* counters alone, keeps the shares.                                         *)
LEMMA SharesElsewhere ==
  ASSUME PipelineInv, NEW w \in Worker, UNCHANGED <<processed, counted>>,
         wkpc'[w] \notin {"fetch", "store"},
         \A v \in Worker \ {w} : wkpc'[v] = wkpc[v] /\ todo'[v] = todo[v]
  PROVE  \A k \in Key : Shares(k)'
<1>1. \A k \in Key : InFlight(k)' \subseteq InFlight(k)
  BY DEF InFlight, Current
<1> QED  BY <1>1, SharesKept DEF PipelineInv, PipelineTypeOK

(* The steps of a run before it turns to the files.                          *)
LEMMA RunKeeps ==
  ASSUME PipelineInv, NEW w \in Worker,
         \/ StartRun(w) \/ Pull(w) \/ InsertPending(w) \/ Ack(w) \/ List(w)
         \/ StageScannedReady(w) \/ ClaimPending(w) \/ RunCompletes(w) \/ RunFails(w)
  PROVE  PipelineInv'
<1> USE DEF PipelineInv, bucket, tables, run, RunGoto
<1>1. CASE StartRun(w)
  <2>1. PipelineTypeOK'
    BY <1>1 DEF StartRun, PipelineTypeOK
  <2>2. \A v \in Worker : Staged(v)'
    BY <1>1 DEF StartRun, Staged, PipelineTypeOK
  <2>3. \A k \in Key : Shares(k)'
    BY <1>1, SharesElsewhere DEF StartRun, PipelineTypeOK
  <2> QED  BY <2>1, <2>2, <2>3
<1>2. CASE Pull(w)
  <2>1. PipelineTypeOK'
    BY <1>2 DEF Pull, PipelineTypeOK
  <2>2. \A v \in Worker : Staged(v)'
    BY <1>2 DEF Pull, Staged, PipelineTypeOK
  <2>3. \A k \in Key : Shares(k)'
    BY <1>2, SharesElsewhere DEF Pull, PipelineTypeOK
  <2> QED  BY <2>1, <2>2, <2>3
<1>3. CASE InsertPending(w)
  <2>0. batch[w] \ {Junk} \subseteq Key
    BY DEF PipelineTypeOK
  <2>1. /\ pending' \subseteq Key /\ pending' = pending \cup (batch[w] \ {Junk})
        /\ ahead' \in [Key -> SUBSET Key]
    BY <1>3, <2>0, StageFacts DEF InsertPending
  <2>2. PipelineTypeOK'
    BY <1>3, <2>1 DEF InsertPending, PipelineTypeOK
  <2>3. \A v \in Worker : Staged(v)'
    BY <1>3, <2>1, PipelineAssumption DEF InsertPending, Staged, PipelineTypeOK
  <2>4. \A k \in Key : Shares(k)'
    BY <1>3, SharesElsewhere DEF InsertPending, PipelineTypeOK
  <2> QED  BY <2>2, <2>3, <2>4
<1>4. CASE Ack(w)
  <2>1. wkpc'[w] \in {"list", "pull"} /\ wkpc[w] = "ack"
    BY <1>4 DEF Ack, PipelineTypeOK
  <2>2. PipelineTypeOK'
    BY <1>4 DEF Ack, PipelineTypeOK
  <2>3. \A v \in Worker : Staged(v)'
    BY <1>4, <2>1 DEF Ack, Staged, PipelineTypeOK
  <2>4. \A k \in Key : Shares(k)'
    BY <1>4, <2>1, SharesElsewhere DEF Ack, PipelineTypeOK
  <2> QED  BY <2>2, <2>3, <2>4
<1>5. CASE List(w)
  <2>1. PipelineTypeOK'
    BY <1>5 DEF List, PipelineTypeOK
  <2>2. \A v \in Worker : Staged(v)'
    BY <1>5 DEF List, Staged, PipelineTypeOK
  <2>3. \A k \in Key : Shares(k)'
    BY <1>5, SharesElsewhere DEF List, PipelineTypeOK
  <2> QED  BY <2>1, <2>2, <2>3
<1>6. CASE StageScannedReady(w)
  <2>0. batch[w] \ processed \subseteq Key
    BY <1>6 DEF StageScannedReady, Staged
  <2>1. /\ pending' \subseteq Key /\ pending' = pending \cup (batch[w] \ processed)
        /\ ahead' \in [Key -> SUBSET Key]
    BY <1>6, <2>0, StageFacts DEF StageScannedReady
  <2>2. PipelineTypeOK'
    BY <1>6, <2>1 DEF StageScannedReady, PipelineTypeOK
  <2>3. \A v \in Worker : Staged(v)'
    BY <1>6, <2>1 DEF StageScannedReady, Staged, PipelineTypeOK
  <2>4. \A k \in Key : Shares(k)'
    BY <1>6, SharesElsewhere DEF StageScannedReady, PipelineTypeOK
  <2> QED  BY <2>2, <2>3, <2>4
<1>7. CASE ClaimPending(w)
  <2>1. IsFiniteSet(Claimed) /\ Claimed \subseteq Key
    BY PipelineAssumption, FS_Subset DEF Claimed, PipelineTypeOK
  <2>2. Cardinality(Claimed) \in Nat
    BY <2>1, FS_CardinalityType
  <2>3. PICK keys \in Sorted(Claimed) : todo' = [todo EXCEPT ![w] = keys]
    BY <1>7 DEF ClaimPending
  <2>4. keys \in Seq(Key)
    BY <2>1, <2>2, <2>3 DEF Sorted
  <2>5. PipelineTypeOK'
    BY <1>7, <2>3, <2>4 DEF ClaimPending, PipelineTypeOK
  <2>6. \A v \in Worker : Staged(v)'
    BY <1>7, <2>3 DEF ClaimPending, Staged, PipelineTypeOK
  <2>7. \A k \in Key : Shares(k)'
    BY <1>7, <2>3, SharesElsewhere DEF ClaimPending, PipelineTypeOK
  <2> QED  BY <2>5, <2>6, <2>7
<1>8. CASE RunCompletes(w) \/ RunFails(w)
  <2>1. /\ EndRun(w) /\ UNCHANGED <<bucket, tables, queue, events>>
        /\ faults' \in {faults, faults + 1}
    BY <1>8 DEF RunCompletes, RunFails
  <2>2. PipelineTypeOK'
    BY <2>1 DEF EndRun, PipelineTypeOK
  <2>3. \A v \in Worker : Staged(v)'
    BY <2>1 DEF EndRun, Staged, PipelineTypeOK
  <2>4. \A k \in Key : Shares(k)'
    BY <2>1, SharesElsewhere DEF EndRun, PipelineTypeOK
  <2> QED  BY <2>2, <2>3, <2>4
<1> QED  BY <1>1, <1>2, <1>3, <1>4, <1>5, <1>6, <1>7, <1>8

(* The steps of a worker at a file.                                          *)
LEMMA FileKeeps ==
  ASSUME PipelineInv, NEW w \in Worker, NEW k \in Key, File(w, k)
  PROVE  PipelineInv'
<1> USE DEF PipelineInv, bucket, tables, run, RunGoto
<1>0. todo[w] # <<>> => Tail(todo[w]) \in Seq(Key)
  BY DEF PipelineTypeOK
<1>1. CASE DeletePending(w, k)
  <2>1. pending' = pending \ {k} /\ ahead' \in [Key -> SUBSET Key]
    BY <1>1, UnstageFacts DEF DeletePending
  <2>2. PipelineTypeOK'
    BY <1>0, <1>1, <2>1 DEF DeletePending, FileDone, Current, PipelineTypeOK
  <2>3. \A v \in Worker : Staged(v)'
    BY <1>1, <2>1 DEF DeletePending, IsProcessed, FileDone, Staged, PipelineTypeOK
  <2>4. \A j \in Key : Shares(j)'
    BY <1>1, SharesElsewhere DEF DeletePending, FileDone, PipelineTypeOK
  <2> QED  BY <2>2, <2>3, <2>4
<1>2. CASE IsNotProcessed(w, k)
  <2>1. PipelineTypeOK'
    BY <1>2 DEF IsNotProcessed, PipelineTypeOK
  <2>2. \A v \in Worker : Staged(v)'
    BY <1>2 DEF IsNotProcessed, Current, Staged, PipelineTypeOK
  <2>3. k \notin processed /\ UNCHANGED <<processed, counted, todo>>
    BY <1>2 DEF IsNotProcessed, IsProcessed
  <2>4. Shares(k)'
    <3>1. counted'[k] = 0 /\ k \notin processed'
      BY <2>3 DEF Shares, PipelineTypeOK
    <3>2. InFlight(k)' \subseteq Worker
      BY DEF InFlight
    <3> QED  BY <3>1, <3>2, FewWorkers DEF Shares
  <2>5. \A j \in Key \ {k} : InFlight(j)' \subseteq InFlight(j)
    BY <1>2 DEF IsNotProcessed, InFlight, Current, PipelineTypeOK
  <2>6. \A j \in Key \ {k} : Shares(j)'
    BY <2>3, <2>5, SharesKept DEF PipelineTypeOK
  <2> QED  BY <2>1, <2>2, <2>4, <2>6
<1>3. CASE LeavePending(w, k)
  <2>1. PipelineTypeOK'
    BY <1>0, <1>3 DEF LeavePending, FileDone, Current, PipelineTypeOK
  <2>2. \A v \in Worker : Staged(v)'
    BY <1>3 DEF LeavePending, FileDone, Staged, PipelineTypeOK
  <2>3. \A j \in Key : Shares(j)'
    BY <1>3, SharesElsewhere DEF LeavePending, FileDone, PipelineTypeOK
  <2> QED  BY <2>1, <2>2, <2>3
<1>4. CASE FileFails(w, k)
  <2>1. PipelineTypeOK'
    BY <1>4 DEF FileFails, EndRun, PipelineTypeOK
  <2>2. \A v \in Worker : Staged(v)'
    BY <1>4 DEF FileFails, EndRun, Staged, PipelineTypeOK
  <2>3. \A j \in Key : Shares(j)'
    BY <1>4, SharesElsewhere DEF FileFails, EndRun, PipelineTypeOK
  <2> QED  BY <2>1, <2>2, <2>3
<1>5. CASE Aggregate(w, k)
  <2>1. PipelineTypeOK'
    BY <1>5 DEF Aggregate, PipelineTypeOK
  <2>2. \A v \in Worker : Staged(v)'
    BY <1>5 DEF Aggregate, Staged, PipelineTypeOK
  <2>3. UNCHANGED <<processed, counted, todo>>
    BY <1>5 DEF Aggregate
  <2>4. \A j \in Key : InFlight(j)' \subseteq InFlight(j)
    BY <1>5 DEF Aggregate, InFlight, Current, PipelineTypeOK
  <2>5. \A j \in Key : Shares(j)'
    BY <2>3, <2>4, SharesKept DEF PipelineTypeOK
  <2> QED  BY <2>1, <2>2, <2>5
<1>6. CASE StoreFile(w, k)
  <2>1. pending' = pending \ {k} /\ ahead' \in [Key -> SUBSET Key]
    BY <1>6, UnstageFacts DEF StoreFile
  <2>2. PipelineTypeOK'
    <3>1. counted' \in [Key -> Nat] /\ processed' \subseteq Key /\ pending' \subseteq Key
      BY <1>6, <2>1 DEF StoreFile, PipelineTypeOK
    <3>2. todo' \in [Worker -> Seq(Key)] /\ wkpc' = [wkpc EXCEPT ![w] = "next"]
      BY <1>0, <1>6 DEF StoreFile, FileDone, Current, PipelineTypeOK
    <3> QED  BY <1>6, <2>1, <3>1, <3>2 DEF StoreFile, PipelineTypeOK
  <2>3. \A v \in Worker : Staged(v)'
    BY <1>6, <2>1 DEF StoreFile, FileDone, Staged, PipelineTypeOK
  <2>4. Shares(k)'
    <3>1. w \in InFlight(k) /\ InFlight(k) \subseteq Worker
      BY <1>6 DEF StoreFile, InFlight
    <3>2. InFlight(k)' = InFlight(k) \ {w}
      BY <1>6 DEF StoreFile, FileDone, InFlight, Current, PipelineTypeOK
    <3>3. /\ IsFiniteSet(InFlight(k)) /\ Cardinality(InFlight(k)) \in Nat
          /\ Cardinality(Worker) \in Nat
      BY <3>1, FewWorkers
    <3>4. Cardinality(InFlight(k)') = Cardinality(InFlight(k)) - 1
      BY <3>1, <3>2, <3>3, FS_RemoveElement
    <3>5. counted[k] \in Nat /\ counted'[k] = counted[k] + 1 /\ k \in processed'
      BY <1>6 DEF StoreFile, PipelineTypeOK
    <3> QED  BY <3>3, <3>4, <3>5 DEF Shares
  <2>5. \A j \in Key \ {k} : /\ counted'[j] = counted[j] /\ counted[j] \in Nat
                             /\ j \in processed' <=> j \in processed
                             /\ InFlight(j)' \subseteq InFlight(j)
    BY <1>6 DEF StoreFile, FileDone, InFlight, Current, PipelineTypeOK
  <2>6. \A j \in Key \ {k} : Shares(j)'
    BY <2>5, SharesKept
  <2> QED  BY <2>2, <2>3, <2>4, <2>6
<1> QED  BY <1>1, <1>2, <1>3, <1>4, <1>5, <1>6 DEF File

(* Every step keeps the invariant.                                           *)
LEMMA PipelineInvStep == PipelineInv /\ [PipelineNext]_pipelineVars => PipelineInv'
<1> SUFFICES ASSUME PipelineInv, [PipelineNext]_pipelineVars PROVE PipelineInv'
  OBVIOUS
<1>1. CASE PipelineNext
  BY <1>1, OutsideKeeps, RunKeeps, FileKeeps DEF PipelineNext, RunStep
<1>2. CASE UNCHANGED pipelineVars
  BY <1>2 DEF PipelineInv, PipelineTypeOK, Staged, Shares, InFlight, Current,
     pipelineVars, bucket, tables, run
<1> QED  BY <1>1, <1>2

(* The invariant holds in every reachable state.                             *)
LEMMA PipelineInvAlways == PipelineSpec => []PipelineInv
BY PipelineInvInit, PipelineInvStep, PTL DEF PipelineSpec

(* Every reachable state of the worker has the types that it declares.       *)
THEOREM PipelineTypeCorrect == PipelineSpec => []PipelineTypeOK
<1>1. PipelineInv => PipelineTypeOK
  BY DEF PipelineInv
<1> QED  BY <1>1, PipelineInvAlways, PTL

(* The counters hold a file exactly when it is marked as processed, and no   *)
(* worker adds it twice: with one worker, as the cron runs it, once.         *)
THEOREM CountedOnceHolds == PipelineSpec => []CountedOnce
<1>1. ASSUME PipelineInv PROVE CountedOnce
  <2> SUFFICES ASSUME NEW k \in Key
               PROVE  (counted[k] > 0 <=> k \in processed)
                      /\ counted[k] <= Cardinality(Worker)
    BY DEF CountedOnce
  <2>1. InFlight(k) \subseteq Worker
    BY DEF InFlight
  <2>2. Cardinality(InFlight(k)) \in Nat /\ Cardinality(Worker) \in Nat
    BY <2>1, FewWorkers
  <2> QED  BY <1>1, <2>2 DEF PipelineInv, PipelineTypeOK, Shares
<1> QED  BY <1>1, PipelineInvAlways, PTL

(* A known file stays known through each step.                               *)
LEMMA KnownStays ==
  ASSUME PipelineInv, PipelineNext
  PROVE  Known \subseteq Known'
<1> USE DEF bucket, tables, run, Known
<1>1. ASSUME NEW k \in Key, Uploads(k) \/ Notifies(k)
      PROVE  Known \subseteq Known'
  BY <1>1 DEF Uploads, Notifies
<1>2. ASSUME NEW w \in Worker, InsertPending(w) \/ StageScannedReady(w)
      PROVE  Known \subseteq Known'
  BY <1>2 DEF InsertPending, StageScannedReady, Stage
<1>3. ASSUME NEW w \in Worker, Ack(w)
      PROVE  Known \subseteq Known'
  <2>1. Staged(w) /\ wkpc[w] = "ack"
    BY <1>3 DEF Ack, PipelineInv
  <2>2. UNCHANGED <<kind, pending, processed>> /\ queue \ batch[w] \subseteq queue'
    BY <1>3 DEF Ack
  <2> QED  BY <2>1, <2>2 DEF Staged
<1>4. ASSUME NEW w \in Worker,
             \/ StartRun(w) \/ Pull(w) \/ List(w) \/ ClaimPending(w)
             \/ RunCompletes(w) \/ RunFails(w)
      PROVE  Known \subseteq Known'
  BY <1>4 DEF StartRun, Pull, List, ClaimPending, RunCompletes, RunFails
<1>5. ASSUME NEW w \in Worker, NEW k \in Key, DeletePending(w, k) \/ StoreFile(w, k)
      PROVE  Known \subseteq Known'
  BY <1>5 DEF DeletePending, IsProcessed, StoreFile, Unstage
<1>6. ASSUME NEW w \in Worker, NEW k \in Key,
             \/ IsNotProcessed(w, k) \/ LeavePending(w, k)
             \/ FileFails(w, k) \/ Aggregate(w, k)
      PROVE  Known \subseteq Known'
  BY <1>6 DEF IsNotProcessed, LeavePending, FileFails, Aggregate
<1> QED
  BY <1>1, <1>2, <1>3, <1>4, <1>5, <1>6 DEF PipelineNext, RunStep, File

(* Whatever is redelivered, interrupted or tried again, a file that the      *)
(* queue or pending_files names is not forgotten before it is counted.       *)
THEOREM NothingForgottenHolds == PipelineSpec => NothingForgotten
<1>1. PipelineInv /\ [PipelineNext]_pipelineVars => [Known \subseteq Known']_pipelineVars
  BY KnownStays
<1> QED  BY <1>1, PipelineInvAlways, PTL DEF PipelineSpec, NothingForgotten
=============================================================================
