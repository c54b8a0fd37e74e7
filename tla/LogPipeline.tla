----------------------------- MODULE LogPipeline -----------------------------
(* service/logs: the one-shot worker that folds Logpush files into the      *)
(* usage counters.  A cron starts the machine; a run drains the event queue *)
(* into pending_files, scans the recent days of the bucket, claims the      *)
(* oldest pending rows and folds each file in a transaction.  Any error     *)
(* ends the run.  A file is one of a few kinds of content, and counted[k]   *)
(* says how often its records were added to the counters.                   *)
EXTENDS Naturals, Sequences, FiniteSets

CONSTANTS
    Worker,     \* machines that run the worker; the cron knows one
    Key,        \* names of the files, in the order that SQL sorts them
    Junk,       \* a queue message that names no file
    DrainBatch, DrainMax, MaxFiles,  \* limits of the configuration
    MaxEvents,  \* bound: notifications sent
    MaxFaults   \* bound: transient errors

ASSUME PipelineAssumption ==
    /\ Key \subseteq Nat /\ IsFiniteSet(Key) /\ Junk \notin Key
    /\ IsFiniteSet(Worker)
    /\ {DrainBatch, DrainMax, MaxFiles, MaxEvents, MaxFaults} \subseteq Nat

VARIABLES
    kind,       \* what a file holds: lines of tenants (old: of a day before
                \* those that a scan lists), lines of other hosts only, bytes
                \* that do not parse; or its name lies outside raw/
    object,     \* bucket: a file is absent, being uploaded or there
    queue,      \* messages not acknowledged
    pending, ahead,  \* pending_files, and the rows that sort before a row
    processed, counted,
    wkpc, batch, pulls, todo,  \* a run: where it is, the keys it works on
    events, faults

bucket == <<kind, object>>
tables == <<pending, ahead, processed, counted>>
run == <<batch, pulls, todo>>
Kind == {"tenant", "old", "foreign", "corrupt", "outside"}

pipelineVars == <<bucket, tables, run, queue, wkpc, events, faults>>

PipelineTypeOK ==
    /\ kind \in [Key -> Kind]
    /\ object \in [Key -> {"absent", "partial", "there"}]
    /\ queue \subseteq Key \cup {Junk}
    /\ pending \subseteq Key /\ processed \subseteq Key
    /\ ahead \in [Key -> SUBSET Key]
    /\ counted \in [Key -> Nat]
    /\ wkpc \in [Worker -> {"off", "pull", "insert", "ack", "list", "stage",
                          "claim", "next", "fetch", "store"}]
    /\ batch \in [Worker -> SUBSET (Key \cup {Junk})]
    /\ pulls \in [Worker -> Nat]
    /\ todo \in [Worker -> Seq(Key)]
    /\ events \in Nat /\ faults \in Nat

PipelineInit ==
    /\ kind \in [Key -> Kind]
    /\ object = [k \in Key |-> "absent"]
    /\ queue = {Junk}
    /\ pending = {} /\ ahead = [k \in Key |-> {}]
    /\ processed = {} /\ counted = [k \in Key |-> 0]
    /\ wkpc = [w \in Worker |-> "off"]
    /\ batch = [w \in Worker |-> {}]
    /\ pulls = [w \in Worker |-> 0]
    /\ todo = [w \in Worker |-> <<>>]
    /\ events = 0 /\ faults = 0
-----------------------------------------------------------------------------
(* The bucket and its notifications, which may be missing, early or double. *)
Uploads(k) ==
    /\ object[k] # "there"
    /\ object' = [object EXCEPT ![k] = IF @ = "absent" THEN "partial" ELSE "there"]
    /\ UNCHANGED <<kind, tables, run, queue, wkpc, events, faults>>

Notifies(k) ==
    /\ events < MaxEvents
    /\ events' = events + 1
    /\ queue' = queue \cup {k}
    /\ UNCHANGED <<bucket, tables, run, wkpc, faults>>

-----------------------------------------------------------------------------
(* INSERT ... ON CONFLICT DO NOTHING in one implicit transaction: the new   *)
(* rows share their created_at and sort behind the others, then by key.     *)
Stage(keys) ==
    LET new == keys \ pending
    IN /\ pending' = pending \cup new
       /\ ahead' = [k \in Key |->
              IF k \in new THEN pending \cup {j \in new : j < k} ELSE ahead[k]]

Unstage(k) ==
    /\ pending' = pending \ {k}
    /\ ahead' = [j \in Key |-> IF j = k THEN {} ELSE ahead[j] \ {k}]

RunGoto(w, label) == wkpc' = [wkpc EXCEPT ![w] = label]

(* The cron, or POST /start; 409 and 422 mean that the machine runs.        *)
StartRun(w) ==
    /\ wkpc[w] = "off"
    /\ RunGoto(w, "pull")
    /\ UNCHANGED <<bucket, tables, run, queue, events, faults>>

(* A pull leases messages; it may come back empty, and a lease may lapse,   *)
(* so that a message is leased again.                                       *)
Pull(w) ==
    /\ wkpc[w] = "pull"
    /\ \/ /\ pulls[w] < DrainMax
          /\ \E S \in SUBSET queue :
                /\ S # {} /\ Cardinality(S) <= DrainBatch
                /\ batch' = [batch EXCEPT ![w] = S]
          /\ RunGoto(w, "insert")
       \/ /\ batch' = [batch EXCEPT ![w] = {}]
          /\ RunGoto(w, "list")
    /\ UNCHANGED <<bucket, tables, pulls, todo, queue, events, faults>>

InsertPending(w) ==
    /\ wkpc[w] = "insert"
    /\ Stage(batch[w] \ {Junk})
    /\ RunGoto(w, "ack")
    /\ UNCHANGED <<bucket, processed, counted, run, queue, events, faults>>

(* The messages that cannot be parsed are acknowledged with the others.  A  *)
(* full batch is followed by another pull.                                  *)
Ack(w) ==
    /\ wkpc[w] = "ack"
    /\ queue' \in {queue \ batch[w], queue}
    /\ pulls' = [pulls EXCEPT ![w] = @ + 1]
    /\ batch' = [batch EXCEPT ![w] = {}]
    /\ RunGoto(w, IF Cardinality(batch[w]) < DrainBatch THEN "list" ELSE "pull")
    /\ UNCHANGED <<bucket, tables, todo, events, faults>>

List(w) ==
    /\ wkpc[w] = "list"
    /\ batch' = [batch EXCEPT ![w] =
           {k \in Key : object[k] # "absent" /\ kind[k] \notin {"old", "outside"}}]
    /\ RunGoto(w, "stage")
    /\ UNCHANGED <<bucket, tables, pulls, todo, queue, events, faults>>

StageScannedReady(w) ==
    /\ wkpc[w] = "stage"
    /\ Stage(batch[w] \ processed)
    /\ batch' = [batch EXCEPT ![w] = {}]
    /\ RunGoto(w, "claim")
    /\ UNCHANGED <<bucket, processed, counted, pulls, todo, queue, events, faults>>

(* Mutation of Claimed: the youngest rows.                                  *)
ClaimedYoungest == {k \in pending : Cardinality({j \in pending : k \in ahead[j]}) < MaxFiles}

(* ORDER BY created_at, key LIMIT MaxFiles.                                 *)
Sorted(S) ==
    {s \in [1..Cardinality(S) -> S] :
        \A i, j \in 1..Cardinality(S) : i < j => s[i] \in ahead[s[j]]}
Claimed == {k \in pending : Cardinality(ahead[k]) < MaxFiles}

(* A plain SELECT: the rows are neither locked nor marked.                  *)
ClaimPending(w) ==
    /\ wkpc[w] = "claim"
    /\ \E keys \in Sorted(Claimed) : todo' = [todo EXCEPT ![w] = keys]
    /\ RunGoto(w, "next")
    /\ UNCHANGED <<bucket, tables, batch, pulls, queue, events, faults>>
-----------------------------------------------------------------------------
(* processFiles, in the order of the claim.                                 *)
Current(w, k) == todo[w] # <<>> /\ k = Head(todo[w])

FileDone(w) ==
    /\ todo' = [todo EXCEPT ![w] = Tail(@)]
    /\ RunGoto(w, "next")

EndRun(w) ==
    /\ RunGoto(w, "off")
    /\ batch' = [batch EXCEPT ![w] = {}]
    /\ pulls' = [pulls EXCEPT ![w] = 0]
    /\ todo' = [todo EXCEPT ![w] = <<>>]

RunCompletes(w) ==
    /\ wkpc[w] = "next" /\ todo[w] = <<>>
    /\ EndRun(w)
    /\ UNCHANGED <<bucket, tables, queue, events, faults>>

(* Mutation of IsProcessed: the table of the processed files is not read.   *)
IsProcessedNever(k) == kind[k] = "outside"

IsProcessed(k) == kind[k] = "outside" \/ k \in processed

DeletePending(w, k) ==
    /\ wkpc[w] = "next" /\ Current(w, k) /\ IsProcessed(k)
    /\ Unstage(k)
    /\ FileDone(w)
    /\ UNCHANGED <<bucket, processed, counted, batch, pulls, queue, events, faults>>

IsNotProcessed(w, k) ==
    /\ wkpc[w] = "next" /\ Current(w, k) /\ ~ IsProcessed(k)
    /\ RunGoto(w, "fetch")
    /\ UNCHANGED <<bucket, tables, run, queue, events, faults>>

(* Mutation of LeavePending: a row whose file is not found is deleted.      *)
LeavePendingNot(w, k) ==
    /\ wkpc[w] = "fetch" /\ Current(w, k)
    /\ object[k] # "there" \/ kind[k] = "foreign"
    /\ IF object[k] = "there" THEN UNCHANGED <<pending, ahead>> ELSE Unstage(k)
    /\ FileDone(w)
    /\ UNCHANGED <<bucket, processed, counted, batch, pulls, queue, events, faults>>

(* A file that is not found, or yields no record, stays pending.            *)
LeavePending(w, k) ==
    /\ wkpc[w] = "fetch" /\ Current(w, k)
    /\ object[k] # "there" \/ kind[k] = "foreign"
    /\ FileDone(w)
    /\ UNCHANGED <<bucket, tables, batch, pulls, queue, events, faults>>

(* A file that cannot be unpacked or scanned ends the run.                  *)
FileFails(w, k) ==
    /\ wkpc[w] = "fetch" /\ Current(w, k)
    /\ object[k] = "there" /\ kind[k] = "corrupt"
    /\ EndRun(w)
    /\ UNCHANGED <<bucket, tables, queue, events, faults>>

Aggregate(w, k) ==
    /\ wkpc[w] = "fetch" /\ Current(w, k)
    /\ object[k] = "there" /\ kind[k] \in {"tenant", "old"}
    /\ RunGoto(w, "store")
    /\ UNCHANGED <<bucket, tables, run, queue, events, faults>>

(* One transaction: add to the counters, mark, unstage.  processed_files is *)
(* written with ON CONFLICT DO NOTHING and not looked at again.             *)
StoreFile(w, k) ==
    /\ wkpc[w] = "store" /\ Current(w, k)
    /\ counted' = [counted EXCEPT ![k] = @ + 1]
    /\ processed' = processed \cup {k}
    /\ Unstage(k)
    /\ FileDone(w)
    /\ UNCHANGED <<bucket, batch, pulls, queue, events, faults>>

(* Any failed call, the ten minutes of the context, or a killed machine.    *)
RunFails(w) ==
    /\ wkpc[w] # "off" /\ faults < MaxFaults
    /\ faults' = faults + 1
    /\ EndRun(w)
    /\ UNCHANGED <<bucket, tables, queue, events>>
-----------------------------------------------------------------------------
File(w, k) ==
    \/ DeletePending(w, k) \/ IsNotProcessed(w, k) \/ LeavePending(w, k)
    \/ FileFails(w, k) \/ Aggregate(w, k) \/ StoreFile(w, k)

RunStep(w) ==
    \/ StartRun(w) \/ Pull(w) \/ InsertPending(w) \/ Ack(w) \/ List(w)
    \/ StageScannedReady(w) \/ ClaimPending(w) \/ RunCompletes(w)
    \/ \E k \in Key : File(w, k)

PipelineNext ==
    \/ \E k \in Key : Uploads(k) \/ Notifies(k)
    \/ \E w \in Worker : RunStep(w) \/ RunFails(w)

PipelineSpec == PipelineInit /\ [][PipelineNext]_pipelineVars

(* Fairness: the cron ticks and a running machine goes on.  Uploads and     *)
(* notifications are not fair: a property speaks of files that are there.   *)
PipelineFairSpec == PipelineSpec /\ \A w \in Worker : WF_pipelineVars(RunStep(w))
=============================================================================
