----------------------------- MODULE UsageIngest -----------------------------
(* POST /internal/usage/ingest: a batch of hourly records is applied in one *)
(* Postgres transaction.  A record is claimed in usage_ingest_dedup and     *)
(* then added to the billing row, the metrics row and the daily row of its  *)
(* site.  Batches run concurrently, repeat records and are sent again when  *)
(* they fail or their answer is lost.  metrics[r] and billing[r] say how    *)
(* often record r was added.                                                *)
EXTENDS Naturals, Sequences

CONSTANTS
    Batch,      \* requests of the producer
    Record,     \* ingest ids; an id stands for one content
    MaxBody,    \* bound: records of a batch
    MaxLost     \* bound: transient errors and lost answers

ASSUME IngestAssumption == {MaxBody, MaxLost} \subseteq Nat

Shape == {"metered",    \* bandwidth_bytes > 0
          "free",       \* none: there is nothing to bill
          "undated",    \* its bucket is not a date
          "malformed"}  \* refused by validateRecord

VARIABLES
    shape, body,    \* what the producer sends
    place, ipc,        \* a request: the record it is at, and what it does next
    claims, adds, bills,  \* what its open transaction has written
    tenantKnown,    \* the page row of the site is there
    dedup, metrics, billing,  \* committed
    lost

request == <<place, ipc, claims, adds, bills>>
committed == <<dedup, metrics, billing>>
ingestVars == <<shape, body, request, tenantKnown, committed, lost>>

Bodies == UNION {[1..n -> Record] : n \in 0..MaxBody}

IngestTypeOK ==
    /\ shape \in [Record -> Shape]
    /\ body \in [Batch -> Seq(Record)]
    /\ place \in [Batch -> Nat \ {0}]
    /\ \A p \in Batch : place[p] <= Len(body[p]) + 1
    /\ ipc \in [Batch -> {"idle", "claim", "apply", "failed", "answered"}]
    /\ \A p \in Batch : ipc[p] = "apply" => place[p] <= Len(body[p])
    /\ claims \in [Batch -> SUBSET Record]
    /\ adds \in [Batch -> SUBSET Record]
    /\ bills \in [Batch -> SUBSET Record]
    /\ tenantKnown \in BOOLEAN
    /\ dedup \subseteq Record
    /\ metrics \in [Record -> Nat] /\ billing \in [Record -> Nat]
    /\ lost \in Nat

IngestInit ==
    /\ shape \in [Record -> Shape]
    /\ body \in [Batch -> Bodies]
    /\ place = [p \in Batch |-> 1]
    /\ ipc = [p \in Batch |-> "idle"]
    /\ claims = [p \in Batch |-> {}]
    /\ adds = [p \in Batch |-> {}]
    /\ bills = [p \in Batch |-> {}]
    /\ tenantKnown = TRUE
    /\ dedup = {}
    /\ metrics = [r \in Record |-> 0] /\ billing = [r \in Record |-> 0]
    /\ lost = 0
-----------------------------------------------------------------------------
CurrentRecord(p) == body[p][place[p]]
More(p) == place[p] <= Len(body[p])
Seen(p) == {body[p][i] : i \in 1..(place[p] - 1)}

Advance(p) ==
    /\ place' = [place EXCEPT ![p] = @ + 1]
    /\ ipc' = [ipc EXCEPT ![p] = "claim"]

(* The transaction ends and its locks are free.                             *)
EndRequest(p, label) ==
    /\ place' = [place EXCEPT ![p] = 1]
    /\ ipc' = [ipc EXCEPT ![p] = label]
    /\ claims' = [claims EXCEPT ![p] = {}]
    /\ adds' = [adds EXCEPT ![p] = {}]
    /\ bills' = [bills EXCEPT ![p] = {}]

Post(p) ==
    /\ ipc[p] \in {"idle", "failed"}
    /\ ipc' = [ipc EXCEPT ![p] = "claim"]
    /\ UNCHANGED <<shape, body, place, claims, adds, bills, tenantKnown, committed, lost>>

(* A record that does not validate, or that the batch has had already.      *)
SkipRecord(p) ==
    /\ ipc[p] = "claim" /\ More(p)
    /\ shape[CurrentRecord(p)] = "malformed" \/ CurrentRecord(p) \in Seen(p)
    /\ Advance(p)
    /\ UNCHANGED <<shape, body, claims, adds, bills, tenantKnown, committed, lost>>

(* Mutation of ClaimedByOther: the insert does not wait.                    *)
ClaimedByNone(p) == {}

(* Postgres: the insert waits for an open transaction that inserted the id. *)
ClaimedByOther(p) == {q \in Batch \ {p} : CurrentRecord(p) \in claims[q]}

(* INSERT ... ON CONFLICT DO NOTHING RETURNING.                             *)
Claim(p) ==
    /\ ipc[p] = "claim" /\ More(p)
    /\ shape[CurrentRecord(p)] # "malformed" /\ CurrentRecord(p) \notin Seen(p)
    /\ ClaimedByOther(p) = {}
    /\ IF CurrentRecord(p) \in dedup
       THEN Advance(p) /\ UNCHANGED claims
       ELSE /\ claims' = [claims EXCEPT ![p] = @ \cup {CurrentRecord(p)}]
            /\ ipc' = [ipc EXCEPT ![p] = "apply"]
            /\ UNCHANGED place
    /\ UNCHANGED <<shape, body, adds, bills, tenantKnown, committed, lost>>

(* Postgres: the first upsert locks the rows of the site and hour.          *)
RowsHeldByOther(p) == {q \in Batch \ {p} : adds[q] # {}}

(* The three upserts, or nothing when the bucket is not a date: the claim   *)
(* of such a record stays.  Without a page row nothing is billed.           *)
ApplyRecord(p) ==
    /\ ipc[p] = "apply"
    /\ IF shape[CurrentRecord(p)] = "undated"
       THEN UNCHANGED <<adds, bills>>
       ELSE /\ RowsHeldByOther(p) = {}
            /\ adds' = [adds EXCEPT ![p] = @ \cup {CurrentRecord(p)}]
            /\ IF tenantKnown /\ shape[CurrentRecord(p)] = "metered"
               THEN bills' = [bills EXCEPT ![p] = @ \cup {CurrentRecord(p)}]
               ELSE UNCHANGED bills
    /\ Advance(p)
    /\ UNCHANGED <<shape, body, claims, tenantKnown, committed, lost>>

Plus(counts, S) == [r \in Record |-> IF r \in S THEN counts[r] + 1 ELSE counts[r]]

Commit(p) ==
    /\ ipc[p] = "claim" /\ ~ More(p)
    /\ dedup' = dedup \cup claims[p]
    /\ metrics' = Plus(metrics, adds[p])
    /\ billing' = Plus(billing, bills[p])
    /\ EndRequest(p, "answered")
    /\ UNCHANGED <<shape, body, tenantKnown, lost>>

(* Postgres aborts a member of a cycle of waiting transactions.             *)
WaitsFor(p) ==
    IF ipc[p] = "apply" THEN IF shape[CurrentRecord(p)] = "undated" THEN {} ELSE RowsHeldByOther(p)
    ELSE IF ipc[p] = "claim" /\ More(p) /\ CurrentRecord(p) \notin Seen(p)
         THEN ClaimedByOther(p) ELSE {}
InCycle(p) ==
    \E D \in SUBSET Batch :
        /\ p \in D
        /\ \A d \in D : WaitsFor(d) \cap D # {} /\ \E e \in D : d \in WaitsFor(e)

AbortDeadlock(p) ==
    /\ InCycle(p)
    /\ EndRequest(p, "failed")
    /\ UNCHANGED <<shape, body, tenantKnown, committed, lost>>

(* A statement fails, or the function is killed at maxDuration: 500.        *)
IngestFails(p) ==
    /\ ipc[p] \in {"claim", "apply"} /\ lost < MaxLost
    /\ lost' = lost + 1
    /\ EndRequest(p, "failed")
    /\ UNCHANGED <<shape, body, tenantKnown, committed>>

AnswerLost(p) ==
    /\ ipc[p] = "answered" /\ lost < MaxLost
    /\ lost' = lost + 1
    /\ ipc' = [ipc EXCEPT ![p] = "failed"]
    /\ UNCHANGED <<shape, body, place, claims, adds, bills, tenantKnown, committed>>

(* The purge of a deleted project deletes the page row.                     *)
PurgePage ==
    /\ tenantKnown
    /\ tenantKnown' = FALSE
    /\ UNCHANGED <<shape, body, request, committed, lost>>
-----------------------------------------------------------------------------
IngestNext ==
    \/ \E p \in Batch :
          \/ Post(p) \/ SkipRecord(p) \/ Claim(p) \/ ApplyRecord(p) \/ Commit(p)
          \/ AbortDeadlock(p) \/ IngestFails(p) \/ AnswerLost(p)
    \/ PurgePage

IngestSpec == IngestInit /\ [][IngestNext]_ingestVars
=============================================================================
