--------------------------- MODULE UsageIngestProps ---------------------------
(* What the usage ingest promises.                                          *)
EXTENDS UsageIngest

(* What UsageLedger promises: a batch is entered as a whole, whatever runs   *)
(* next to it, fails or is sent again, and a batch that was answered has all *)
(* its records in the ledger.                                               *)
Ledger == INSTANCE UsageLedger
          WITH pageThere <- tenantKnown, entered <- dedup, measured <- metrics,
               billed <- billing, answered <- {p \in Batch : ipc[p] = "answered"}
ImplementsUsageLedger == Ledger!Spec

(* usage-ingest.service.ts:19: a retried batch or a replay can never        *)
(* double-count, also when batches overlap; a record is marked as applied   *)
(* only together with its counters, and as long as the page is there what   *)
(* is billed is what is measured.                                           *)
AppliedOnce ==
    \A r \in Record :
        /\ metrics[r] = IF r \in dedup /\ shape[r] # "undated" THEN 1 ELSE 0
        /\ billing[r] <= metrics[r]
        /\ tenantKnown /\ shape[r] = "metered" => billing[r] = metrics[r]
=============================================================================
