--------------------------- MODULE UsageIngestProofs ---------------------------
(* Theorems about modules UsageIngest and UsageIngestProps, for any number   *)
(* of requests and records and bodies of any length.                         *)
EXTENDS UsageIngestProps, TLAPS

(* The records that a request has met: those before its place in the batch,  *)
(* and the one at its place once it is claimed.                              *)
Met(p) == Seen(p) \cup {r \in {CurrentRecord(p)} : ipc[p] = "apply"}

(* An open transaction: nobody else claims its records, none of them is      *)
(* committed, and what it has claimed it has added, but for the record it    *)
(* is at.  A request that is not in a transaction holds nothing.             *)
Open(p) ==
    /\ ipc[p] \in {"idle", "failed", "answered"} =>
           claims[p] = {} /\ adds[p] = {} /\ bills[p] = {} /\ place[p] = 1
    /\ ipc[p] = "apply" => CurrentRecord(p) \in claims[p] \ adds[p]
    /\ claims[p] \subseteq Met(p)
    /\ claims[p] \cap dedup = {}
    /\ adds[p] = {r \in claims[p] : shape[r] # "undated"
                                    /\ ~ (ipc[p] = "apply" /\ r = CurrentRecord(p))}
    /\ bills[p] \subseteq adds[p]
    /\ tenantKnown => \A r \in adds[p] : shape[r] = "metered" => r \in bills[p]

Apart == \A p, q \in Batch : p # q => claims[p] \cap claims[q] = {}

IngestInv ==
    /\ IngestTypeOK
    /\ \A p \in Batch : Open(p)
    /\ Apart
    /\ AppliedOnce

(* At first nothing is claimed and nothing is counted.                       *)
LEMMA IngestInvInit == IngestInit => IngestInv
<1> SUFFICES ASSUME IngestInit PROVE IngestInv
  OBVIOUS
<1>1. \A p \in Batch : body[p] \in Seq(Record) /\ Len(body[p]) \in Nat
  <2> TAKE p \in Batch
  <2>1. body[p] \in Bodies
    BY DEF IngestInit
  <2>2. PICK n \in 0..MaxBody : body[p] \in [1..n -> Record]
    BY <2>1 DEF Bodies
  <2>3. n \in Nat
    BY <2>2, IngestAssumption
  <2> QED  BY <2>2, <2>3
<1>2. body \in [Batch -> Seq(Record)]
  BY <1>1 DEF IngestInit
<1>3. IngestTypeOK
  BY <1>1, <1>2 DEF IngestInit, IngestTypeOK
<1>4. (\A p \in Batch : Open(p)) /\ Apart /\ AppliedOnce
  BY DEF IngestInit, Open, Apart, AppliedOnce
<1> QED  BY <1>3, <1>4 DEF IngestInv

(* The record that a request is at.                                          *)
LEMMA CurrentFacts ==
  ASSUME IngestInv, NEW p \in Batch, ipc[p] = "apply" \/ More(p)
  PROVE  CurrentRecord(p) \in Record /\ place[p] <= Len(body[p]) /\ Len(body[p]) \in Nat
BY DEF IngestInv, IngestTypeOK, CurrentRecord, More

(* Advancing adds the record that a request was at to those it has seen.     *)
LEMMA AdvanceSees ==
  ASSUME IngestInv, NEW p \in Batch, ipc[p] = "apply" \/ More(p),
         Advance(p), UNCHANGED body
  PROVE  /\ Seen(p)' = Seen(p) \cup {CurrentRecord(p)} /\ Met(p)' = Seen(p)'
         /\ place'[p] \in Nat \ {0} /\ place'[p] <= Len(body[p]) + 1
         /\ place'[p] = place[p] + 1 /\ ipc'[p] = "claim"
<1>1. place[p] \in Nat \ {0} /\ place[p] <= Len(body[p]) /\ Len(body[p]) \in Nat
  BY CurrentFacts DEF IngestInv, IngestTypeOK
<1>2. place'[p] = place[p] + 1 /\ ipc'[p] = "claim"
  BY DEF IngestInv, IngestTypeOK, Advance
<1>3. 1..((place[p] + 1) - 1) = (1..(place[p] - 1)) \cup {place[p]}
  BY <1>1
<1>4. Seen(p)' = {body[p][i] : i \in 1..((place[p] + 1) - 1)}
  BY <1>2 DEF Seen
<1>5. Seen(p)' = Seen(p) \cup {CurrentRecord(p)}
  BY <1>3, <1>4 DEF Seen, CurrentRecord
<1>6. Met(p)' = Seen(p)'
  BY <1>2 DEF Met
<1> QED  BY <1>1, <1>2, <1>5, <1>6

(* What the other requests have met does not change.                         *)
LEMMA OthersMet ==
  ASSUME NEW p \in Batch, UNCHANGED body,
         \A q \in Batch \ {p} : place'[q] = place[q] /\ ipc'[q] = ipc[q]
  PROVE  \A q \in Batch \ {p} : /\ Met(q)' = Met(q)
                                /\ CurrentRecord(q)' = CurrentRecord(q)
BY DEF Met, Seen, CurrentRecord

(* The end of a transaction that commits nothing gives everything back.      *)
LEMMA ClosedKeeps ==
  ASSUME IngestInv, NEW p \in Batch, NEW label \in {"failed", "answered"},
         EndRequest(p, label), UNCHANGED <<shape, body, tenantKnown, committed>>,
         lost' \in Nat
  PROVE  IngestInv'
<1> USE DEF IngestInv, committed
<1>1. Len(body[p]) \in Nat
  BY DEF IngestTypeOK
<1>2. IngestTypeOK'
  BY <1>1 DEF IngestTypeOK, EndRequest
<1>3. \A q \in Batch : Open(q)'
  <2>1. Open(p)'
    BY DEF IngestTypeOK, EndRequest, Open
  <2>2. \A q \in Batch \ {p} : place'[q] = place[q] /\ ipc'[q] = ipc[q]
    BY DEF IngestTypeOK, EndRequest
  <2>3. \A q \in Batch \ {p} : Open(q)'
    BY <2>2, OthersMet DEF IngestTypeOK, EndRequest, Open
  <2> QED  BY <2>1, <2>3
<1>4. Apart' /\ AppliedOnce'
  BY DEF IngestTypeOK, EndRequest, Apart, AppliedOnce
<1> QED  BY <1>2, <1>3, <1>4

(* A request that is not in a transaction stays out of one or opens one.     *)
LEMMA PostKeeps ==
  ASSUME IngestInv, NEW p \in Batch, Post(p) \/ AnswerLost(p)
  PROVE  IngestInv'
<1> USE DEF IngestInv, committed
<1>1. /\ UNCHANGED <<shape, body, place, claims, adds, bills, tenantKnown, committed>>
      /\ ipc[p] \in {"idle", "failed", "answered"} /\ lost' \in Nat
      /\ \E label \in {"claim", "failed"} : ipc' = [ipc EXCEPT ![p] = label]
  BY DEF Post, AnswerLost, IngestTypeOK
<1>2. IngestTypeOK'
  BY <1>1 DEF IngestTypeOK
<1>3. ASSUME NEW q \in Batch PROVE Open(q)'
  <2>1. CASE q = p
    BY <1>1, <2>1 DEF IngestTypeOK, Open
  <2>2. CASE q # p
    BY <1>1, <2>2, OthersMet DEF IngestTypeOK, Open
  <2> QED  BY <2>1, <2>2
<1>4. Apart' /\ AppliedOnce'
  BY <1>1 DEF Apart, AppliedOnce
<1> QED  BY <1>2, <1>3, <1>4

(* A skipped record changes nothing but the place in the batch.              *)
LEMMA SkipKeeps ==
  ASSUME IngestInv, NEW p \in Batch, ipc[p] = "claim", More(p), Advance(p),
         UNCHANGED <<shape, body, claims, adds, bills, tenantKnown, committed, lost>>
  PROVE  IngestInv'
<1> USE DEF IngestInv, committed
<1>1. IngestTypeOK'
  <2>1. place' \in [Batch -> Nat \ {0}] /\ \A q \in Batch : place'[q] <= Len(body[q]) + 1
    BY AdvanceSees DEF IngestTypeOK, Advance
  <2>2. /\ ipc' \in [Batch -> {"idle", "claim", "apply", "failed", "answered"}]
        /\ \A q \in Batch : ipc'[q] = "apply" => place'[q] = place[q] /\ ipc[q] = "apply"
    BY DEF IngestTypeOK, Advance
  <2> QED  BY <2>1, <2>2 DEF IngestTypeOK
<1>2. Open(p)'
  BY AdvanceSees DEF Open, Met, IngestTypeOK
<1>3. \A q \in Batch \ {p} : place'[q] = place[q] /\ ipc'[q] = ipc[q]
  BY DEF Advance, IngestTypeOK
<1>4. \A q \in Batch \ {p} : Open(q)'
  BY <1>3, OthersMet DEF Open
<1>5. Apart' /\ AppliedOnce'
  BY DEF Apart, AppliedOnce
<1> QED  BY <1>1, <1>2, <1>4, <1>5

(* A claim is new to the batch and free of the other requests.               *)
LEMMA ClaimKeeps ==
  ASSUME IngestInv, NEW p \in Batch, Claim(p)
  PROVE  IngestInv'
<1> USE DEF IngestInv, committed
<1>1. CASE CurrentRecord(p) \in dedup
  BY <1>1, SkipKeeps DEF Claim
<1>2. CASE CurrentRecord(p) \notin dedup
  <2>1. /\ UNCHANGED <<shape, body, place, adds, bills, tenantKnown, committed, lost>>
        /\ claims' = [claims EXCEPT ![p] = @ \cup {CurrentRecord(p)}]
        /\ ipc' = [ipc EXCEPT ![p] = "apply"] /\ ipc[p] = "claim" /\ More(p)
    BY <1>2 DEF Claim
  <2>2. /\ CurrentRecord(p) \in Record
        /\ CurrentRecord(p) \notin Seen(p) /\ CurrentRecord(p) \notin claims[p]
        /\ \A q \in Batch : q # p => CurrentRecord(p) \notin claims[q]
    BY <2>1, CurrentFacts DEF Claim, ClaimedByOther, Open, Met
  <2>3. IngestTypeOK'
    BY <2>1, <2>2, CurrentFacts DEF IngestTypeOK
  <2>4. CurrentRecord(p)' = CurrentRecord(p) /\ Met(p)' = Seen(p) \cup {CurrentRecord(p)}
    BY <2>1 DEF Met, Seen, CurrentRecord, IngestTypeOK
  <2>5. Open(p)'
    BY <1>2, <2>1, <2>2, <2>4 DEF IngestTypeOK, Open, Met
  <2>6. \A q \in Batch \ {p} : Open(q)'
    BY <2>1, OthersMet DEF IngestTypeOK, Open
  <2>7. Apart' /\ AppliedOnce'
    BY <2>1, <2>2 DEF IngestTypeOK, Apart, AppliedOnce
  <2> QED  BY <2>3, <2>5, <2>6, <2>7
<1> QED  BY <1>1, <1>2

(* The upserts complete the claim of the record, unless it is undated.       *)
LEMMA ApplyKeeps ==
  ASSUME IngestInv, NEW p \in Batch, ApplyRecord(p)
  PROVE  IngestInv'
<1> USE DEF IngestInv, committed
<1> DEFINE r == CurrentRecord(p)
<1>1. /\ UNCHANGED <<shape, body, claims, tenantKnown, committed, lost>>
      /\ ipc[p] = "apply" /\ Advance(p)
  BY DEF ApplyRecord
<1>2. /\ r \in Record /\ r \in claims[p] \ adds[p]
  BY <1>1, CurrentFacts DEF Open
<1>3. /\ adds' = [adds EXCEPT ![p] = IF shape[r] = "undated" THEN @ ELSE @ \cup {r}]
      /\ bills' = [bills EXCEPT ![p] =
                      IF shape[r] = "metered" /\ tenantKnown THEN @ \cup {r} ELSE @]
  BY DEF ApplyRecord, IngestTypeOK
<1>4. /\ Met(p)' = Seen(p) \cup {r} /\ ipc'[p] = "claim"
      /\ place'[p] \in Nat \ {0} /\ place'[p] <= Len(body[p]) + 1
  BY <1>1, AdvanceSees
<1>5. IngestTypeOK'
  <2>1. place' \in [Batch -> Nat \ {0}] /\ \A q \in Batch : place'[q] <= Len(body[q]) + 1
    BY <1>1, <1>4 DEF IngestTypeOK, Advance
  <2>2. /\ ipc' \in [Batch -> {"idle", "claim", "apply", "failed", "answered"}]
        /\ \A q \in Batch : ipc'[q] = "apply" => place'[q] = place[q] /\ ipc[q] = "apply"
    BY <1>1 DEF IngestTypeOK, Advance
  <2>3. adds' \in [Batch -> SUBSET Record] /\ bills' \in [Batch -> SUBSET Record]
    BY <1>2, <1>3 DEF IngestTypeOK
  <2> QED  BY <1>1, <2>1, <2>2, <2>3 DEF IngestTypeOK
<1>6. Open(p)'
  <2>1. /\ claims'[p] = claims[p] /\ dedup' = dedup /\ shape' = shape
        /\ tenantKnown' = tenantKnown
        /\ adds'[p] = IF shape[r] = "undated" THEN adds[p] ELSE adds[p] \cup {r}
        /\ bills'[p] = IF shape[r] = "metered" /\ tenantKnown
                       THEN bills[p] \cup {r} ELSE bills[p]
    BY <1>1, <1>3 DEF IngestTypeOK
  <2>2. adds[p] = {s \in claims[p] : shape[s] # "undated" /\ s # r}
    BY <1>1 DEF Open
  <2>3. claims[p] \subseteq Met(p)'
    BY <1>1, <1>4 DEF Open, Met
  <2>4. adds'[p] = {s \in claims[p] : shape[s] # "undated"}
    BY <1>2, <2>1, <2>2
  <2>5. /\ claims[p] \cap dedup = {} /\ bills[p] \subseteq adds[p]
        /\ tenantKnown => \A s \in adds[p] : shape[s] = "metered" => s \in bills[p]
    BY DEF Open
  <2>6. bills'[p] \subseteq adds'[p]
    BY <2>1, <2>5
  <2>7. tenantKnown => \A s \in adds'[p] : shape[s] = "metered" => s \in bills'[p]
    BY <2>1, <2>5
  <2> QED  BY <1>4, <2>1, <2>3, <2>4, <2>5, <2>6, <2>7 DEF Open
<1>7. \A q \in Batch \ {p} : place'[q] = place[q] /\ ipc'[q] = ipc[q]
  BY <1>1 DEF Advance, IngestTypeOK
<1>8. \A q \in Batch \ {p} : Open(q)'
  <2> TAKE q \in Batch \ {p}
  <2>1. adds'[q] = adds[q] /\ bills'[q] = bills[q]
    BY <1>3 DEF IngestTypeOK
  <2>2. /\ place'[q] = place[q] /\ ipc'[q] = ipc[q]
        /\ Met(q)' = Met(q) /\ CurrentRecord(q)' = CurrentRecord(q)
    BY <1>1, <1>7, OthersMet
  <2> QED  BY <1>1, <2>1, <2>2 DEF Open
<1>9. Apart' /\ AppliedOnce'
  BY <1>1 DEF Apart, AppliedOnce
<1> QED  BY <1>5, <1>6, <1>8, <1>9

(* A commit adds the records of its transaction, which nobody had counted.   *)
LEMMA CommitKeeps ==
  ASSUME IngestInv, NEW p \in Batch, Commit(p)
  PROVE  IngestInv'
<1> USE DEF IngestInv, committed
<1>1. /\ ipc[p] = "claim" /\ UNCHANGED <<shape, body, tenantKnown, lost>>
      /\ dedup' = dedup \cup claims[p] /\ EndRequest(p, "answered")
      /\ metrics' = Plus(metrics, adds[p]) /\ billing' = Plus(billing, bills[p])
  BY DEF Commit
<1>2. IngestTypeOK'
  <2>1. metrics' \in [Record -> Nat] /\ billing' \in [Record -> Nat]
    BY <1>1 DEF Plus, IngestTypeOK
  <2>2. place'[p] = 1 /\ Len(body[p]) \in Nat
    BY <1>1 DEF EndRequest, IngestTypeOK
  <2> QED  BY <1>1, <2>1, <2>2 DEF EndRequest, IngestTypeOK
<1>3. Open(p)'
  BY <1>1 DEF EndRequest, IngestTypeOK, Open
<1>4. \A q \in Batch \ {p} : /\ place'[q] = place[q] /\ ipc'[q] = ipc[q]
                             /\ claims'[q] = claims[q] /\ adds'[q] = adds[q]
                             /\ bills'[q] = bills[q]
  BY <1>1 DEF EndRequest, IngestTypeOK
<1>5. \A q \in Batch \ {p} : claims[q] \cap dedup' = {}
  BY <1>1 DEF Apart, Open
<1>6. \A q \in Batch \ {p} : Open(q)'
  BY <1>1, <1>4, <1>5, OthersMet DEF Open
<1>7. Apart'
  BY <1>1 DEF EndRequest, IngestTypeOK, Apart
<1>8. AppliedOnce'
  <2> SUFFICES ASSUME NEW r \in Record
               PROVE  /\ metrics'[r] = IF r \in dedup' /\ shape[r] # "undated" THEN 1 ELSE 0
                      /\ billing'[r] <= metrics'[r]
                      /\ tenantKnown /\ shape[r] = "metered" => billing'[r] = metrics'[r]
    BY <1>1 DEF AppliedOnce
  <2>1. /\ metrics'[r] = IF r \in adds[p] THEN metrics[r] + 1 ELSE metrics[r]
        /\ billing'[r] = IF r \in bills[p] THEN billing[r] + 1 ELSE billing[r]
        /\ metrics[r] \in Nat /\ billing[r] \in Nat
    BY <1>1 DEF Plus, IngestTypeOK
  <2>2. /\ metrics[r] = IF r \in dedup /\ shape[r] # "undated" THEN 1 ELSE 0
        /\ billing[r] <= metrics[r]
        /\ tenantKnown /\ shape[r] = "metered" => billing[r] = metrics[r]
    BY DEF AppliedOnce
  <2>3. r \in adds[p] <=> r \in claims[p] /\ shape[r] # "undated"
    BY <1>1 DEF Open
  <2>4. /\ r \in claims[p] => r \notin dedup
        /\ r \in bills[p] => r \in adds[p]
        /\ tenantKnown /\ r \in adds[p] /\ shape[r] = "metered" => r \in bills[p]
    BY DEF Open
  <2>5. r \in dedup' <=> r \in dedup \/ r \in claims[p]
    BY <1>1
  <2> QED  BY <2>1, <2>2, <2>3, <2>4, <2>5
<1> QED  BY <1>2, <1>3, <1>6, <1>7, <1>8

(* Every step keeps the invariant.                                           *)
LEMMA IngestInvStep == IngestInv /\ [IngestNext]_ingestVars => IngestInv'
<1> SUFFICES ASSUME IngestInv, [IngestNext]_ingestVars PROVE IngestInv'
  OBVIOUS
<1>1. ASSUME NEW p \in Batch, SkipRecord(p) PROVE IngestInv'
  BY <1>1, SkipKeeps DEF SkipRecord
<1>2. ASSUME NEW p \in Batch, AbortDeadlock(p) \/ IngestFails(p) PROVE IngestInv'
  <2>1. lost' \in Nat
    BY <1>2 DEF AbortDeadlock, IngestFails, IngestInv, IngestTypeOK
  <2> QED  BY <1>2, <2>1, ClosedKeeps DEF AbortDeadlock, IngestFails
<1>3. CASE PurgePage
  <2>1. UNCHANGED <<shape, body, request, committed, lost>> /\ tenantKnown' = FALSE
    BY <1>3 DEF PurgePage
  <2>2. IngestTypeOK'
    BY <2>1 DEF IngestInv, IngestTypeOK, request, committed
  <2>3. \A q \in Batch : Open(q)'
    BY <2>1 DEF IngestInv, Open, Met, Seen, CurrentRecord, request, committed
  <2>4. Apart' /\ AppliedOnce'
    BY <2>1 DEF IngestInv, Apart, AppliedOnce, request, committed
  <2> QED  BY <2>2, <2>3, <2>4 DEF IngestInv
<1>4. CASE UNCHANGED ingestVars
  BY <1>4 DEF ingestVars, request, committed, IngestInv, IngestTypeOK, Open, Met, Seen,
     CurrentRecord, Apart, AppliedOnce
<1> QED
  BY <1>1, <1>2, <1>3, <1>4, PostKeeps, ClaimKeeps, ApplyKeeps, CommitKeeps DEF IngestNext

(* The invariant holds in every reachable state.                             *)
LEMMA IngestInvAlways == IngestSpec => []IngestInv
BY IngestInvInit, IngestInvStep, PTL DEF IngestSpec

(* Every reachable state of the ingest has the types that it declares.       *)
THEOREM IngestTypeCorrect == IngestSpec => []IngestTypeOK
<1>1. IngestInv => IngestTypeOK
  BY DEF IngestInv
<1> QED  BY <1>1, IngestInvAlways, PTL

(* A record is counted once if it is marked as applied and never otherwise,  *)
(* and while its page is there it is billed as it is measured.               *)
THEOREM AppliedOnceHolds == IngestSpec => []AppliedOnce
<1>1. IngestInv => AppliedOnce
  BY DEF IngestInv
<1> QED  BY <1>1, IngestInvAlways, PTL

-----------------------------------------------------------------------------
(* UsageIngest implements UsageLedger.                                       *)

(* A request has claimed what it has met, unless it is malformed or was      *)
(* there already, and bills nothing that is not metered.                     *)
Covered(p) ==
    /\ \A i \in 1..(place[p] - 1) :
          \/ shape[body[p][i]] = "malformed"
          \/ body[p][i] \in dedup \/ body[p][i] \in claims[p]
    /\ \A r \in claims[p] : shape[r] # "malformed"
    /\ \A r \in bills[p] : shape[r] = "metered"
AllCovered == \A p \in Batch : Covered(p)

(* A request that another one's step leaves alone stays covered.             *)
LEMMA OthersCovered ==
  ASSUME NEW q \in Batch, Covered(q), UNCHANGED <<shape, body>>, dedup \subseteq dedup',
         place'[q] = place[q], claims'[q] = claims[q], bills'[q] = bills[q]
  PROVE  Covered(q)'
BY DEF Covered

(* So does one that advances over a record that it need not claim, or has.   *)
LEMMA AdvanceCovered ==
  ASSUME IngestInv, NEW p \in Batch, Covered(p), Advance(p), ipc[p] = "apply" \/ More(p),
         UNCHANGED <<shape, body, claims, dedup>>,
         \/ shape[CurrentRecord(p)] = "malformed"
         \/ CurrentRecord(p) \in dedup \/ CurrentRecord(p) \in claims[p],
         \A r \in bills'[p] : shape[r] = "metered"
  PROVE  Covered(p)'
<1>1. place[p] \in Nat \ {0} /\ place'[p] = place[p] + 1
  BY AdvanceSees DEF IngestInv, IngestTypeOK
<1>2. \A i \in 1..((place[p] + 1) - 1) : i \in 1..(place[p] - 1) \/ i = place[p]
  BY <1>1
<1> QED  BY <1>1, <1>2 DEF Covered, CurrentRecord

LEMMA CoveredStep == IngestInv /\ AllCovered /\ [IngestNext]_ingestVars => AllCovered'
<1> SUFFICES ASSUME IngestInv, \A p \in Batch : Covered(p), [IngestNext]_ingestVars,
                    NEW q \in Batch
             PROVE  Covered(q)'
  BY DEF AllCovered
<1>0. /\ place \in [Batch -> Nat \ {0}]
      /\ claims \in [Batch -> SUBSET Record] /\ bills \in [Batch -> SUBSET Record]
  BY DEF IngestInv, IngestTypeOK
<1>1. ASSUME UNCHANGED <<shape, body, place, claims, bills, dedup>>
      PROVE  Covered(q)'
  BY <1>1, OthersCovered
<1>2. ASSUME NEW p \in Batch, SkipRecord(p) \/ Claim(p) \/ ApplyRecord(p) \/ Commit(p)
                              \/ AbortDeadlock(p) \/ IngestFails(p), q # p
      PROVE  Covered(q)'
  <2>1. /\ place'[q] = place[q] /\ claims'[q] = claims[q] /\ bills'[q] = bills[q]
        /\ UNCHANGED <<shape, body>> /\ dedup \subseteq dedup'
    BY <1>0, <1>2 DEF SkipRecord, Claim, ApplyRecord, Commit, AbortDeadlock, IngestFails,
       Advance, EndRequest, committed
  <2> QED  BY <2>1, OthersCovered
<1>3. CASE SkipRecord(q)
  <2>1. \/ shape[CurrentRecord(q)] = "malformed"
        \/ CurrentRecord(q) \in dedup \/ CurrentRecord(q) \in claims[q]
    BY <1>3 DEF SkipRecord, Seen, Covered
  <2>2. \A r \in bills'[q] : shape[r] = "metered"
    BY <1>3 DEF SkipRecord, Covered
  <2> QED  BY <1>3, <2>1, <2>2, AdvanceCovered DEF SkipRecord, committed
<1>4. CASE Claim(q)
  <2>1. CASE CurrentRecord(q) \in dedup
    <3>1. \A r \in bills'[q] : shape[r] = "metered"
      BY <1>4 DEF Claim, Covered
    <3> QED  BY <1>4, <2>1, <3>1, AdvanceCovered DEF Claim, committed
  <2>2. CASE CurrentRecord(q) \notin dedup
    <3>1. /\ claims'[q] = claims[q] \cup {CurrentRecord(q)}
          /\ shape[CurrentRecord(q)] # "malformed"
          /\ UNCHANGED <<shape, body, place, bills, dedup>>
      BY <1>0, <1>4, <2>2 DEF Claim, committed
    <3> QED  BY <3>1 DEF Covered
  <2> QED  BY <2>1, <2>2
<1>5. CASE ApplyRecord(q)
  <2>1. CurrentRecord(q) \in claims[q] /\ ipc[q] = "apply"
    BY <1>5 DEF ApplyRecord, IngestInv, Open
  <2>2. \A r \in bills'[q] : shape[r] = "metered"
    BY <1>0, <1>5 DEF ApplyRecord, Covered
  <2> QED  BY <1>5, <2>1, <2>2, AdvanceCovered DEF ApplyRecord, committed
<1>6. CASE Commit(q) \/ AbortDeadlock(q) \/ IngestFails(q)
  <2>1. place'[q] = 1 /\ claims'[q] = {} /\ bills'[q] = {}
    BY <1>0, <1>6 DEF Commit, AbortDeadlock, IngestFails, EndRequest
  <2> QED  BY <2>1 DEF Covered
<1>7. ASSUME NEW p \in Batch, Post(p) \/ AnswerLost(p) PROVE Covered(q)'
  BY <1>1, <1>7 DEF Post, AnswerLost, committed
<1>8. CASE PurgePage \/ UNCHANGED ingestVars
  BY <1>1, <1>8 DEF PurgePage, ingestVars, request, committed
<1> QED
  BY <1>2, <1>3, <1>4, <1>5, <1>6, <1>7, <1>8 DEF IngestNext

(* A commit enters the batch as a whole: what it has claimed is all that was *)
(* not yet in the ledger.                                                    *)
LEMMA CommitEnters ==
  ASSUME IngestInv, NEW p \in Batch, Covered(p), Commit(p)
  PROVE  Ledger!Enter(p)
<1>1. /\ ipc[p] = "claim" /\ ~ More(p) /\ UNCHANGED <<shape, body, tenantKnown>>
      /\ dedup' = dedup \cup claims[p]
      /\ metrics' = Plus(metrics, adds[p]) /\ billing' = Plus(billing, bills[p])
      /\ ipc' = [ipc EXCEPT ![p] = "answered"]
  BY DEF Commit, EndRequest
<1>2. /\ body[p] \in Seq(Record) /\ place[p] \in Nat \ {0} /\ place[p] <= Len(body[p]) + 1
      /\ claims[p] \subseteq Record /\ dedup \subseteq Record
      /\ ipc \in [Batch -> {"idle", "claim", "apply", "failed", "answered"}]
  BY DEF IngestInv, IngestTypeOK
<1>3. DOMAIN body[p] = 1..(place[p] - 1)
  BY <1>1, <1>2 DEF More
<1>4. Open(p)
  BY DEF IngestInv
<1>5. Ledger!New(p) = claims[p]
  <2>1. ASSUME NEW r \in Ledger!New(p) PROVE r \in claims[p]
    BY <1>3, <2>1 DEF Ledger!New, Covered
  <2>2. ASSUME NEW r \in claims[p] PROVE r \in Ledger!New(p)
    <3>1. r \in Record \ dedup /\ r \in Seen(p)
      BY <1>1, <1>2, <1>4 DEF Open, Met
    <3> QED  BY <1>3, <3>1 DEF Ledger!New, Covered, Seen
  <2> QED  BY <2>1, <2>2
<1>6. Ledger!Dated(p) = adds[p]
  BY <1>1, <1>4, <1>5 DEF Ledger!Dated, Open
<1>7. /\ bills[p] \in SUBSET adds[p]
      /\ tenantKnown => \A r \in adds[p] : shape[r] = "metered" => r \in bills[p]
      /\ \A r \in bills[p] : shape[r] = "metered"
  BY <1>4 DEF Open, Covered
<1>8. {q \in Batch : ipc'[q] = "answered"} = {q \in Batch : ipc[q] = "answered"} \cup {p}
  BY <1>1, <1>2
<1>9. metrics' = Ledger!OnceMore(metrics, adds[p]) /\ billing' = Ledger!OnceMore(billing, bills[p])
  BY <1>1 DEF Plus, Ledger!OnceMore
<1> QED  BY <1>1, <1>5, <1>6, <1>7, <1>8, <1>9 DEF Ledger!Enter

LEMMA LedgerStep ==
  ASSUME IngestInv, AllCovered, [IngestNext]_ingestVars
  PROVE  [Ledger!Next]_(Ledger!vars)
<1> DEFINE Answered == {p \in Batch : ipc[p] = "answered"}
           Kept == UNCHANGED <<shape, body, tenantKnown, dedup, metrics, billing>>
<1>0. ipc \in [Batch -> {"idle", "claim", "apply", "failed", "answered"}]
  BY DEF IngestInv, IngestTypeOK
<1>1. ASSUME NEW p \in Batch, Commit(p) PROVE Ledger!Next
  BY <1>1, CommitEnters DEF AllCovered, Ledger!Next
<1>2. ASSUME NEW p \in Batch, AnswerLost(p) PROVE Ledger!Next
  <2>1. Kept /\ ipc' = [ipc EXCEPT ![p] = "failed"]
    BY <1>2 DEF AnswerLost, committed
  <2>2. Answered' = Answered \ {p}
    BY <1>0, <2>1
  <2>3. Ledger!AnswerLost(p)
    BY <2>1, <2>2 DEF Ledger!AnswerLost
  <2> QED  BY <2>3 DEF Ledger!Next
<1>3. CASE PurgePage
  <2>1. Ledger!Purge
    BY <1>3 DEF PurgePage, Ledger!Purge, request, committed
  <2> QED  BY <2>1 DEF Ledger!Next
<1>4. ASSUME NEW p \in Batch,
             \/ Post(p) \/ SkipRecord(p) \/ Claim(p) \/ ApplyRecord(p)
             \/ AbortDeadlock(p) \/ IngestFails(p)
      PROVE  UNCHANGED Ledger!vars
  <2>1. Kept
    BY <1>4 DEF Post, SkipRecord, Claim, ApplyRecord, AbortDeadlock, IngestFails, committed
  <2>2. ipc[p] # "answered" /\ \E label \in {"claim", "apply", "failed"} :
            ipc' = [ipc EXCEPT ![p] = label]
    BY <1>4 DEF Post, SkipRecord, Claim, ApplyRecord, AbortDeadlock, IngestFails, Advance,
       EndRequest, InCycle, WaitsFor
  <2>3. Answered' = Answered
    BY <1>0, <2>2
  <2> QED  BY <2>1, <2>3 DEF Ledger!vars
<1>5. CASE UNCHANGED ingestVars
  BY <1>5 DEF ingestVars, request, committed, Ledger!vars
<1> QED  BY <1>1, <1>2, <1>3, <1>4, <1>5 DEF IngestNext

(* Batches are entered as a whole and once, and answered only when all their *)
(* records are in the ledger, whatever fails, overlaps or is sent again.     *)
THEOREM UsageLedgerRefined == IngestSpec => ImplementsUsageLedger
<1>1. IngestInit => AllCovered /\ Ledger!Init
  <2> SUFFICES ASSUME IngestInit PROVE AllCovered /\ Ledger!Init
    OBVIOUS
  <2>1. ASSUME NEW p \in Batch PROVE Covered(p)
    <3>1. place[p] = 1 /\ claims[p] = {} /\ bills[p] = {}
      BY DEF IngestInit
    <3> QED  BY <3>1 DEF Covered
  <2>2. body \in [Batch -> Seq(Record)]
    BY IngestInvInit DEF IngestInv, IngestTypeOK
  <2> QED  BY <2>1, <2>2 DEF AllCovered, IngestInit, Ledger!Init, Shape
<1>2. IngestInv /\ AllCovered /\ [IngestNext]_ingestVars => [Ledger!Next]_(Ledger!vars)
  BY LedgerStep
<1> QED
  BY <1>1, <1>2, IngestInvAlways, CoveredStep, PTL
  DEF IngestSpec, ImplementsUsageLedger, Ledger!Spec
===============================================================================
