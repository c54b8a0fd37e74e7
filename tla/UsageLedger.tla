------------------------------ MODULE UsageLedger ------------------------------
(***************************************************************************)
(* What the usage ingest promises its producer: a batch is entered into    *)
(* the ledger as a whole, each of its records that is not yet there, once; *)
(* and only then it is answered.                                           *)
(***************************************************************************)
EXTENDS Naturals, Sequences

CONSTANTS Batch, Record

VARIABLES
    shape, body,        \* of records and batches: fixed
    pageThere,
    entered,            \* records
    measured, billed,   \* how often
    answered            \* batches whose answer has not been lost

vars == <<shape, body, pageThere, entered, measured, billed, answered>>

Init ==
    /\ shape \in [Record -> {"metered", "free", "undated", "malformed"}]
    /\ body \in [Batch -> Seq(Record)]
    /\ pageThere = TRUE
    /\ entered = {} /\ answered = {}
    /\ measured = [r \in Record |-> 0] /\ billed = [r \in Record |-> 0]

New(p) == {r \in Record \ entered :
              shape[r] # "malformed" /\ \E i \in DOMAIN body[p] : body[p][i] = r}
Dated(p) == {r \in New(p) : shape[r] # "undated"}

OnceMore(count, S) == [r \in Record |-> IF r \in S THEN count[r] + 1 ELSE count[r]]

(* A page may be purged while its records are entered.                      *)
Enter(p) ==
    /\ entered' = entered \cup New(p)
    /\ measured' = OnceMore(measured, Dated(p))
    /\ \E S \in SUBSET Dated(p) :
          /\ pageThere => \A r \in Dated(p) : shape[r] = "metered" => r \in S
          /\ \A r \in S : shape[r] = "metered"
          /\ billed' = OnceMore(billed, S)
    /\ answered' = answered \cup {p}
    /\ UNCHANGED <<shape, body, pageThere>>

AnswerLost(p) ==
    /\ answered' = answered \ {p}
    /\ UNCHANGED <<shape, body, pageThere, entered, measured, billed>>

Purge ==
    /\ pageThere' = FALSE
    /\ UNCHANGED <<shape, body, entered, measured, billed, answered>>

Next == Purge \/ \E p \in Batch : Enter(p) \/ AnswerLost(p)

Spec == Init /\ [][Next]_vars
=============================================================================
