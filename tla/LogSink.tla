------------------------------- MODULE LogSink -------------------------------
(* The build runner's log sink: lines are buffered, coalesced into one batch *)
(* at a time, and a batch is posted to the console piece by piece, again     *)
(* from its first piece when a post fails.  Lines are numbered in the order  *)
(* of their append and have the same size; nothing else of them matters.     *)
EXTENDS Naturals, FiniteSets

CONSTANTS
    MaxBatch,    \* maxBatchBytes, in lines
    MaxPending,  \* maxPendingBytes
    MaxRetries,
    PieceSize,   \* lines of one post
    MaxFailures  \* bound: posts that fail

ASSUME SinkAssumption ==
    /\ MaxBatch \in Nat \ {0} /\ MaxPending \in Nat /\ MaxRetries \in Nat
    /\ PieceSize \in Nat \ {0} /\ MaxFailures \in Nat

VARIABLES
    appended,   \* lines 1..appended were given to append
    buffer,
    batch, todo, tries,  \* the drain under way: its lines, those it has to post
    pending,    \* pendingBytes
    timer, disposed,
    sent,       \* the console has the line
    flying,     \* in a post that failed and may arrive all the same
    dropped,    \* counted in droppedBytes
    lost,       \* neither sent nor counted
    behind,     \* were in the buffer when flush() found a drain under way
    mark,       \* the lines there were when flush() was called last
    failures

drain == <<batch, todo, tries>>
sinkVars == <<appended, buffer, drain, pending, timer, disposed,
              sent, flying, dropped, lost, behind, mark, failures>>

Line == 1..appended

SinkTypeOK ==
    /\ appended \in Nat
    /\ {buffer, batch, todo, sent, flying, dropped, lost, behind} \subseteq SUBSET Line
    /\ todo \subseteq batch
    /\ tries \in 0..MaxRetries
    /\ pending \in Nat /\ mark \in Nat /\ failures \in Nat
    /\ timer \in BOOLEAN /\ disposed \in BOOLEAN

SinkInit ==
    /\ appended = 0
    /\ buffer = {} /\ batch = {} /\ todo = {} /\ tries = 0 /\ pending = 0
    /\ timer = FALSE /\ disposed = FALSE
    /\ sent = {} /\ flying = {} /\ dropped = {} /\ lost = {} /\ behind = {}
    /\ mark = 0 /\ failures = 0

flushing == batch # {}

(* triggerFlush and drain take the whole buffer, once; what is appended     *)
(* while the batch is under way is left for another drain.                  *)
Drain(lines) ==
    /\ batch' = lines /\ todo' = lines /\ tries' = 0
    /\ buffer' = {}

Append ==
    LET line == appended + 1
        lines == buffer \cup {line}
    IN /\ appended' = line
       /\ \/ /\ pending + 1 > MaxPending
             /\ dropped' = dropped \cup {line}
             /\ UNCHANGED <<buffer, drain, pending, timer>>
          \/ /\ pending + 1 <= MaxPending
             /\ pending' = pending + 1
             /\ IF Cardinality(lines) >= MaxBatch
                THEN /\ UNCHANGED timer
                     /\ IF flushing THEN buffer' = lines /\ UNCHANGED drain
                        ELSE Drain(lines)
                ELSE timer' = TRUE /\ buffer' = lines /\ UNCHANGED drain
             /\ UNCHANGED dropped
       /\ UNCHANGED <<disposed, sent, flying, lost, behind, mark, failures>>

(* append returns at once when the sink is disposed of.                     *)
AppendIfOpen == IF disposed THEN UNCHANGED sinkVars ELSE Append

TimerFires ==
    /\ timer
    /\ timer' = FALSE
    /\ IF flushing \/ buffer = {} THEN UNCHANGED <<buffer, drain>> ELSE Drain(buffer)
    /\ UNCHANGED <<appended, pending, disposed, sent, flying, dropped, lost, behind, mark, failures>>

(* append of a last line and then flush(), which clears the timer and       *)
(* triggers a drain; the caller goes on when no drain is under way.         *)
AppendAndFlush ==
    LET line == appended + 1
        room == pending + 1 <= MaxPending
        lines == IF room THEN buffer \cup {line} ELSE buffer
    IN /\ appended' = line /\ mark' = line
       /\ dropped' = IF room THEN dropped ELSE dropped \cup {line}
       /\ pending' = IF room THEN pending + 1 ELSE pending
       /\ timer' = FALSE
       /\ IF flushing
          THEN buffer' = lines /\ behind' = behind \cup lines /\ UNCHANGED drain
          ELSE Drain(lines) /\ UNCHANGED behind
       /\ UNCHANGED <<disposed, sent, flying, lost, failures>>

Dispose ==
    /\ disposed' = TRUE /\ timer' = FALSE
    /\ buffer' = {} /\ lost' = lost \cup buffer
    /\ UNCHANGED <<appended, drain, pending, sent, flying, dropped, behind, mark, failures>>
-----------------------------------------------------------------------------
(* flushBatch.                                                              *)
(* Mutation of Piece: from the end.                                         *)
PieceLast == {l \in todo : Cardinality({m \in todo : m > l}) < PieceSize}
Piece == {l \in todo : Cardinality({m \in todo : m < l}) < PieceSize}

(* Mutation of BatchEnds: what a given-up batch took is not given back.     *)
BatchEndsKeeping(accepted) ==
    /\ batch' = {} /\ todo' = {} /\ tries' = 0
    /\ pending' = IF accepted THEN pending - Cardinality(batch) ELSE pending
    /\ dropped' = IF accepted THEN dropped ELSE dropped \cup batch

BatchEnds(accepted) ==
    /\ batch' = {} /\ todo' = {} /\ tries' = 0
    /\ pending' = pending - Cardinality(batch)
    /\ dropped' = IF accepted THEN dropped ELSE dropped \cup batch

PieceAccepted ==
    /\ flushing
    /\ sent' = sent \cup Piece
    /\ IF todo = Piece THEN BatchEnds(TRUE)
       ELSE todo' = todo \ Piece /\ UNCHANGED <<batch, tries, pending, dropped>>
    /\ UNCHANGED <<appended, buffer, timer, disposed, flying, lost, behind, mark, failures>>

(* A status below 500 that is neither 408 nor 429.                          *)
PieceRefused ==
    /\ flushing /\ failures < MaxFailures
    /\ failures' = failures + 1
    /\ BatchEnds(FALSE)
    /\ UNCHANGED <<appended, buffer, timer, disposed, sent, flying, lost, behind, mark>>

(* Any other failure; the console may take the piece all the same, or later. *)
PieceFails ==
    /\ flushing /\ failures < MaxFailures
    /\ failures' = failures + 1
    /\ flying' = flying \cup Piece
    /\ IF tries = MaxRetries THEN BatchEnds(FALSE) /\ UNCHANGED lost
       ELSE IF disposed THEN BatchEnds(TRUE) /\ lost' = lost \cup (batch \ sent)
       ELSE /\ todo' = batch /\ tries' = tries + 1
            /\ UNCHANGED <<batch, pending, dropped, lost>>
    /\ UNCHANGED <<appended, buffer, timer, disposed, sent, behind, mark>>

(* An attempt starts by looking whether the sink is disposed of.            *)
GivesUp ==
    /\ flushing /\ disposed /\ todo = batch
    /\ BatchEnds(TRUE)
    /\ lost' = lost \cup (batch \ sent)
    /\ UNCHANGED <<appended, buffer, timer, disposed, sent, flying, behind, mark, failures>>

Arrives ==
    /\ flying # {}
    /\ sent' = sent \cup flying
    /\ flying' = {}
    /\ UNCHANGED <<appended, buffer, drain, pending, timer, disposed, dropped, lost, behind, mark, failures>>

Posts == PieceAccepted \/ PieceRefused \/ PieceFails \/ GivesUp
SinkRuns == TimerFires \/ Posts \/ Arrives
=============================================================================
