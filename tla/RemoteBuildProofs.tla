--------------------------- MODULE RemoteBuildProofs ---------------------------
(* Theorems about modules LogSink, BuildJob and BuildMachine, for any limits *)
(* of the sink, any number of failed posts and of lines of output, of jobs,  *)
(* ticks and mishaps, and about the specification of the run that has the    *)
(* build queue, a job and the machine.                                       *)
EXTENDS MCRemoteBuild, BuildsProofs, FiniteSetTheorems, TLAPS

-----------------------------------------------------------------------------
(* The log sink.                                                             *)

(* Every line is somewhere, and what is in the buffer is nowhere else.       *)
Placed ==
    /\ Line = UNION {buffer, batch, sent, dropped, lost}
    /\ buffer \cap UNION {batch, sent, flying, dropped, lost} = {}

(* Lines leave in their order: what a batch has posted, or has on its way,   *)
(* is a beginning of the batch, and comes after all earlier batches.         *)
Out == sent \cup flying
Ordered ==
    /\ batch \ todo \subseteq sent
    /\ \A l \in batch \ todo, m \in todo : l < m
    /\ \A l \in batch, m \in buffer : l < m
    /\ \A m \in Out \ batch : \A l \in batch \cup buffer : m < l
    /\ \A l \in batch, m \in Out \cap batch : l < m => l \in Out

(* pendingBytes; nothing is appended to a sink that is disposed of.          *)
Budgeted ==
    /\ Cardinality(buffer) + Cardinality(batch) <= pending
    /\ ~ disposed => pending = Cardinality(buffer) + Cardinality(batch)
    /\ pending <= MaxPending
    /\ disposed => buffer = {} /\ ~ timer

(* Lines that flush() does not promise to send.                              *)
Late(lines) == \A l \in lines : l \in behind \/ l > mark
Marked ==
    /\ mark <= appended
    /\ Late(buffer) /\ Late(lost)
    /\ IF disposed THEN Late(batch) ELSE lost = {}

SinkInv == SinkTypeOK /\ Placed /\ Ordered /\ Budgeted /\ Marked

(* Sets of lines are finite sets of numbers.                                 *)
LEMMA LinesFinite ==
  ASSUME appended \in Nat, NEW S \in SUBSET Line
  PROVE  IsFiniteSet(S) /\ Cardinality(S) \in Nat /\ S \subseteq Nat
<1>1. IsFiniteSet(Line)
  BY FS_Interval DEF Line
<1>2. S \subseteq Nat
  BY DEF Line
<1> QED  BY <1>1, <1>2, FS_Subset, FS_CardinalityType

(* At first there are no lines.                                              *)
LEMMA SinkInvInit == SinkInit => SinkInv
<1> SUFFICES ASSUME SinkInit PROVE SinkInv
  OBVIOUS
<1>1. SinkTypeOK
  <2>1. {buffer, batch, todo, sent, flying, dropped, lost, behind} \subseteq SUBSET Line
    BY DEF SinkInit
  <2>2. /\ appended \in Nat /\ pending \in Nat /\ mark \in Nat /\ failures \in Nat
        /\ tries \in 0..MaxRetries /\ todo \subseteq batch
    BY SinkAssumption DEF SinkInit
  <2>3. timer \in BOOLEAN /\ disposed \in BOOLEAN
    BY DEF SinkInit
  <2> QED  BY <2>1, <2>2, <2>3 DEF SinkTypeOK
<1>3. Placed
  <2>1. Line = {}
    BY DEF SinkInit, Line
  <2> QED  BY <2>1 DEF SinkInit, Placed
<1>4. Ordered /\ Marked
  BY DEF SinkInit, Ordered, Out, Marked, Late
<1>2. Budgeted
  BY SinkAssumption, FS_EmptySet DEF SinkInit, Budgeted
<1> QED  BY <1>1, <1>2, <1>3, <1>4 DEF SinkInv

(* A piece is a beginning of what the batch has still to post.               *)
LEMMA PieceFacts ==
  ASSUME SinkTypeOK
  PROVE  /\ Piece \subseteq todo
         /\ \A l \in Piece, k \in todo : k < l => k \in Piece
<1>1. Piece \subseteq todo
  BY DEF Piece
<1>2. ASSUME NEW l \in Piece, NEW k \in todo, k < l
      PROVE  k \in Piece
  <2> DEFINE Before(x) == {m \in todo : m < x}
  <2>1. todo \in SUBSET Line /\ todo \subseteq Nat /\ appended \in Nat
    BY LinesFinite DEF SinkTypeOK
  <2>2. Before(k) \subseteq Before(l)
    <3> SUFFICES ASSUME NEW m \in todo, m < k PROVE m < l
      OBVIOUS
    <3>1. m \in Nat /\ k \in Nat /\ l \in Nat
      BY <1>1, <2>1
    <3> QED  BY <1>2, <3>1
  <2>3. Before(l) \in SUBSET Line /\ Before(k) \in SUBSET Line
    BY <2>1
  <2>4. /\ IsFiniteSet(Before(l))
        /\ Cardinality(Before(l)) \in Nat /\ Cardinality(Before(k)) \in Nat
    BY <2>1, <2>3, LinesFinite
  <2>5. Cardinality(Before(k)) <= Cardinality(Before(l))
    BY <2>2, <2>4, FS_Subset
  <2>6. Cardinality(Before(l)) < PieceSize
    BY <1>2 DEF Piece
  <2>7. Cardinality(Before(k)) < PieceSize
    BY <2>4, <2>5, <2>6, SinkAssumption
  <2> QED  BY <2>7, <1>2 DEF Piece
<1> QED  BY <1>1, <1>2

(* A new line is buffered, or dropped when there is no room, and a drain may *)
(* take the buffer; flush() also sets the mark, behind which it leaves what  *)
(* is still in the buffer.                                                   *)
LEMMA GrowKeeps ==
  ASSUME SinkInv, ~ disposed, NEW room \in BOOLEAN,
         appended' = appended + 1,
         dropped' = IF room THEN dropped ELSE dropped \cup {appended + 1},
         pending' = IF room THEN pending + 1 ELSE pending,
         pending' <= MaxPending,
         LET lines == IF room THEN buffer \cup {appended + 1} ELSE buffer
         IN  \/ buffer' = lines /\ UNCHANGED drain
             \/ ~ flushing /\ Drain(lines),
         \/ UNCHANGED <<mark, behind>>
         \/ mark' = appended + 1 /\ behind' \in {behind, behind \cup buffer'}
              /\ buffer' \subseteq behind',
         timer' \in BOOLEAN,
         UNCHANGED <<disposed, sent, flying, lost, failures>>
  PROVE  SinkInv'
<1> DEFINE line == appended + 1
           lines == IF room THEN buffer \cup {line} ELSE buffer
<1> USE DEF SinkInv, drain
<1>1. /\ appended \in Nat /\ Line' = Line \cup {line} /\ line \notin Line
      /\ Line \subseteq Nat /\ line \in Nat /\ \A l \in Line : l < line
  BY DEF SinkTypeOK, Line
<1>2. /\ buffer \subseteq Line /\ batch \subseteq Line /\ todo \subseteq batch
      /\ sent \subseteq Line /\ flying \subseteq Line /\ dropped \subseteq Line
      /\ lost = {} /\ behind \subseteq Line
  BY DEF SinkTypeOK, Marked
<1>3. /\ buffer \subseteq lines /\ lines \subseteq buffer \cup {line}
      /\ dropped \subseteq dropped' /\ dropped' \subseteq dropped \cup {line}
      /\ line \in lines \cup dropped' /\ line \notin lines \cap dropped'
  BY <1>1, <1>2
<1>4. \/ buffer' = lines /\ batch' = batch /\ todo' = todo /\ tries' = tries
      \/ batch = {} /\ batch' = lines /\ todo' = lines /\ tries' = 0 /\ buffer' = {}
  BY DEF flushing, Drain
<1>5. SinkTypeOK'
  <2> HIDE DEF lines, line
  <2>1. lines \subseteq Line' /\ dropped' \subseteq Line' /\ Line \subseteq Line'
    BY <1>1, <1>2, <1>3
  <2>2. buffer' \subseteq Line' /\ batch' \subseteq Line' /\ todo' \subseteq batch'
    BY <1>2, <1>4, <2>1
  <2>3. {buffer', batch', todo', sent', flying', dropped', lost', behind'}
             \subseteq SUBSET (Line')
    BY <1>2, <2>1, <2>2
  <2>4. tries' \in 0..MaxRetries /\ pending' \in Nat /\ mark' \in Nat /\ failures' \in Nat
    BY <1>1, <1>4, SinkAssumption DEF SinkTypeOK, line
  <2>5. timer' \in BOOLEAN /\ disposed' \in BOOLEAN /\ appended' \in Nat
    BY <1>1 DEF line, SinkTypeOK
  <2> QED  BY <2>2, <2>3, <2>4, <2>5 DEF SinkTypeOK
<1>6. Placed'
  <2> HIDE DEF lines, line
  <2>1. Line = buffer \cup batch \cup sent \cup dropped \cup lost
    BY DEF Placed
  <2>2. Line' = lines \cup batch \cup sent \cup dropped' \cup lost
    BY <1>1, <1>3, <2>1
  <2>3. Line' = UNION {buffer', batch', sent', dropped', lost'}
    BY <1>4, <2>2
  <2>4. buffer \cap UNION {batch, sent, flying, dropped, lost} = {}
    BY DEF Placed
  <2>5. CASE buffer' = {}
    BY <2>3, <2>5 DEF Placed
  <2>6. CASE buffer' = lines /\ batch' = batch
    BY <1>1, <1>2, <1>3, <2>3, <2>4, <2>6 DEF Placed
  <2> QED  BY <1>4, <2>5, <2>6
<1>7. Ordered'
  <2> HIDE DEF lines, line
  <2>1. Out' = Out /\ Out \subseteq Line /\ Out \cap buffer = {}
    BY <1>2 DEF Out, Placed
  <2>2. \A m \in Out \ batch : \A l \in batch \cup lines : m < l
    <3> SUFFICES ASSUME NEW m \in Out \ batch, NEW l \in batch \cup lines PROVE m < l
      OBVIOUS
    <3>1. CASE l \in batch \cup buffer
      BY <3>1 DEF Ordered
    <3>2. CASE l = line
      BY <1>1, <2>1, <3>2
    <3> QED  BY <1>3, <3>1, <3>2
  <2>3. \A l \in batch, m \in lines : l < m
    BY <1>1, <1>2, <1>3 DEF Ordered
  <2>4. CASE buffer' = lines /\ batch' = batch /\ todo' = todo
    BY <2>1, <2>2, <2>3, <2>4 DEF Ordered
  <2>5. CASE batch = {} /\ batch' = lines /\ todo' = lines /\ buffer' = {}
    <3>1. lines \cap Out = {}
      BY <1>1, <1>3, <2>1
    <3> QED  BY <2>1, <2>2, <2>5, <3>1 DEF Ordered
  <2> QED  BY <1>4, <2>4, <2>5
<1>8. Budgeted'
  <2>1. IsFiniteSet(buffer) /\ Cardinality(buffer) \in Nat /\ Cardinality(batch) \in Nat
    BY <1>1, <1>2, LinesFinite
  <2>2. Cardinality(lines) = IF room THEN Cardinality(buffer) + 1 ELSE Cardinality(buffer)
    BY <1>1, <1>2, <2>1, FS_AddElement
  <2>3. Cardinality({}) = 0
    BY FS_EmptySet
  <2>4. Cardinality(buffer') + Cardinality(batch') = Cardinality(lines) + Cardinality(batch)
    <3>1. Cardinality(lines) \in Nat
      BY <2>1, <2>2
    <3> HIDE DEF lines, line
    <3>2. CASE buffer' = lines /\ batch' = batch
      BY <3>2
    <3>3. CASE batch = {} /\ batch' = lines /\ buffer' = {}
      <4>1. Cardinality(buffer') = 0 /\ Cardinality(batch) = 0
        BY <2>3, <3>3
      <4>2. Cardinality(batch') = Cardinality(lines)
        BY <3>3
      <4> QED  BY <3>1, <4>1, <4>2
    <3> QED  BY <1>4, <3>2, <3>3
  <2>5. pending = Cardinality(buffer) + Cardinality(batch)
    BY DEF Budgeted
  <2>6. pending' = Cardinality(buffer') + Cardinality(batch')
    BY <2>1, <2>2, <2>4, <2>5
  <2>7. ~ disposed'
    OBVIOUS
  <2> QED  BY <2>1, <2>6, <2>7, SinkAssumption DEF Budgeted, SinkTypeOK
<1>9. Marked'
  <2>1. mark' <= appended'
    BY <1>1 DEF Marked, SinkTypeOK
  <2>2. mark \in Nat /\ mark <= appended /\ \A l \in buffer : l \in behind \/ l > mark
    BY DEF Marked, Late, SinkTypeOK
  <2>3. CASE UNCHANGED <<mark, behind>>
    <3> HIDE DEF lines, line
    <3>1. mark < line
      BY <1>1, <2>2 DEF line
    <3>2. Late(lines)
      BY <1>3, <2>2, <3>1 DEF Late
    <3>3. Late(buffer') /\ lost' = {}
      BY <1>2, <1>4, <2>3, <3>2 DEF Late
    <3> QED  BY <2>1, <2>3, <3>3 DEF Marked, Late
  <2>4. CASE buffer' \subseteq behind'
    BY <1>2, <2>1, <2>4 DEF Marked, Late
  <2> QED  BY <2>3, <2>4
<1> QED  BY <1>5, <1>6, <1>7, <1>8, <1>9

(* append, on a sink that is open.                                           *)
LEMMA AppendKeeps ==
  ASSUME SinkInv, ~ disposed, Append
  PROVE  /\ SinkInv' /\ UNCHANGED <<mark, behind, disposed>>
         /\ Late(batch) => Late(batch)'
<1> USE DEF Append, drain
<1>1. timer' \in BOOLEAN
  BY DEF SinkInv, SinkTypeOK
<1>0. UNCHANGED <<mark, behind, disposed>>
  OBVIOUS
<1>4. Late(batch) => Late(batch)'
  <2>1. batch' \in {batch, buffer \cup {appended + 1}}
    BY DEF Drain
  <2>2. appended + 1 > mark /\ Late(buffer)
    BY DEF SinkInv, SinkTypeOK, Marked
  <2> QED  BY <1>0, <2>1, <2>2 DEF Late
<1>2. CASE pending + 1 > MaxPending /\ dropped' = dropped \cup {appended + 1}
           /\ UNCHANGED <<buffer, drain, pending, timer>>
  <2>1. pending' <= MaxPending
    BY <1>2 DEF SinkInv, Budgeted
  <2>2. SinkInv'
    BY <1>1, <1>2, <2>1, GrowKeeps
  <2> QED  BY <1>0, <1>4, <2>2
<1>3. CASE pending + 1 <= MaxPending /\ pending' = pending + 1 /\ UNCHANGED dropped
           /\ \/ buffer' = buffer \cup {appended + 1} /\ UNCHANGED drain
              \/ ~ flushing /\ Drain(buffer \cup {appended + 1})
  <2>1. SinkInv'
    BY <1>1, <1>3, GrowKeeps
  <2> QED  BY <1>0, <1>4, <2>1
<1> QED  BY <1>0, <1>2, <1>3, <1>4

(* A last line and flush().                                                  *)
LEMMA FlushKeeps ==
  ASSUME SinkInv, ~ disposed, AppendAndFlush
  PROVE  SinkInv' /\ UNCHANGED disposed
<1> DEFINE room == pending + 1 <= MaxPending
<1> USE DEF AppendAndFlush, drain
<1>1. timer' = FALSE /\ UNCHANGED disposed
  OBVIOUS
<1>2. pending' <= MaxPending
  BY DEF SinkInv, Budgeted
<1>3. buffer' \subseteq behind' /\ behind' \in {behind, behind \cup buffer'}
  BY DEF Drain
<1> QED  BY <1>1, <1>2, <1>3, GrowKeeps

(* A timer drains the buffer unless a drain is under way.                    *)
LEMMA TimerKeeps ==
  ASSUME SinkInv, TimerFires
  PROVE  /\ SinkInv' /\ UNCHANGED <<mark, behind, disposed>>
         /\ Late(batch) => Late(batch)'
<1> USE DEF SinkInv, drain
<1>1. UNCHANGED <<appended, pending, disposed, sent, flying, dropped, lost, behind, mark, failures>>
      /\ timer' = FALSE
  BY DEF TimerFires
<1>2. CASE UNCHANGED <<buffer, drain>>
  BY <1>1, <1>2 DEF SinkTypeOK, Placed, Ordered, Out, Budgeted, Marked, Late, Line
<1>3. CASE batch = {} /\ Drain(buffer)
  <2>1. batch' = buffer /\ todo' = buffer /\ tries' = 0 /\ buffer' = {} /\ batch = {}
    BY <1>3 DEF Drain
  <2>2. SinkTypeOK'
    <3>1. {buffer', batch', todo', sent', flying', dropped', lost', behind'} \subseteq SUBSET Line
      BY <1>1, <2>1 DEF SinkTypeOK
    <3>2. Line' = Line
      BY <1>1 DEF Line
    <3>3. tries' \in 0..MaxRetries
      BY <2>1, SinkAssumption
    <3>6. timer' \in BOOLEAN
      BY <1>1
    <3>4. /\ appended' \in Nat /\ pending' \in Nat /\ mark' \in Nat
          /\ failures' \in Nat /\ disposed' \in BOOLEAN
      BY <1>1 DEF SinkTypeOK
    <3>5. todo' \subseteq batch'
      BY <2>1
    <3> QED  BY <3>1, <3>2, <3>3, <3>4, <3>5, <3>6 DEF SinkTypeOK
  <2>3. Placed' /\ Ordered'
    BY <1>1, <2>1 DEF Placed, Ordered, Out, Line
  <2>4. Budgeted'
    <3>1. Cardinality({}) = 0 /\ Cardinality(buffer) \in Nat
      BY LinesFinite, FS_EmptySet DEF SinkTypeOK
    <3>2. Cardinality(buffer') + Cardinality(batch') = Cardinality(buffer) + Cardinality(batch)
      BY <2>1, <3>1
    <3>3. disposed' => buffer' = {} /\ ~ timer'
      BY <1>1, <2>1
    <3> QED  BY <1>1, <3>2, <3>3 DEF Budgeted
  <2>5. Marked' /\ Late(batch)'
    BY <1>1, <2>1 DEF Marked, Late
  <2> QED  BY <1>1, <2>2, <2>3, <2>4, <2>5
<1> QED  BY <1>2, <1>3 DEF TimerFires, flushing

(* The end of a batch: each of its lines is sent, dropped or, once the sink  *)
(* is disposed of, lost.                                                     *)
LEMMA EndKeeps ==
  ASSUME SinkInv, batch' = {}, todo' = {}, tries' = 0,
         pending' = pending - Cardinality(batch),
         sent \subseteq sent', sent' \subseteq sent \cup batch,
         flying \subseteq flying', flying' \subseteq flying \cup batch,
         dropped \subseteq dropped', dropped' \subseteq dropped \cup batch,
         lost \subseteq lost', lost' \subseteq lost \cup batch,
         batch \subseteq UNION {sent', dropped', lost'},
         ~ disposed => lost' = lost, failures' \in Nat,
         UNCHANGED <<appended, buffer, timer, disposed, behind, mark>>
  PROVE  SinkInv' /\ Late(batch)'
<1> USE DEF SinkInv
<1>1. /\ buffer \subseteq Line /\ batch \subseteq Line /\ sent \subseteq Line
      /\ flying \subseteq Line /\ dropped \subseteq Line /\ lost \subseteq Line
      /\ appended \in Nat /\ Line' = Line
  BY DEF SinkTypeOK, Line
<1>2. Cardinality(buffer) \in Nat /\ Cardinality(batch) \in Nat /\ Cardinality({}) = 0
  BY <1>1, LinesFinite, FS_EmptySet
<1>3. SinkTypeOK'
  <2>1. pending' \in Nat
    BY <1>2 DEF SinkTypeOK, Budgeted
  <2>2. {buffer', batch', todo', sent', flying', dropped', lost', behind'} \subseteq SUBSET Line
    BY <1>1 DEF SinkTypeOK
  <2> QED  BY <1>1, <2>1, <2>2, SinkAssumption DEF SinkTypeOK
<1>4. Placed'
  <2>1. UNION {buffer', batch', sent', dropped', lost'} = UNION {buffer, batch, sent, dropped, lost}
    OBVIOUS
  <2> QED  BY <1>1, <2>1 DEF Placed
<1>5. Ordered'
  <2>1. \A m \in Out' : m \in batch \/ m \in Out \ batch
    BY DEF Out
  <2> QED  BY <2>1 DEF Ordered
<1>6. Budgeted'
  BY <1>2, SinkAssumption DEF Budgeted, SinkTypeOK
<1>7. Marked' /\ Late(batch)'
  BY DEF Marked, Late
<1> QED  BY <1>3, <1>4, <1>5, <1>6, <1>7

(* The posts and their failures.                                             *)
LEMMA PostsKeep ==
  ASSUME SinkInv, Posts
  PROVE  /\ SinkInv' /\ UNCHANGED <<mark, behind, disposed>>
         /\ Late(batch) => Late(batch)'
<1> USE DEF SinkInv
<1>0. UNCHANGED <<appended, buffer, timer, disposed, behind, mark>> /\ failures' \in Nat
  <2>1. failures' \in {failures, failures + 1}
    BY DEF Posts, PieceAccepted, PieceRefused, PieceFails, GivesUp
  <2>2. UNCHANGED <<appended, buffer, timer, disposed, behind, mark>>
    BY DEF Posts, PieceAccepted, PieceRefused, PieceFails, GivesUp
  <2> QED  BY <2>1, <2>2 DEF SinkTypeOK
<1>1. Piece \subseteq todo /\ todo \subseteq batch /\ batch \subseteq Line /\ Line' = Line
      /\ Line \subseteq Nat
  BY <1>0, PieceFacts DEF SinkTypeOK, Line
<1>2. CASE PieceAccepted
  <2>1. CASE todo = Piece
    <3>1. batch \subseteq sent'
      BY <1>2, <2>1 DEF PieceAccepted, Ordered
    <3> QED  BY <1>0, <1>1, <1>2, <2>1, <3>1, EndKeeps DEF PieceAccepted, BatchEnds
  <2>2. CASE todo # Piece
    <3>1. /\ sent' = sent \cup Piece /\ todo' = todo \ Piece
          /\ UNCHANGED <<batch, tries, pending, dropped, flying, lost>>
      BY <1>2, <2>2 DEF PieceAccepted
    <3>2. SinkTypeOK'
      BY <1>0, <1>1, <3>1 DEF SinkTypeOK
    <3>3. Placed'
      <4>1. Piece \cap buffer = {} /\ Piece \subseteq batch
        BY <1>1 DEF Placed
      <4>2. UNION {buffer, batch, sent', dropped, lost} = UNION {buffer, batch, sent, dropped, lost}
        BY <3>1, <4>1
      <4> QED  BY <1>0, <1>1, <3>1, <4>1, <4>2 DEF Placed
    <3>4. Ordered'
      <4>1. \A l \in Piece, k \in todo \ Piece : l < k
        BY <1>1, PieceFacts
      <4>2. Out' = Out \cup Piece
        BY <3>1 DEF Out
      <4>3. \A l \in batch, m \in Out' \cap batch : l < m => l \in Out'
        <5> SUFFICES ASSUME NEW l \in batch, NEW m \in Piece, l < m PROVE l \in Out'
          BY <4>2 DEF Ordered
        <5>1. CASE l \in todo
          BY <4>2, <5>1, PieceFacts
        <5>2. CASE l \notin todo
          BY <4>2, <5>2 DEF Ordered, Out
        <5> QED  BY <5>1, <5>2
      <4>4. /\ batch' \ todo' \subseteq sent'
            /\ \A l \in batch' \ todo', m \in todo' : l < m
        BY <1>1, <3>1, <4>1 DEF Ordered
      <4>5. \A m \in Out' \ batch : \A l \in batch \cup buffer : m < l
        BY <1>1, <4>2 DEF Ordered
      <4> QED  BY <1>0, <3>1, <4>3, <4>4, <4>5 DEF Ordered
    <3>5. Budgeted' /\ Marked' /\ (Late(batch) => Late(batch)')
      BY <1>0, <3>1 DEF Budgeted, Marked, Late
    <3> QED  BY <1>0, <3>2, <3>3, <3>4, <3>5
  <2> QED  BY <2>1, <2>2
<1>3. CASE PieceRefused
  BY <1>0, <1>3, EndKeeps DEF PieceRefused, BatchEnds
<1>4. CASE GivesUp
  BY <1>0, <1>4, EndKeeps DEF GivesUp, BatchEnds
<1>5. CASE PieceFails
  <2>1. flying' = flying \cup Piece /\ UNCHANGED sent
    BY <1>5 DEF PieceFails
  <2>2. CASE tries = MaxRetries \/ disposed
    <3>1. CASE tries = MaxRetries
      BY <1>0, <1>1, <1>5, <2>1, <3>1, EndKeeps DEF PieceFails, BatchEnds
    <3>2. CASE tries # MaxRetries
      BY <1>0, <1>1, <1>5, <2>1, <2>2, <3>2, EndKeeps DEF PieceFails, BatchEnds
    <3> QED  BY <3>1, <3>2
  <2>3. CASE tries # MaxRetries /\ ~ disposed
    <3>1. /\ todo' = batch /\ tries' = tries + 1
          /\ UNCHANGED <<batch, pending, dropped, lost>>
      BY <1>5, <2>3 DEF PieceFails
    <3>2. SinkTypeOK'
      <4>1. tries' \in 0..MaxRetries
        BY <2>3, <3>1, SinkAssumption DEF SinkTypeOK
      <4>2. {buffer', batch', todo', sent', flying', dropped', lost', behind'} \subseteq SUBSET Line
        BY <1>0, <1>1, <2>1, <3>1 DEF SinkTypeOK
      <4> QED  BY <1>0, <1>1, <3>1, <4>1, <4>2 DEF SinkTypeOK
    <3>3. Placed'
      BY <1>0, <1>1, <2>1, <3>1 DEF Placed
    <3>4. Ordered'
      <4>1. Out' = Out \cup Piece
        BY <2>1 DEF Out
      <4>2. \A l \in batch, m \in Out' \cap batch : l < m => l \in Out'
        <5> SUFFICES ASSUME NEW l \in batch, NEW m \in Piece, l < m PROVE l \in Out'
          BY <4>1 DEF Ordered
        <5>1. CASE l \in todo
          BY <4>1, <5>1, PieceFacts
        <5>2. CASE l \notin todo
          BY <4>1, <5>2 DEF Ordered, Out
        <5> QED  BY <5>1, <5>2
      <4>3. \A m \in Out' \ batch : \A l \in batch \cup buffer : m < l
        BY <1>1, <4>1 DEF Ordered
      <4> QED  BY <1>0, <3>1, <4>2, <4>3 DEF Ordered
    <3>5. Budgeted' /\ Marked' /\ (Late(batch) => Late(batch)')
      BY <1>0, <3>1 DEF Budgeted, Marked, Late
    <3> QED  BY <1>0, <3>2, <3>3, <3>4, <3>5
  <2> QED  BY <2>2, <2>3
<1> QED  BY <1>2, <1>3, <1>4, <1>5 DEF Posts

(* A post that was taken for lost arrives.                                   *)
LEMMA ArrivesKeeps ==
  ASSUME SinkInv, Arrives
  PROVE  /\ SinkInv' /\ UNCHANGED <<mark, behind, disposed>>
         /\ Late(batch) => Late(batch)'
<1> USE DEF SinkInv, drain
<1>1. /\ sent' = sent \cup flying /\ flying' = {}
      /\ UNCHANGED <<appended, buffer, batch, todo, tries, pending, timer, disposed,
                     dropped, lost, behind, mark, failures>>
  BY DEF Arrives
<1>2. SinkTypeOK' /\ Placed'
  BY <1>1 DEF SinkTypeOK, Placed, Line
<1>3. Ordered'
  <2>1. Out' = Out
    BY <1>1 DEF Out
  <2> QED  BY <1>1, <2>1 DEF Ordered
<1>4. Budgeted' /\ Marked' /\ (Late(batch) => Late(batch)')
  BY <1>1 DEF Budgeted, Marked, Late
<1> QED  BY <1>1, <1>2, <1>3, <1>4

(* dispose() throws the buffer away.                                         *)
LEMMA DisposeKeeps ==
  ASSUME SinkInv, Late(batch), Dispose
  PROVE  SinkInv' /\ disposed' /\ Late(batch)'
<1> USE DEF SinkInv, drain
<1>1. /\ disposed' = TRUE /\ timer' = FALSE /\ buffer' = {} /\ lost' = lost \cup buffer
      /\ UNCHANGED <<appended, batch, todo, tries, pending, sent, flying, dropped,
                     behind, mark, failures>>
  BY DEF Dispose
<1>2. SinkTypeOK' /\ Placed' /\ Ordered'
  <2>1. Line' = Line
    BY <1>1 DEF Line
  <2>2. {buffer', batch', todo', sent', flying', dropped', lost', behind'} \subseteq SUBSET Line
    BY <1>1 DEF SinkTypeOK
  <2>3. SinkTypeOK'
    BY <1>1, <2>1, <2>2 DEF SinkTypeOK
  <2>4. UNION {buffer', batch, sent, dropped, lost'} = UNION {buffer, batch, sent, dropped, lost}
    BY <1>1
  <2>5. Placed'
    BY <1>1, <2>1, <2>4 DEF Placed
  <2>6. Ordered'
    BY <1>1 DEF Ordered, Out
  <2> QED  BY <2>3, <2>5, <2>6
<1>3. Budgeted'
  <2>1. Cardinality({}) = 0 /\ Cardinality(buffer) \in Nat /\ Cardinality(batch) \in Nat
    BY LinesFinite, FS_EmptySet DEF SinkTypeOK
  <2> QED  BY <1>1, <2>1, SinkAssumption DEF Budgeted, SinkTypeOK
<1>4. Marked' /\ Late(batch)'
  BY <1>1 DEF Marked, Late
<1> QED  BY <1>1, <1>2, <1>3, <1>4

(* A line that is new to the console was on its way, or comes after all that *)
(* the console has.                                                          *)
NewIsLast == \A l \in sent' \ sent : l \in flying \/ \A m \in sent : m < l

LEMMA PostsInOrder ==
  ASSUME SinkInv, Posts \/ Arrives
  PROVE  NewIsLast
<1>1. sent' \in {sent, sent \cup Piece, sent \cup flying}
  BY DEF Posts, Arrives, PieceAccepted, PieceRefused, PieceFails, GivesUp
<1>2. ASSUME NEW l \in Piece, l \notin sent, l \notin flying, NEW m \in sent
      PROVE  m < l
  <2>1. l \in batch /\ l \in Nat /\ m \in Nat /\ l # m
    BY <1>2, PieceFacts, LinesFinite DEF SinkInv, SinkTypeOK
  <2>2. CASE m \in batch
    BY <1>2, <2>1, <2>2 DEF SinkInv, Ordered, Out
  <2>3. CASE m \notin batch
    BY <2>1, <2>3 DEF SinkInv, Ordered, Out
  <2> QED  BY <2>2, <2>3
<1> QED  BY <1>1, <1>2 DEF NewIsLast

-----------------------------------------------------------------------------
(* The job.                                                                  *)

(* From a flush() that has returned to the end, only lines that it did not   *)
(* promise are in a batch.                                                   *)
Flushed == jpc \in {"complete", "completeFailed", "dispose", "done"} => Late(batch)

(* What the runner knows of the site follows from where it is.               *)
Journey ==
    /\ jpc \in {"begin", "clone", "checkout", "fullFetch", "retryCheckout", "submodules",
                "install", "build", "legacyBuild", "collect", "deploy"} =>
           ~ deployed /\ ~ unread /\ reports = 0 /\ outcome = "none"
    /\ jpc \in {"settle", "complete"} =>
           deployed /\ ~ unread /\ reports = 0 /\ outcome = "none"
    /\ jpc \in {"failing", "settleFailed", "completeFailed"} =>
           \/ reports = 0 /\ outcome = "none" /\ (deployed => unread)
           \/ reports = 1 /\ outcome \in {"none", "completed"} /\ deployed /\ ~ unread

JobInv ==
    /\ JobTypeOK /\ SinkInv
    /\ disposed <=> jpc = "done"
    /\ Flushed
    /\ Journey /\ OutcomeTruthful

(* The variables of the job itself have their types.                         *)
JobOwnTypes ==
    /\ installs \in Installs
    /\ jpc \in {"begin", "clone", "checkout", "fullFetch", "retryCheckout", "submodules",
                "install", "build", "legacyBuild", "collect", "deploy",
                "settle", "complete", "failing", "settleFailed", "completeFailed",
                "dispose", "done"}
    /\ attempt \in 1..installs
    /\ deployed \in BOOLEAN /\ unread \in BOOLEAN
    /\ reports \in 0..2
    /\ outcome \in {"none", "completed", "failed"}
    /\ output \in 0..MaxOutput

LEMMA JobTypesSplit == JobTypeOK <=> SinkTypeOK /\ JobOwnTypes
BY DEF JobTypeOK, JobOwnTypes

(* At first nothing has happened.                                            *)
LEMMA JobInvInit == JobInit => JobInv
<1> SUFFICES ASSUME JobInit PROVE JobInv
  OBVIOUS
<1>1. SinkInv
  BY SinkInvInit DEF JobInit
<1>2. disposed = FALSE
  BY DEF JobInit, SinkInit
<1>3. JobOwnTypes
  <2>1. installs \in Nat \ {0}
    BY JobAssumption DEF JobInit
  <2>2. attempt \in 1..installs /\ reports \in 0..2 /\ output \in 0..MaxOutput
    BY <2>1, JobAssumption DEF JobInit
  <2> QED  BY <2>2 DEF JobInit, JobOwnTypes
<1>4. Flushed /\ Journey /\ OutcomeTruthful
  BY DEF JobInit, Flushed, Journey, OutcomeTruthful
<1> QED  BY <1>1, <1>2, <1>3, <1>4, JobTypesSplit DEF JobInv, SinkInv, JobInit

(* A step of the job keeps its own types and what it knows of the site.      *)
LEMMA JourneyKept ==
  ASSUME JobInv, JobStep
  PROVE  JobOwnTypes' /\ Journey' /\ OutcomeTruthful'
<1> USE DEF JobOwnTypes, Journey, OutcomeTruthful, JobAt, Go, site, console
<1>0. JobOwnTypes /\ Journey /\ OutcomeTruthful
  BY JobTypesSplit DEF JobInv
<1>1. CASE Begin
  BY <1>0, <1>1 DEF Begin
<1>2. CASE FetchCommit \/ Checkout \/ FullFetch \/ RetryCheckout \/ Submodules
  BY <1>0, <1>2 DEF FetchCommit, Checkout, FullFetch, RetryCheckout, Submodules
<1>3. CASE Install
  <2>1. installs \in Nat \ {0}
    BY <1>0, JobAssumption
  <2>2. attempt' \in 1..installs /\ UNCHANGED <<installs, site, console, output>>
    BY <1>0, <1>3, <2>1 DEF Install
  <2>3. jpc = "install" /\ jpc' \in {"install", "build", "failing"}
    BY <1>3 DEF Install
  <2> QED  BY <1>0, <2>2, <2>3
<1>4. CASE RunBuild \/ LegacyBuild \/ CollectOutput
  BY <1>0, <1>4 DEF RunBuild, LegacyBuild, CollectOutput
<1>5. CASE RunCliDeploy
  <2>1. jpc = "deploy" /\ UNCHANGED <<installs, attempt, console, output>>
    BY <1>5 DEF RunCliDeploy
  <2>2. \/ deployed' = TRUE /\ UNCHANGED unread /\ jpc' = "settle"
        \/ deployed' \in BOOLEAN /\ unread' = deployed' /\ jpc' = "failing"
    BY <1>5 DEF RunCliDeploy
  <2>3. CASE deployed' = TRUE /\ UNCHANGED unread /\ jpc' = "settle"
    BY <1>0, <2>1, <2>3
  <2>4. CASE deployed' \in BOOLEAN /\ unread' = deployed' /\ jpc' = "failing"
    <3>1. CASE deployed' = TRUE /\ unread' = TRUE
      BY <1>0, <2>1, <2>4, <3>1
    <3>2. CASE deployed' = FALSE /\ unread' = FALSE
      BY <1>0, <2>1, <2>4, <3>2
    <3> QED  BY <2>4, <3>1, <3>2
  <2> QED  BY <2>2, <2>3, <2>4
<1>6. CASE Settle \/ Catch \/ SettleFailed \/ Finally
  BY <1>0, <1>6 DEF Settle, Catch, SettleFailed, Finally
<1>7. CASE CompleteBuild
  BY <1>0, <1>7 DEF CompleteBuild, Report
<1>8. CASE CompleteFailed
  BY <1>0, <1>8 DEF CompleteFailed, Report
<1> QED  BY <1>1, <1>2, <1>3, <1>4, <1>5, <1>6, <1>7, <1>8 DEF JobStep

(* What a step of the job does to the sink.                                  *)
LEMMA SinkOfStep ==
  ASSUME JobInv, JobStep
  PROVE  SinkInv' /\ (disposed' <=> jpc' = "done") /\ Flushed'
<1> USE DEF JobInv, JobAt, Go
<1>0. jpc # "done" /\ ~ disposed
  BY DEF JobStep, Begin, FetchCommit, Checkout, FullFetch, RetryCheckout, Submodules,
     Install, RunBuild, LegacyBuild, CollectOutput, RunCliDeploy, Settle,
     CompleteBuild, Catch, SettleFailed, CompleteFailed, Finally
<1>1. ASSUME UNCHANGED sinkVars, jpc' # "done",
             jpc' \in {"complete", "completeFailed", "dispose"} => Late(batch)
      PROVE  SinkInv' /\ (disposed' <=> jpc' = "done") /\ Flushed'
  <2>1. UNCHANGED <<appended, buffer, batch, todo, tries, pending, timer, disposed,
                    sent, flying, dropped, lost, behind, mark, failures>>
    BY <1>1 DEF sinkVars, drain
  <2>2. SinkInv'
    BY <2>1 DEF SinkInv, SinkTypeOK, Placed, Ordered, Out, Budgeted, Marked, Late, Line
  <2>3. Flushed'
    BY <1>1, <2>1 DEF Flushed, Late
  <2> QED  BY <1>0, <1>1, <2>1, <2>2, <2>3
<1>2. ASSUME Append, jpc' \notin {"complete", "completeFailed", "dispose", "done"}
      PROVE  SinkInv' /\ (disposed' <=> jpc' = "done") /\ Flushed'
  BY <1>0, <1>2, AppendKeeps DEF Flushed
<1>3. ASSUME AppendAndFlush, jpc' \in {"settle", "settleFailed"}
      PROVE  SinkInv' /\ (disposed' <=> jpc' = "done") /\ Flushed'
  BY <1>0, <1>3, FlushKeeps DEF Flushed
<1>4. CASE Finally
  <2>1. Late(batch) /\ Dispose /\ jpc' = "done"
    BY <1>4 DEF Finally, Flushed
  <2> QED  BY <2>1, DisposeKeeps DEF Flushed
<1>5. CASE Settle \/ SettleFailed
  <2>1. Late(batch) /\ UNCHANGED sinkVars /\ jpc' \in {"complete", "completeFailed"}
    BY <1>5 DEF Settle, SettleFailed, flushing, Late
  <2> QED  BY <1>1, <2>1
<1>6. CASE CompleteBuild \/ CompleteFailed
  <2>1. Late(batch) /\ UNCHANGED sinkVars /\ jpc' \in {"dispose", "failing"}
    BY <1>6 DEF CompleteBuild, CompleteFailed, Flushed
  <2> QED  BY <1>1, <2>1
<1>7. CASE Begin \/ FetchCommit \/ Checkout \/ FullFetch \/ RetryCheckout \/ Submodules
           \/ Install \/ RunBuild \/ LegacyBuild \/ CollectOutput
  <2>1. /\ jpc' \notin {"complete", "completeFailed", "dispose", "done"}
        /\ Append \/ UNCHANGED sinkVars
    BY <1>7 DEF Begin, FetchCommit, Checkout, FullFetch, RetryCheckout, Submodules,
       Install, RunBuild, LegacyBuild, CollectOutput
  <2> QED  BY <1>1, <1>2, <2>1
<1>8. CASE RunCliDeploy \/ Catch
  <2>1. \/ AppendAndFlush /\ jpc' \in {"settle", "settleFailed"}
        \/ UNCHANGED sinkVars /\ jpc' = "failing"
    BY <1>8 DEF RunCliDeploy, Catch
  <2> QED  BY <1>1, <1>3, <2>1
<1> QED  BY <1>4, <1>5, <1>6, <1>7, <1>8 DEF JobStep

(* Output and the sink's own steps leave the job where it is.                *)
LEMMA SinkAlone ==
  ASSUME JobInv, Output \/ Sink(TimerFires) \/ Sink(Posts) \/ Sink(Arrives)
  PROVE  JobInv'
<1> USE DEF JobInv, site, console
<1>1. /\ UNCHANGED <<installs, jpc, attempt, site, console>>
      /\ output' \in {output, output + 1} /\ output' <= MaxOutput
  BY JobAssumption DEF Output, Sink, JobTypeOK
<1>2. SinkInv' /\ disposed' = disposed /\ (Late(batch) => Late(batch)')
  <2>1. CASE Output
    <3>1. CASE disposed
      <4>1. UNCHANGED <<appended, buffer, batch, todo, tries, pending, timer, disposed,
                        sent, flying, dropped, lost, behind, mark, failures>>
        BY <2>1, <3>1 DEF Output, AppendIfOpen, sinkVars, drain
      <4> QED
        BY <4>1 DEF SinkInv, SinkTypeOK, Placed, Ordered, Out, Budgeted, Marked, Late, Line
    <3>2. CASE ~ disposed
      BY <2>1, <3>2, AppendKeeps DEF Output, AppendIfOpen
    <3> QED  BY <3>1, <3>2
  <2>2. CASE Sink(TimerFires) \/ Sink(Posts) \/ Sink(Arrives)
    BY <2>2, TimerKeeps, PostsKeep, ArrivesKeeps DEF Sink
  <2> QED  BY <2>1, <2>2
<1>3. JobOwnTypes'
  BY <1>1, JobTypesSplit, JobAssumption DEF JobOwnTypes
<1>4. SinkTypeOK'
  BY <1>2 DEF SinkInv
<1>5. JobTypeOK'
  BY <1>3, <1>4 DEF JobTypeOK, JobOwnTypes
<1>6. Flushed'
  BY <1>1, <1>2 DEF Flushed
<1>7. Journey' /\ OutcomeTruthful'
  BY <1>1 DEF Journey, OutcomeTruthful
<1> QED  BY <1>1, <1>2, <1>5, <1>6, <1>7

(* Every step keeps the invariant.                                           *)
LEMMA JobInvStep == JobInv /\ [JobNext]_jobVars => JobInv'
<1> SUFFICES ASSUME JobInv, [JobNext]_jobVars PROVE JobInv'
  OBVIOUS
<1>1. CASE JobStep
  <2>1. SinkInv' /\ (disposed' <=> jpc' = "done") /\ Flushed'
    BY <1>1, SinkOfStep
  <2>2. JobOwnTypes' /\ Journey' /\ OutcomeTruthful'
    BY <1>1, JourneyKept
  <2>3. JobTypeOK'
    BY <2>1, <2>2 DEF JobTypeOK, JobOwnTypes, SinkInv
  <2> QED  BY <2>1, <2>2, <2>3 DEF JobInv
<1>2. CASE UNCHANGED jobVars
  <2>1. UNCHANGED <<appended, buffer, batch, todo, tries, pending, timer, disposed,
                    sent, flying, dropped, lost, behind, mark, failures>>
    BY <1>2 DEF jobVars, sinkVars, drain
  <2>2. UNCHANGED <<installs, jpc, attempt, deployed, unread, reports, outcome, output>>
    BY <1>2 DEF jobVars, site, console
  <2>3. SinkInv'
    BY <2>1 DEF JobInv, SinkInv, SinkTypeOK, Placed, Ordered, Out, Budgeted, Marked, Late, Line
  <2>4. JobTypeOK'
    BY <2>2, <2>3 DEF JobInv, JobTypeOK, SinkInv
  <2>5. Flushed' /\ Journey' /\ OutcomeTruthful'
    BY <2>1, <2>2 DEF JobInv, Flushed, Late, Journey, OutcomeTruthful
  <2> QED  BY <2>1, <2>2, <2>3, <2>4, <2>5 DEF JobInv
<1> QED  BY <1>1, <1>2, SinkAlone DEF JobNext

(* The invariant holds in every reachable state.                             *)
LEMMA JobInvAlways == JobSpec => []JobInv
BY JobInvInit, JobInvStep, PTL DEF JobSpec

(* Every reachable state of a job and its sink has the declared types.       *)
THEOREM JobTypeCorrect == JobSpec => []JobTypeOK
<1>1. JobInv => JobTypeOK
  BY DEF JobInv
<1> QED  BY <1>1, JobInvAlways, PTL

(* No log line vanishes without being counted, but those that flush() does   *)
(* not promise; pendingBytes is what waits.                                  *)
THEOREM AccountedHolds == JobSpec => []Accounted
<1>1. JobInv => Accounted
  BY DEF JobInv, SinkInv, Placed, Budgeted, Marked, Late, Accounted
<1> QED  BY <1>1, JobInvAlways, PTL

(* The outcome that the console records is what became of the site.          *)
THEOREM OutcomeTruthfulHolds == JobSpec => []OutcomeTruthful
<1>1. JobInv => OutcomeTruthful
  BY DEF JobInv
<1> QED  BY <1>1, JobInvAlways, PTL

(* The console gets the lines in their order, but for a post that was given  *)
(* up and arrives late.                                                      *)
THEOREM InOrderHolds == JobSpec => InOrder
<1>1. ASSUME JobInv, JobNext
      PROVE  NewIsLast
  <2>1. CASE Sink(Posts) \/ Sink(Arrives)
    BY <1>1, <2>1, PostsInOrder DEF JobInv, Sink
  <2>2. CASE Output \/ Sink(TimerFires)
    BY <2>2 DEF Output, AppendIfOpen, Append, Sink, TimerFires, sinkVars, NewIsLast
  <2>3. CASE JobStep
    <3>1. UNCHANGED sinkVars \/ Append \/ AppendAndFlush \/ Dispose
      BY <2>3 DEF JobStep, Begin, FetchCommit, Checkout, FullFetch, RetryCheckout,
         Submodules, Install, RunBuild, LegacyBuild, CollectOutput, RunCliDeploy,
         Settle, CompleteBuild, Catch, SettleFailed, CompleteFailed, Finally
    <3> QED  BY <3>1 DEF sinkVars, Append, AppendAndFlush, Dispose, NewIsLast
  <2> QED  BY <1>1, <2>1, <2>2, <2>3 DEF JobNext
<1>2. JobInv /\ [JobNext]_jobVars =>
        [\A l \in sent' \ sent : l \in flying \/ \A m \in sent : m < l]_jobVars
  BY <1>1 DEF NewIsLast
<1> QED  BY <1>2, JobInvAlways, PTL DEF JobSpec, InOrder
-----------------------------------------------------------------------------
(* The machine of the builds.                                                *)

(* The types of its parts.  A job that was never claimed has all its         *)
(* attempts, one that is queued has one left: so no claim exceeds them.      *)
TablePart ==
    /\ jobs \in [Job -> {"absent", "ended"} \cup Work]
    /\ tried \in [Job -> 0 .. MaxTries]
    /\ \A b \in Job : /\ jobs[b] = "absent" => tried[b] = 0
                      /\ jobs[b] = "queued" => tried[b] < MaxTries
MachinePart ==
    /\ machineState \in {"started", "starting", "stopped", "stopping", "suspended"}
    /\ process \in {"off", "claim", "build", "tick", "exit"}
    /\ process # "off" <=> machineState = "started"
    /\ work \in Job \cup {Idle}
    /\ work # Idle <=> process = "build"
TickPart ==
    /\ owner \in Controller \cup {NoController}
    /\ ctl \in [Controller -> {"none", "reclaim", "count", "lock", "read", "act", "release"}]
    /\ counted \in [Controller -> SUBSET Work]
    /\ found \in [Controller -> SUBSET Work]
    /\ \A c \in Controller : found[c] \subseteq counted[c]
    /\ action \in [Controller -> {"start", "stop", "none"}]
WakePart == waking \in [Job -> {"none", "read", "start"}]

MachineInv == TablePart /\ MachinePart /\ TickPart /\ WakePart /\ mishaps \in 0 .. MaxMishaps

LEMMA MachineInvTypes == MachineInv => MachineTypeOK
BY DEF MachineInv, TablePart, MachinePart, TickPart, WakePart, MachineTypeOK

LEMMA MachineInvInit == MachineInit => MachineInv
<1> SUFFICES ASSUME MachineInit PROVE MachineInv
  OBVIOUS
<1> USE DEF MachineInit
<1>1. TablePart
  BY MachineAssumption DEF TablePart, Work
<1>2. MachinePart
  BY DEF MachinePart
<1>3. TickPart
  BY DEF TickPart
<1>4. WakePart /\ mishaps \in 0 .. MaxMishaps
  BY MachineAssumption DEF WakePart
<1> QED  BY <1>1, <1>2, <1>3, <1>4 DEF MachineInv

(* Creating a job, claiming one, reporting and taking back.                  *)
LEMMA TableKept ==
  ASSUME MachineInv,
         \/ UNCHANGED table \/ CreateJob \/ Taken \/ JobDone
         \/ \E c \in Controller, b \in Job : Reclaim(c, b)
  PROVE  TablePart'
<1> USE MachineAssumption DEF TablePart, Work, Job
<1> TablePart
  BY DEF MachineInv
<1>1. CASE UNCHANGED table
  BY <1>1 DEF table
<1>2. CASE CreateJob
  BY <1>2 DEF CreateJob, First, InState
<1>3. CASE Taken
  BY <1>3 DEF Taken, First, InState
<1>4. CASE JobDone
  <2>1. work \in Job
    BY <1>4 DEF MachineInv, MachinePart, JobDone
  <2> QED  BY <1>4, <2>1 DEF JobDone
<1>5. ASSUME NEW c \in Controller, NEW b \in Job, Reclaim(c, b) PROVE TablePart'
  BY <1>5 DEF Reclaim
<1> QED  BY <1>1, <1>2, <1>3, <1>4, <1>5

(* The machine starts, boots, stops and dies, and the runner on it goes on.  *)
LEMMA MachineKept ==
  ASSUME MachineInv,
         \/ UNCHANGED machine
         \/ Start /\ UNCHANGED <<process, work>>
         \/ Stop \/ Boots \/ Stops \/ Ends \/ Runs
         \/ TakesUnheard \/ ClaimRefused \/ ReportLost
  PROVE  MachinePart'
<1> USE DEF MachinePart, Idle
<1> MachinePart /\ 0 \notin Job
  BY MachineAssumption DEF MachineInv, Job
<1>1. CASE UNCHANGED machine
  BY <1>1 DEF machine
<1>2. CASE Start /\ UNCHANGED <<process, work>>
  BY <1>2 DEF Start
<1>3. CASE Stop
  BY <1>3 DEF Stop, machine
<1>4. CASE Boots \/ Stops \/ Ends
  BY <1>4 DEF Boots, Stops, Ends
<1>5. CASE TakesJob \/ TakesUnheard
  BY <1>5 DEF TakesJob, TakesUnheard, Taken, First, InState
<1>6. CASE NothingQueued \/ ClaimRefused \/ JobDone \/ ReportLost \/ RunnerTicks
  BY <1>6 DEF NothingQueued, ClaimRefused, JobDone, ReportLost, RunnerTicks
<1>7. CASE Exits
  BY <1>7 DEF Exits, Ends
<1> QED  BY <1>1, <1>2, <1>3, <1>4, <1>5, <1>6, <1>7 DEF Runs

(* A tick: what it counts, decides and does, and the lock.                   *)
LEMMA TicksKept ==
  ASSUME MachineInv,
         \/ UNCHANGED ticks \/ LockLapses
         \/ \E c \in Controller :
               \/ BeginTick(c) \/ ReclaimEnds(c) \/ TakeLock(c) \/ Act(c) \/ Release(c)
               \/ TickFails(c) \/ TickDies(c)
               \/ \E s \in Work : Count(c, s)
               \/ \E s : ReadState(c, s)
  PROVE  TickPart'
<1> USE DEF TickPart, Goto
<1> TickPart
  BY DEF MachineInv
<1>1. CASE UNCHANGED ticks \/ LockLapses
  BY <1>1 DEF ticks, LockLapses
<1>2. ASSUME NEW c \in Controller,
             \/ ReclaimEnds(c) \/ TakeLock(c) \/ Act(c) \/ Release(c) \/ TickFails(c) \/ TickDies(c)
      PROVE  TickPart'
  <2>1. /\ owner' \in Controller \cup {NoController}
        /\ ctl' \in [Controller -> {"none", "reclaim", "count", "lock", "read", "act", "release"}]
        /\ UNCHANGED <<counted, found, action>>
    BY <1>2 DEF ReclaimEnds, TakeLock, Act, Release, TickFails, TickDies
  <2> QED  BY <2>1
<1>3. ASSUME NEW c \in Controller, BeginTick(c) PROVE TickPart'
  BY <1>3 DEF BeginTick
<1>4. ASSUME NEW c \in Controller, NEW s \in Work, Count(c, s) PROVE TickPart'
  <2>1. /\ UNCHANGED <<owner, action>>
        /\ ctl' \in [Controller -> {"none", "reclaim", "count", "lock", "read", "act", "release"}]
    BY <1>4 DEF Count
  <2>2. /\ counted' = [counted EXCEPT ![c] = @ \cup {s}]
        /\ found' = found \/ found' = [found EXCEPT ![c] = @ \cup {s}]
    BY <1>4 DEF Count
  <2>3. counted' \in [Controller -> SUBSET Work] /\ found' \in [Controller -> SUBSET Work]
    BY <2>2
  <2>4. \A d \in Controller : found'[d] \subseteq counted'[d]
    BY <2>2
  <2> QED  BY <2>1, <2>3, <2>4
<1>5. ASSUME NEW c \in Controller, NEW s, ReadState(c, s) PROVE TickPart'
  <2>1. UNCHANGED <<owner, counted, found>>
        /\ action' = [action EXCEPT ![c] = Decide(s, found[c] # {})]
    BY <1>5 DEF ReadState
  <2>2. action' \in [Controller -> {"start", "stop", "none"}]
    BY <2>1 DEF Decide
  <2>3. ctl' \in [Controller -> {"none", "reclaim", "count", "lock", "read", "act", "release"}]
    BY <1>5 DEF ReadState
  <2> QED  BY <2>1, <2>2, <2>3
<1> QED  BY <1>1, <1>2, <1>3, <1>4, <1>5

LEMMA WakesKept ==
  ASSUME MachineInv,
         \/ UNCHANGED waking \/ CreateJob
         \/ \E b \in Job : WakeStarts(b) \/ WakeFails(b) \/ \E s : WakeReads(b, s)
  PROVE  WakePart'
BY DEF MachineInv, WakePart, CreateJob, First, InState, WakeStarts, WakeFails, WakeReads

(* Every step keeps each part.                                               *)
LEMMA MachineInvStep ==
  ASSUME MachineInv, [MachineNext]_machineVars
  PROVE  MachineInv'
<1>1. ASSUME TablePart', MachinePart', TickPart', WakePart', mishaps' \in 0 .. MaxMishaps
      PROVE  MachineInv'
  BY <1>1 DEF MachineInv
<1>2. CASE UNCHANGED machineVars
  <2>1. UNCHANGED <<table, machine, ticks, waking, mishaps>>
    BY <1>2 DEF machineVars
  <2> QED  BY <1>1, <2>1, TableKept, MachineKept, TicksKept, WakesKept DEF MachineInv
<1>3. ASSUME Goes \/ GoesWrong
      PROVE  TablePart' /\ MachinePart' /\ TickPart' /\ WakePart'
  <2>1. CASE CreateJob
    <3>1. UNCHANGED machine /\ UNCHANGED ticks
      BY <2>1 DEF CreateJob
    <3> QED  BY <2>1, <3>1, TableKept, MachineKept, TicksKept, WakesKept
  <2>2. ASSUME NEW b \in Job, WakeStarts(b) \/ WakeFails(b) \/ \E s : WakeReads(b, s)
        PROVE  TablePart' /\ MachinePart' /\ TickPart' /\ WakePart'
    <3>1. /\ UNCHANGED table /\ UNCHANGED ticks
          /\ UNCHANGED machine \/ (Start /\ UNCHANGED <<process, work>>)
      BY <2>2 DEF WakeStarts, WakeFails, WakeReads
    <3> QED  BY <2>2, <3>1, TableKept, MachineKept, TicksKept, WakesKept
  <2>3. CASE Boots \/ Stops \/ Crashes
    <3>1. /\ UNCHANGED table /\ UNCHANGED ticks /\ UNCHANGED waking
          /\ Boots \/ Stops \/ Ends
      BY <2>3 DEF Boots, Stops, Crashes
    <3> QED  BY <3>1, TableKept, MachineKept, TicksKept, WakesKept
  <2>4. ASSUME NEW c \in Controller, NEW b \in Job, Reclaim(c, b)
        PROVE  TablePart' /\ MachinePart' /\ TickPart' /\ WakePart'
    <3>1. UNCHANGED machine /\ UNCHANGED ticks /\ UNCHANGED waking
      BY <2>4 DEF Reclaim
    <3> QED  BY <2>4, <3>1, TableKept, MachineKept, TicksKept, WakesKept
  <2>5. ASSUME NEW c \in Controller,
               \/ CronTicks(c) \/ ReclaimEnds(c) \/ TakeLock(c) \/ Release(c)
               \/ TickFails(c) \/ TickDies(c)
               \/ \E s \in Work : Count(c, s)
               \/ \E s : ReadState(c, s)
        PROVE  TablePart' /\ MachinePart' /\ TickPart' /\ WakePart'
    <3>1. UNCHANGED table /\ UNCHANGED machine /\ UNCHANGED waking
      BY <2>5 DEF CronTicks, ReclaimEnds, TakeLock, Release, TickFails, TickDies, Count, ReadState
    <3>2. TickPart'
      BY <2>5, TicksKept DEF CronTicks
    <3> QED  BY <3>1, <3>2, TableKept, MachineKept, WakesKept
  <2>6. ASSUME NEW c \in Controller, Act(c)
        PROVE  TablePart' /\ MachinePart' /\ TickPart' /\ WakePart'
    <3>1. /\ UNCHANGED table /\ UNCHANGED waking
          /\ (Start /\ UNCHANGED <<process, work>>) \/ Stop
      BY <2>6 DEF Act
    <3> QED  BY <2>6, <3>1, TableKept, MachineKept, TicksKept, WakesKept
  <2>7. CASE LockLapses
    <3>1. UNCHANGED table /\ UNCHANGED machine /\ UNCHANGED waking
      BY <2>7 DEF LockLapses
    <3> QED  BY <2>7, <3>1, TableKept, MachineKept, TicksKept, WakesKept
  <2>8. CASE Runs \/ TakesUnheard \/ ClaimRefused \/ ReportLost
    <3>1. UNCHANGED waking
      BY <2>8 DEF Runs, TakesJob, NothingQueued, JobDone, RunnerTicks, Exits, TakesUnheard,
         ClaimRefused, ReportLost
    <3>2. UNCHANGED table \/ Taken \/ JobDone
      BY <2>8 DEF Runs, TakesJob, NothingQueued, JobDone, RunnerTicks, Exits, TakesUnheard,
         ClaimRefused, ReportLost
    <3>3. UNCHANGED ticks \/ \E c \in Controller : BeginTick(c)
      BY <2>8 DEF Runs, TakesJob, NothingQueued, JobDone, RunnerTicks, Exits, TakesUnheard,
         ClaimRefused, ReportLost
    <3> QED  BY <2>8, <3>1, <3>2, <3>3, TableKept, MachineKept, TicksKept, WakesKept
  <2>9. \/ CreateJob
        \/ \E b \in Job : WakeStarts(b) \/ WakeFails(b) \/ \E s : WakeReads(b, s)
        \/ Boots \/ Stops \/ Crashes
        \/ \E c \in Controller, b \in Job : Reclaim(c, b)
        \/ \E c \in Controller :
              \/ CronTicks(c) \/ ReclaimEnds(c) \/ TakeLock(c) \/ Release(c)
              \/ TickFails(c) \/ TickDies(c)
              \/ \E s \in Work : Count(c, s)
              \/ \E s : ReadState(c, s)
        \/ \E c \in Controller : Act(c)
        \/ LockLapses
        \/ Runs \/ TakesUnheard \/ ClaimRefused \/ ReportLost
    <3>1. CASE Goes
      BY <3>1 DEF Goes, Wakes, Controls, Reclaims
    <3>2. CASE GoesWrong
      BY <3>2 DEF GoesWrong
    <3> QED  BY <1>3, <3>1, <3>2
  <2> QED  BY <2>1, <2>2, <2>3, <2>4, <2>5, <2>6, <2>7, <2>8, <2>9
<1>4. CASE MachineNext
  <2>1. mishaps' \in 0 .. MaxMishaps
    BY <1>4, MachineAssumption DEF MachineNext, MachineInv
  <2>2. Goes \/ GoesWrong
    BY <1>4 DEF MachineNext
  <2> QED  BY <1>1, <1>3, <2>1, <2>2
<1> QED  BY <1>2, <1>4

(* Every reachable state of the machine and its ticks has its types: a job   *)
(* is claimed at most as often as it may be, however reports, heartbeats and *)
(* answers are lost, and what builds it is a process on a running machine.   *)
THEOREM MachineTypeCorrect == MachineSpec => []MachineTypeOK
BY MachineInvInit, MachineInvStep, MachineInvTypes, PTL DEF MachineSpec

(* The three components of the run keep their types, whichever moves.        *)
THEOREM RemoteBuildTypeCorrect == RemoteBuildSpec => []RemoteBuildTypeOK
<1> DEFINE Inv == BuildsTypeOK /\ JobInv /\ MachineInv
           Next == BuildsMove \/ JobMoves \/ MachineMoves
           vars == <<part, buildVars, jobVars, machineVars>>
<1>1. RemoteBuildInit => Inv
  BY TypeInit, JobInvInit, MachineInvInit DEF RemoteBuildInit
<1>2. Inv /\ [Next]_vars => Inv'
  <2> SUFFICES ASSUME Inv, [Next]_vars PROVE Inv'
    OBVIOUS
  <2>1. [BuildsNext]_buildVars /\ [JobNext]_jobVars /\ [MachineNext]_machineVars
    BY DEF BuildsMove, JobMoves, MachineMoves
  <2> QED  BY <2>1, TypeStep, JobInvStep, MachineInvStep
<1>3. Inv => RemoteBuildTypeOK
  BY MachineInvTypes DEF JobInv, RemoteBuildTypeOK
<1> QED  BY <1>1, <1>2, <1>3, PTL DEF RemoteBuildSpec
=============================================================================
