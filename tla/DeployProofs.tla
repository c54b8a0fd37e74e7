----------------------------- MODULE DeployProofs -----------------------------
(***************************************************************************)
(* Theorems about modules Deploy and DeployProps, for every set of         *)
(* handlers, every set of keys and every version bound.                    *)
(***************************************************************************)
EXTENDS DeployProps, FiniteSetTheorems, TLAPS

-----------------------------------------------------------------------------
(* The greatest element of a finite set of numbers. *)

LessOnNat == {ss \in Nat \X Nat : ss[1] < ss[2]}

(* The order on the natural numbers is well-founded. *)
LEMMA LessWellFounded == IsWellFoundedOn(LessOnNat, Nat)
<1>1. OpToRel(<, Nat) = LessOnNat
  BY DEF OpToRel, LessOnNat
<1> QED  BY <1>1, NatLessThanWellFounded

(* Max is what its name says on the non-empty subsets of an interval. *)
LEMMA MaxOfInterval ==
  ASSUME NEW N \in Nat, NEW T \in SUBSET (0 .. N), T # {}
  PROVE  Max(T) \in T /\ \A y \in T : y <= Max(T)
<1> DEFINE D == {N - x : x \in T}
<1>0. \A x \in T : x \in Int /\ N - x \in Nat
  OBVIOUS
<1>1. D \subseteq Nat /\ D # {}
  BY <1>0
<1>2. PICK d \in D : \A e \in D : ~(<<e, d>> \in LessOnNat)
  <2> HIDE DEF D
  <2> QED  BY <1>1, LessWellFounded, WFMin
<1>3. \A e \in D : d <= e
  <2> HIDE DEF D
  <2> TAKE e \in D
  <2>1. e \in Nat /\ d \in Nat
    BY <1>1
  <2>2. e < d => <<e, d>> \in LessOnNat
    BY <2>1 DEF LessOnNat
  <2> QED  BY <1>2, <2>1, <2>2
<1>4. PICK m \in T : d = N - m
  BY <1>2
<1>5. \A y \in T : m >= y
  <2> TAKE y \in T
  <2>1. N - y \in D
    OBVIOUS
  <2>2. N - m <= N - y
    BY <2>1, <1>3, <1>4
  <2> QED  BY <2>2, <1>0
<1> QED  BY <1>0, <1>5 DEF Max

(* Latest, the coalesced max(version), is zero or the version of a row. *)
LEMMA LatestIsLast ==
  /\ Latest \in 0 .. MaxVersion
  /\ Latest \in Rows \cup {NoVersion}
  /\ \A v \in Rows : v <= Latest
<1>1. Rows \cup {NoVersion} \in SUBSET (0 .. MaxVersion)
  BY BoundAssumption DEF Rows, Version, NoVersion
<1> QED
  BY <1>1, MaxOfInterval, BoundAssumption DEF Latest

-----------------------------------------------------------------------------
(* Type correctness.  TypeOK alone is not inductive: the owner of a row is *)
(* a key only because a handler at its INSERT holds a deploy's lock name,  *)
(* and a handler that writes a row has a version.                          *)

DeploySteps == PrepareSteps \cup {"c_acquire"}
                   \cup (CommitSteps \ {"assert", "find", "apply", "publish"})
RowSteps == {"insert", "tree", "manifest", "newer", "assert", "fence", "find",
             "apply", "publish", "complete", "r_acquire", "r_manifest"}

Named ==
    \A p \in Proc :
        /\ pc[p] # "idle" => hold[p] \in Holder
        /\ pc[p] \in DeploySteps => hold[p].op = "deploy"
        /\ pc[p] \in {"r_acquire", "r_manifest"} => hold[p].op = "rollback"
        /\ pc[p] \in RowSteps => ver[p] \in Version

Typed == TypeOK /\ Named

(* What a lock holder may be. *)
LEMMA HolderFacts ==
  /\ \A k \in Key : Deploying(k) \in Holder /\ Deploying(k).op = "deploy"
                    /\ Deploying(k).of = k
  /\ \A v \in Version : RollingBack(v) \in Holder /\ RollingBack(v).op = "rollback"
  /\ DeletedFence \in Holder /\ DeletedFence.op = "deleted"
  /\ \A h \in Holder : h.op = "deploy" => h.of \in Key
  /\ Free \notin Holder
BY DEF Deploying, RollingBack, DeletedFence, Holder, Free

(* The initial states are typed. *)
LEMMA TypedInit == Init => Typed
BY BoundAssumption, KeyAssumption
   DEF Init, Typed, TypeOK, Named, Version, NoVersion, NoToken, RowStatus,
       Step, DeploySteps, RowSteps, PrepareSteps, CommitSteps

(* A step of a running handler keeps the state typed. *)
LEMMA TypedRun ==
  ASSUME Typed, NEW p \in Proc, Run(p)
  PROVE  Typed'
<1> USE DEF Typed, TypeOK, Named, Goto, NoVersion, NoToken, RowStatus, Step, Locked, CommitSteps, RollbackSteps, PrepareSteps, DeploySteps, RowSteps, vars, depVars, keyVars, redisVars, locals
<1>1. CASE PrepareBase(p)
  BY <1>1, HolderFacts, LatestIsLast, BoundAssumption DEF PrepareBase, Version
<1>2. CASE PrepareReserve(p)
  BY <1>2, HolderFacts DEF PrepareReserve
<1>3. CASE PrepareSeenBefore(p)
  BY <1>3, HolderFacts DEF PrepareSeenBefore
<1>4. CASE PrepareAlreadyCompleted(p)
  BY <1>4, HolderFacts DEF PrepareAlreadyCompleted, Return, End
<1>5. CASE PrepareLookup(p)
  <2>1. CASE token[hold[p].of] # NoToken /\ Return(p)
    BY <1>5, <2>1 DEF PrepareLookup, Return, End
  <2>2. CASE Goto(p, "p_lock") /\ UNCHANGED <<locals, late>>
    BY <1>5, <2>2 DEF PrepareLookup
  <2> QED  BY <1>5, <2>1, <2>2 DEF PrepareLookup
<1>6. CASE PrepareLock(p)
  BY <1>6, HolderFacts DEF PrepareLock, CanTake, Taken
<1>7. CASE PrepareRefused(p)
  BY <1>7, HolderFacts DEF PrepareRefused, CanTake, Return, End
<1>8. CASE PrepareToken(p)
  BY <1>8, HolderFacts DEF PrepareToken, Return, End
<1>9. CASE PrepareTokenError(p)
  <2>1. CASE Goto(p, "p_fail") /\ UNCHANGED <<locals, late>>
    BY <1>9, <2>1 DEF PrepareTokenError, Released
  <2>2. CASE Return(p)
    BY <1>9, <2>2 DEF PrepareTokenError, Released, Return, End
  <2> QED  BY <1>9, <2>1, <2>2 DEF PrepareTokenError
<1>10. CASE PrepareFailKey(p)
  BY <1>10, HolderFacts DEF PrepareFailKey, Return, End
<1>11. CASE CommitAcquire(p)
  <2>1. CASE Goto(p, "stale") /\ UNCHANGED <<locals, late>>
    BY <1>11, <2>1, HolderFacts DEF CommitAcquire, Enter, CanTake, Taken
  <2>2. CASE UNCHANGED lock /\ Return(p)
    BY <1>11, <2>2 DEF CommitAcquire, Enter, Return, End
  <2> QED  BY <1>11, <2>1, <2>2 DEF CommitAcquire, Enter
<1>12. CASE CommitCheckBase(p)
  BY <1>12, HolderFacts DEF CommitCheckBase
<1>13. CASE CommitVersion(p)
  <2>1. CASE Latest < MaxVersion
    <3>1. Latest + 1 \in Version
      BY <2>1, LatestIsLast, BoundAssumption DEF Version
    <3> QED  BY <1>13, <2>1, <3>1 DEF CommitVersion
  <2>2. CASE ~(Latest < MaxVersion)
    BY <1>13, <2>2 DEF CommitVersion
  <2> QED  BY <2>1, <2>2
<1>14. CASE CommitInsert(p)
  BY <1>14, HolderFacts DEF CommitInsert, KeyNamedBy
<1>15. CASE CommitTree(p)
  BY <1>15, HolderFacts DEF CommitTree
<1>16. CASE CommitManifest(p)
  BY <1>16, HolderFacts DEF CommitManifest, PersistManifest
<1>17. CASE CommitNewer(p)
  BY <1>17, HolderFacts DEF CommitNewer, YieldToNewer
<1>18. CASE ReadFence(p)
  BY <1>18, HolderFacts DEF ReadFence
<1>19. CASE CommitComplete(p)
  BY <1>19, HolderFacts DEF CommitComplete
<1>20. CASE CommitConsume(p)
  BY <1>20, HolderFacts DEF CommitConsume
<1>21. CASE AssertHeld(p)
  BY <1>21, HolderFacts DEF AssertHeld, AfterAssert
<1>22. CASE FindActive(p)
  BY <1>22, HolderFacts DEF FindActive
<1>23. CASE Activate(p)
  BY <1>23, HolderFacts DEF Activate, StatusAfter, Demoted, IndexAllows
<1>24. CASE Publish(p)
  BY <1>24, HolderFacts DEF Publish, Pointed
<1>25. CASE Release(p)
  BY <1>25, HolderFacts DEF Release, Released, LeaveLock, End
<1>26. CASE RollbackAcquire(p)
  <2>1. CASE Goto(p, "r_manifest") /\ UNCHANGED <<locals, late>>
    BY <1>26, <2>1, HolderFacts DEF RollbackAcquire, Enter, CanTake, Taken
  <2>2. CASE UNCHANGED lock /\ Return(p)
    BY <1>26, <2>2 DEF RollbackAcquire, Enter, Return, End
  <2> QED  BY <1>26, <2>1, <2>2 DEF RollbackAcquire, Enter
<1>27. CASE RollbackManifest(p)
  BY <1>27, HolderFacts DEF RollbackManifest, PersistManifest
<1>28. CASE DeleteMark(p)
  BY <1>28, HolderFacts DEF DeleteMark
<1>29. CASE DeleteFence(p)
  BY <1>29, HolderFacts DEF DeleteFence, CanTake, Taken
<1>30. CASE DeleteClear(p)
  BY <1>30, HolderFacts DEF DeleteClear, Return, End
<1>31. CASE Throw(p)
  BY <1>31, HolderFacts DEF Throw
<1>32. CASE Crash(p)
  <2>1. CASE LeaveLock(p)
    BY <1>32, <2>1 DEF Crash, LeaveLock, End
  <2>2. CASE Return(p)
    BY <1>32, <2>2 DEF Crash, Return, End
  <2> QED  BY <1>32, <2>1, <2>2 DEF Crash
<1> QED
  BY <1>1, <1>2, <1>3, <1>4, <1>5, <1>6, <1>7, <1>8, <1>9, <1>10, <1>11, <1>12, <1>13, <1>14, <1>15, <1>16, <1>17, <1>18, <1>19, <1>20, <1>21, <1>22, <1>23, <1>24, <1>25, <1>26, <1>27, <1>28, <1>29, <1>30, <1>31, <1>32
     DEF Run, Prepare, Commit, Shared, Rollback, Delete

(* A step of the environment keeps the state typed: requests arrive,       *)
(* heartbeats land and keys expire.                                        *)
LEMMA TypedOther ==
  ASSUME Typed,
         \/ \E p \in Proc : Arrive(p) \/ Beat(p)
         \/ \E h \in late : LateBeat(h)
         \/ LockExpires
         \/ \E k \in Key : TokenExpires(k)
         \/ PointerExpires
         \/ UNCHANGED vars
  PROVE  Typed'
<1> USE DEF Typed, TypeOK, Named, Goto, NoVersion, NoToken, RowStatus, Step, Locked, CommitSteps, RollbackSteps, PrepareSteps, DeploySteps, RowSteps, vars, depVars, keyVars, redisVars, locals
<1>1. ASSUME NEW p \in Proc, NEW k \in Key, PrepareStart(p, k)
      PROVE  Typed'
  BY <1>1, HolderFacts DEF PrepareStart, Begin
<1>2. ASSUME NEW p \in Proc, NEW k \in Key, CommitLoad(p, k)
      PROVE  Typed'
  BY <1>2, HolderFacts DEF CommitLoad
<1>3. ASSUME NEW p \in Proc, NEW v \in Version, RollbackStart(p, v)
      PROVE  Typed'
  BY <1>3, HolderFacts DEF RollbackStart
<1>4. ASSUME NEW p \in Proc, DeleteStart(p)
      PROVE  Typed'
  BY <1>4, HolderFacts DEF DeleteStart, Begin
<1>5. ASSUME NEW p \in Proc, Beat(p)
      PROVE  Typed'
  BY <1>5, HolderFacts DEF Beat, CanTake, Taken
<1>6. ASSUME NEW h \in late, LateBeat(h)
      PROVE  Typed'
  BY <1>6, HolderFacts DEF LateBeat, CanTake, Taken
<1>7. CASE LockExpires
  BY <1>7 DEF LockExpires
<1>8. ASSUME NEW k \in Key, TokenExpires(k)
      PROVE  Typed'
  BY <1>8 DEF TokenExpires
<1>9. CASE PointerExpires
  BY <1>9 DEF PointerExpires
<1>10. CASE UNCHANGED vars
  BY <1>10
<1> QED
  BY <1>1, <1>2, <1>3, <1>4, <1>5, <1>6, <1>7, <1>8, <1>9, <1>10 DEF Arrive

(* Every step of Next, and a stuttering one, keeps the state typed. *)
LEMMA TypedStep == Typed /\ [Next]_vars => Typed'
BY TypedRun, TypedOther DEF Next

(* Every reachable state of Deploy has the types that TypeOK names. *)
THEOREM TypeCorrect == Spec => []TypeOK
<1>1. Spec => []Typed
  BY TypedInit, TypedStep, PTL DEF Spec
<1>2. Typed => TypeOK
  BY DEF Typed
<1> QED  BY <1>1, <1>2, PTL

-----------------------------------------------------------------------------
(* Safety that holds without a working lock.  What a handler has done so   *)
(* far stays done: trees, manifests and owners of rows are never taken     *)
(* back, and a handler publishes or completes only after its activation    *)
(* has committed, which the history wentLive records.                      *)

Progress(p) ==
    /\ pc[p] \in {"manifest", "newer", "assert", "fence", "find", "apply",
                  "r_acquire", "r_manifest"} => ver[p] \in treed
    /\ pc[p] \in {"newer", "assert", "fence", "find", "apply"} =>
           ver[p] \in manifests
    /\ pc[p] \in {"publish", "complete"} => ver[p] \in wentLive
    /\ pc[p] \in Writing /\ hold[p].op = "deploy" =>
           ver[p] \in Rows /\ (~AnyKey => owner[ver[p]] = hold[p].of)

AtMostOne == \A u, v \in active : u = v

Safe ==
    /\ \A p \in Proc : Progress(p)
    /\ AtMostOne
    /\ wentLive \subseteq Rows
    /\ ActiveReady
    /\ OneWriterPerRow
    /\ CompletedWasDeployed
    /\ PointerFollowsCommit

(* The initial states are safe: no handler has done anything yet. *)
LEMMA SafeInit == Init => Safe
BY DEF Init, Safe, Progress, AtMostOne, ActiveReady, OneWriterPerRow,
       CompletedWasDeployed, PointerFollowsCommit, Writing

(* A handler that ends leaves a safe state safe. *)
LEMMA EndSafe ==
  ASSUME Safe, NEW p \in Proc, pc \in [Proc -> Step], End(p),
         UNCHANGED <<depVars, keyVars, pointer>>
  PROVE  Safe'
BY DEF Safe, Progress, Rows, AtMostOne, ActiveReady, OneWriterPerRow, CompletedWasDeployed, PointerFollowsCommit, Writing, Goto, NoVersion, NoToken, RowStatus, Step, Locked, CommitSteps, RollbackSteps, PrepareSteps, DeploySteps, RowSteps, vars, depVars, keyVars, redisVars, locals, End

(* A step of a running handler keeps the state safe. *)
LEMMA SafeRun ==
  ASSUME Typed, Typed', Safe, NEW p \in Proc, Run(p)
  PROVE  Safe'
<1> USE DEF Typed, TypeOK, Named, Safe, Progress, Rows, AtMostOne, ActiveReady, OneWriterPerRow, CompletedWasDeployed, PointerFollowsCommit, Writing, Goto, NoVersion, NoToken, RowStatus, Step, Locked, CommitSteps, RollbackSteps, PrepareSteps, DeploySteps, RowSteps, vars, depVars, keyVars, redisVars, locals
<1>1. CASE PrepareBase(p)
  BY <1>1, HolderFacts DEF PrepareBase
<1>2. CASE PrepareReserve(p)
  BY <1>2, HolderFacts DEF PrepareReserve
<1>3. CASE PrepareSeenBefore(p)
  BY <1>3, HolderFacts DEF PrepareSeenBefore
<1>4. CASE PrepareAlreadyCompleted(p)
  BY <1>4, HolderFacts DEF PrepareAlreadyCompleted, Return, End
<1>5. CASE PrepareLookup(p)
  BY <1>5, HolderFacts DEF PrepareLookup, Return, End
<1>6. CASE PrepareLock(p)
  BY <1>6, HolderFacts DEF PrepareLock
<1>7. CASE PrepareRefused(p)
  BY <1>7, HolderFacts DEF PrepareRefused, Return, End
<1>8. CASE PrepareToken(p)
  BY <1>8, HolderFacts DEF PrepareToken, Return, End
<1>9. CASE PrepareTokenError(p)
  BY <1>9, HolderFacts DEF PrepareTokenError, Return, End
<1>10. CASE PrepareFailKey(p)
  BY <1>10, HolderFacts DEF PrepareFailKey, Return, End
<1>11. CASE CommitAcquire(p)
  <2>1. CASE Return(p)
    BY <1>11, <2>1 DEF CommitAcquire, Enter, Return, End
  <2>2. CASE Goto(p, "stale") /\ UNCHANGED <<locals, late>>
    BY <1>11, <2>2 DEF CommitAcquire, Enter
  <2> QED  BY <1>11, <2>1, <2>2 DEF CommitAcquire, Enter
<1>12. CASE CommitCheckBase(p)
  BY <1>12, HolderFacts DEF CommitCheckBase
<1>13. CASE CommitVersion(p)
  <2>1. pc'[p] \in {"insert", "release"} /\ \A q \in Proc \ {p} : pc'[q] = pc[q] /\ ver'[q] = ver[q]
    BY <1>13 DEF CommitVersion
  <2>2. UNCHANGED <<depVars, keyVars, page, redisVars, hold>>
    BY <1>13 DEF CommitVersion
  <2> QED  BY <2>1, <2>2
<1>14. CASE CommitInsert(p)
  BY <1>14, HolderFacts DEF CommitInsert, RowFree, KeyNamedBy
<1>15. CASE CommitTree(p)
  BY <1>15, HolderFacts DEF CommitTree
<1>16. CASE CommitManifest(p)
  BY <1>16, HolderFacts DEF CommitManifest, PersistManifest
<1>17. CASE CommitNewer(p)
  BY <1>17, HolderFacts DEF CommitNewer, YieldToNewer
<1>18. CASE ReadFence(p)
  BY <1>18, HolderFacts DEF ReadFence
<1>19. CASE CommitComplete(p)
  <2> DEFINE named == owner[ver[p]]
  <2>1. ver[p] \in wentLive
    BY <1>19 DEF CommitComplete
  <2>2. ASSUME NEW k \in Key, idem'[k] = "completed"
        PROVE  \/ k = named /\ result'[k] = ver[p]
               \/ idem[k] = "completed" /\ result'[k] = result[k]
    BY <1>19, <2>2 DEF CommitComplete
  <2>3. UNCHANGED <<depVars, pointer, hold, ver>>
        /\ pc' = [pc EXCEPT ![p] = "consume"]
    BY <1>19 DEF CommitComplete
  <2>4. CompletedWasDeployed'
    BY <2>1, <2>2, <2>3
  <2> HIDE DEF named
  <2> QED  BY <2>3, <2>4
<1>20. CASE CommitConsume(p)
  BY <1>20, HolderFacts DEF CommitConsume
<1>21. CASE AssertHeld(p)
  BY <1>21, HolderFacts DEF AssertHeld, AfterAssert
<1>22. CASE FindActive(p)
  BY <1>22, HolderFacts DEF FindActive
<1>23. CASE Activate(p)
  BY <1>23, HolderFacts DEF Activate, StatusAfter, Demoted, IndexAllows
<1>24. CASE Publish(p)
  BY <1>24, HolderFacts DEF Publish, Pointed
<1>25. CASE Release(p)
  BY <1>25, EndSafe DEF Release, LeaveLock
<1>26. CASE RollbackAcquire(p)
  <2>1. CASE Return(p)
    BY <1>26, <2>1, EndSafe DEF RollbackAcquire, Enter, Return
  <2>2. CASE Goto(p, "r_manifest") /\ UNCHANGED <<locals, late>>
    BY <1>26, <2>2 DEF RollbackAcquire, Enter
  <2> QED  BY <1>26, <2>1, <2>2 DEF RollbackAcquire, Enter
<1>27. CASE RollbackManifest(p)
  BY <1>27, HolderFacts DEF RollbackManifest, PersistManifest
<1>28. CASE DeleteMark(p)
  BY <1>28, HolderFacts DEF DeleteMark
<1>29. CASE DeleteFence(p)
  BY <1>29, HolderFacts DEF DeleteFence
<1>30. CASE DeleteClear(p)
  BY <1>30, HolderFacts DEF DeleteClear, Return, End
<1>31. CASE Throw(p)
  BY <1>31, HolderFacts DEF Throw
<1>32. CASE Crash(p)
  BY <1>32, EndSafe DEF Crash, LeaveLock, Return
<1> QED
  BY <1>1, <1>2, <1>3, <1>4, <1>5, <1>6, <1>7, <1>8, <1>9, <1>10, <1>11, <1>12, <1>13, <1>14, <1>15, <1>16, <1>17, <1>18, <1>19, <1>20, <1>21, <1>22, <1>23, <1>24, <1>25, <1>26, <1>27, <1>28, <1>29, <1>30, <1>31, <1>32
     DEF Run, Prepare, Commit, Shared, Rollback, Delete

(* A step of the environment keeps the state safe. *)
LEMMA SafeOther ==
  ASSUME Typed, Typed', Safe,
         \/ \E p \in Proc : Arrive(p) \/ Beat(p)
         \/ \E h \in late : LateBeat(h)
         \/ LockExpires
         \/ \E k \in Key : TokenExpires(k)
         \/ PointerExpires
         \/ UNCHANGED vars
  PROVE  Safe'
<1> USE DEF Typed, TypeOK, Named, Safe, Progress, Rows, AtMostOne, ActiveReady, OneWriterPerRow, CompletedWasDeployed, PointerFollowsCommit, Writing, Goto, NoVersion, NoToken, Locked, CommitSteps, RollbackSteps, PrepareSteps, vars, depVars, keyVars, redisVars, locals
<1>1. ASSUME NEW p \in Proc, NEW k \in Key, PrepareStart(p, k)
      PROVE  Safe'
  BY <1>1, HolderFacts DEF PrepareStart, Begin
<1>2. ASSUME NEW p \in Proc, NEW k \in Key, CommitLoad(p, k)
      PROVE  Safe'
  BY <1>2, HolderFacts DEF CommitLoad
<1>3. ASSUME NEW p \in Proc, NEW v \in Version, RollbackStart(p, v)
      PROVE  Safe'
  BY <1>3, HolderFacts DEF RollbackStart, HasTree
<1>4. ASSUME NEW p \in Proc, DeleteStart(p)
      PROVE  Safe'
  BY <1>4, HolderFacts DEF DeleteStart, Begin
<1>5. ASSUME NEW p \in Proc, Beat(p)
      PROVE  Safe'
  BY <1>5, HolderFacts DEF Beat
<1>6. ASSUME NEW h \in late, LateBeat(h)
      PROVE  Safe'
  BY <1>6, HolderFacts DEF LateBeat
<1>7. CASE LockExpires
  BY <1>7, HolderFacts DEF LockExpires
<1>8. ASSUME NEW k \in Key, TokenExpires(k)
      PROVE  Safe'
  BY <1>8, HolderFacts DEF TokenExpires
<1>9. CASE PointerExpires
  BY <1>9, HolderFacts DEF PointerExpires
<1>10. CASE UNCHANGED vars
  BY <1>10, HolderFacts
<1> QED
  BY <1>1, <1>2, <1>3, <1>4, <1>5, <1>6, <1>7, <1>8, <1>9, <1>10 DEF Arrive

(* Every step keeps the state safe: Safe is inductive together with Typed. *)
LEMMA SafeStep == Typed /\ Safe /\ [Next]_vars => Safe'
BY TypedStep, SafeRun, SafeOther DEF Next

(* Every reachable state is safe, whether or not the lock excludes anyone  *)
(* (Lapse) and however many requests of one token run at once (Dup).       *)
LEMMA SafeAlways == Spec => [](Typed /\ Safe)
<1>1. Init => Typed /\ Safe
  BY TypedInit, SafeInit
<1>2. Typed /\ Safe /\ [Next]_vars => (Typed /\ Safe)'
  BY TypedStep, SafeStep
<1> QED  BY <1>1, <1>2, PTL DEF Spec

(* Any two active rows being equal, there is at most one of them. *)
LEMMA AtMostOneCounts == AtMostOne => OneActive
<1> SUFFICES ASSUME AtMostOne PROVE OneActive
  OBVIOUS
<1>1. CASE active = {}
  BY <1>1, FS_EmptySet DEF OneActive
<1>2. CASE active # {}
  <2>1. PICK v : active = {v}
    BY <1>2 DEF AtMostOne
  <2>2. Cardinality(active) = 1
    BY <2>1, FS_Singleton, Zenon
  <2> QED  BY <2>2 DEF OneActive
<1> QED  BY <1>1, <1>2

(* At most one deployment of the page is active. *)
THEOREM OneActiveHolds == Spec => []OneActive
<1>1. Typed /\ Safe => OneActive
  BY AtMostOneCounts DEF Safe
<1> QED  BY <1>1, SafeAlways, PTL

(* The active deployment has its tree and its manifest. *)
THEOREM ActiveReadyHolds == Spec => []ActiveReady
<1>1. Typed /\ Safe => ActiveReady
  BY DEF Safe
<1> QED  BY <1>1, SafeAlways, PTL

(* No two requests write the same deployment row. *)
THEOREM OneWriterPerRowHolds == Spec => []OneWriterPerRow
<1>1. Typed /\ Safe => OneWriterPerRow
  BY DEF Safe
<1> QED  BY <1>1, SafeAlways, PTL

(* A completed key names a deployment whose commit named that key and whose
   activation has committed. *)
THEOREM CompletedWasDeployedHolds == Spec => []CompletedWasDeployed
<1>1. Typed /\ Safe => CompletedWasDeployed
  BY DEF Safe
<1> QED  BY <1>1, SafeAlways, PTL

(* The Redis pointer names a deployment whose activation has committed. *)
THEOREM PointerFollowsCommitHolds == Spec => []PointerFollowsCommit
<1>1. Typed /\ Safe => PointerFollowsCommit
  BY DEF Safe
<1> QED  BY <1>1, SafeAlways, PTL

-----------------------------------------------------------------------------
(* Refinement.  A manifest that is stored is a Finalize, an activation     *)
(* transaction that commits is a GoLive, and every other step, failures    *)
(* and crashes included, leaves both sets alone.                           *)

(* Each step of Deploy is a step of PageLive or changes neither of its sets. *)
LEMMA PageLiveStep ==
  ASSUME Typed, Safe, [Next]_vars
  PROVE  [Promise!Next]_(Promise!vars)
<1> DEFINE Stutter == UNCHANGED <<manifests, active>>
<1> USE DEF vars, depVars, keyVars, redisVars, locals
<1>1. ASSUME NEW p \in Proc, Activate(p)
      PROVE  Promise!Next \/ Stutter
  <2>1. ver[p] \in Version /\ ver[p] \in manifests
    BY <1>1 DEF Activate, Typed, Named, RowSteps, Safe, Progress
  <2>2. CASE IndexAllows(p)
    <3>1. active' = {ver[p]} /\ UNCHANGED manifests
      BY <1>1, <2>2 DEF Activate, IndexAllows
    <3>2. Promise!GoLive(ver[p])
      BY <2>1, <3>1 DEF Promise!GoLive
    <3> QED  BY <2>1, <3>2 DEF Promise!Next
  <2>3. CASE ~IndexAllows(p)
    BY <1>1, <2>3 DEF Activate
  <2> QED  BY <2>2, <2>3
<1>2. ASSUME NEW p \in Proc, CommitManifest(p) \/ RollbackManifest(p)
      PROVE  Promise!Next
  <2>1. ver[p] \in Version
    BY <1>2 DEF CommitManifest, RollbackManifest, PersistManifest, Typed, Named, RowSteps
  <2>2. Promise!Finalize(ver[p])
    BY <1>2 DEF CommitManifest, RollbackManifest, PersistManifest, Promise!Finalize
  <2> QED  BY <2>1, <2>2 DEF Promise!Next
<1>3. ASSUME NEW p \in Proc, Run(p), ~Activate(p), ~CommitManifest(p), ~RollbackManifest(p)
      PROVE  Stutter
  <2>1. CASE Prepare(p)
    BY <2>1 DEF Prepare, PrepareBase, PrepareReserve, PrepareSeenBefore,
       PrepareAlreadyCompleted, PrepareLookup, PrepareLock, PrepareRefused,
       PrepareToken, PrepareTokenError, PrepareFailKey
  <2>2. CASE Commit(p)
    BY <1>3, <2>2 DEF Commit, CommitAcquire, CommitCheckBase, CommitVersion,
       CommitInsert, CommitTree, CommitNewer, YieldToNewer, ReadFence, CommitComplete,
       CommitConsume, Enter
  <2>3. CASE Shared(p) \/ Rollback(p) \/ Delete(p) \/ Throw(p) \/ Crash(p)
    BY <1>3, <2>3 DEF Shared, Rollback, Delete, AssertHeld, FindActive, Publish,
       Release, RollbackAcquire, DeleteMark, DeleteFence, DeleteClear, Throw,
       Crash, Enter
  <2> QED  BY <1>3, <2>1, <2>2, <2>3 DEF Run
<1>4. ASSUME \/ \E p \in Proc : Arrive(p) \/ Beat(p)
             \/ \E h \in late : LateBeat(h)
             \/ LockExpires
             \/ \E k \in Key : TokenExpires(k)
             \/ PointerExpires
             \/ UNCHANGED vars
      PROVE  Stutter
  BY <1>4 DEF Arrive, PrepareStart, CommitLoad, RollbackStart, DeleteStart,
     Beat, LateBeat, LockExpires, TokenExpires, PointerExpires
<1> QED  BY <1>1, <1>2, <1>3, <1>4 DEF Next, Promise!vars

(* The page goes from one ready deployment to the next in one step. *)
THEOREM PageLiveRefined == Spec => ImplementsPageLive
<1>1. Init => Promise!Init
  BY DEF Init, Promise!Init
<1> QED
  BY <1>1, SafeAlways, PageLiveStep, PTL DEF Spec, ImplementsPageLive, Promise!Spec

-----------------------------------------------------------------------------
(* Mutual exclusion, when the lock outlives its holder's work and no two   *)
(* running requests share a holder name.                                   *)

Exclusive ==
    /\ \A p, q \in Proc : hold[p] = hold[q] /\ hold[p] # Free => p = q
    /\ \A p \in Proc : pc[p] \in Locked => lock = hold[p]

(* At first no handler runs, so none is inside withLock. *)
LEMMA ExclusiveInit == Init => Exclusive
BY DEF Init, Exclusive, Locked, CommitSteps, RollbackSteps

(* The body of withLock runs alone because its lock carries its name. *)
LEMMA ExclusiveAlone == Typed /\ Exclusive => LockedAlone
BY HolderFacts DEF Typed, Named, Exclusive, LockedAlone, Locked, CommitSteps, RollbackSteps

(* A step of a running handler keeps the lock in the name of whoever is
   inside withLock. *)
LEMMA ExclusiveRun ==
  ASSUME Typed, Exclusive, Lapse = FALSE, Dup = FALSE, NEW p \in Proc, Run(p)
  PROVE  Exclusive'
<1> USE DEF Typed, TypeOK, Named, Exclusive, Goto, Locked, CommitSteps, RollbackSteps, PrepareSteps, Step, CanTake, Taken, Released, vars, depVars, keyVars, redisVars, locals
<1>1. CASE PrepareBase(p)
  BY <1>1, HolderFacts DEF PrepareBase
<1>2. CASE PrepareReserve(p)
  BY <1>2, HolderFacts DEF PrepareReserve
<1>3. CASE PrepareSeenBefore(p)
  BY <1>3, HolderFacts DEF PrepareSeenBefore
<1>4. CASE PrepareAlreadyCompleted(p)
  BY <1>4, HolderFacts DEF PrepareAlreadyCompleted, Return, End
<1>5. CASE PrepareLookup(p)
  BY <1>5, HolderFacts DEF PrepareLookup, Return, End
<1>6. CASE PrepareLock(p)
  BY <1>6, HolderFacts DEF PrepareLock
<1>7. CASE PrepareRefused(p)
  BY <1>7, HolderFacts DEF PrepareRefused, Return, End
<1>8. CASE PrepareToken(p)
  BY <1>8, HolderFacts DEF PrepareToken, Return, End
<1>9. CASE PrepareTokenError(p)
  BY <1>9, HolderFacts DEF PrepareTokenError, Return, End
<1>10. CASE PrepareFailKey(p)
  BY <1>10, HolderFacts DEF PrepareFailKey, Return, End
<1>11. CASE CommitAcquire(p)
  BY <1>11, HolderFacts DEF CommitAcquire, Enter, Return, End
<1>12. CASE CommitCheckBase(p)
  BY <1>12, HolderFacts DEF CommitCheckBase
<1>13. CASE CommitVersion(p)
  BY <1>13, HolderFacts DEF CommitVersion
<1>14. CASE CommitInsert(p)
  BY <1>14, HolderFacts DEF CommitInsert, RowFree, KeyNamedBy
<1>15. CASE CommitTree(p)
  BY <1>15, HolderFacts DEF CommitTree
<1>16. CASE CommitManifest(p)
  BY <1>16, HolderFacts DEF CommitManifest, PersistManifest
<1>17. CASE CommitNewer(p)
  BY <1>17, HolderFacts DEF CommitNewer, YieldToNewer
<1>18. CASE ReadFence(p)
  BY <1>18, HolderFacts DEF ReadFence
<1>19. CASE CommitComplete(p)
  BY <1>19, HolderFacts DEF CommitComplete
<1>20. CASE CommitConsume(p)
  BY <1>20, HolderFacts DEF CommitConsume
<1>21. CASE AssertHeld(p)
  BY <1>21, HolderFacts DEF AssertHeld, AfterAssert
<1>22. CASE FindActive(p)
  BY <1>22, HolderFacts DEF FindActive
<1>23. CASE Activate(p)
  BY <1>23, HolderFacts DEF Activate
<1>24. CASE Publish(p)
  BY <1>24, HolderFacts DEF Publish, Pointed
<1>25. CASE Release(p)
  BY <1>25, HolderFacts DEF Release, LeaveLock, End
<1>26. CASE RollbackAcquire(p)
  BY <1>26, HolderFacts DEF RollbackAcquire, Enter, Return, End
<1>27. CASE RollbackManifest(p)
  BY <1>27, HolderFacts DEF RollbackManifest, PersistManifest
<1>28. CASE DeleteMark(p)
  BY <1>28, HolderFacts DEF DeleteMark
<1>29. CASE DeleteFence(p)
  BY <1>29, HolderFacts DEF DeleteFence
<1>30. CASE DeleteClear(p)
  BY <1>30, HolderFacts DEF DeleteClear, Return, End
<1>31. CASE Throw(p)
  BY <1>31, HolderFacts DEF Throw
<1>32. CASE Crash(p)
  BY <1>32, HolderFacts DEF Crash, LeaveLock, Return, End
<1> QED
  BY <1>1, <1>2, <1>3, <1>4, <1>5, <1>6, <1>7, <1>8, <1>9, <1>10, <1>11, <1>12, <1>13, <1>14, <1>15, <1>16, <1>17, <1>18, <1>19, <1>20, <1>21, <1>22, <1>23, <1>24, <1>25, <1>26, <1>27, <1>28, <1>29, <1>30, <1>31, <1>32
     DEF Run, Prepare, Commit, Shared, Rollback, Delete

(* So does a step of the environment: a lock expires only when its holder
   has left withLock, and a late heartbeat finds the lock free or its own. *)
LEMMA ExclusiveOther ==
  ASSUME Typed, Exclusive, Lapse = FALSE, Dup = FALSE,
         \/ \E p \in Proc : Arrive(p) \/ Beat(p)
         \/ \E h \in late : LateBeat(h)
         \/ LockExpires
         \/ \E k \in Key : TokenExpires(k)
         \/ PointerExpires
         \/ UNCHANGED vars
  PROVE  Exclusive'
<1> USE DEF Typed, TypeOK, Named, Exclusive, Goto, Locked, CommitSteps, RollbackSteps, PrepareSteps, Step, CanTake, Taken, Released, vars, depVars, keyVars, redisVars, locals
<1>1. ASSUME NEW p \in Proc, NEW k \in Key, PrepareStart(p, k)
      PROVE  Exclusive'
  BY <1>1, HolderFacts DEF PrepareStart, Begin
<1>2. ASSUME NEW p \in Proc, NEW k \in Key, CommitLoad(p, k)
      PROVE  Exclusive'
  BY <1>2, HolderFacts DEF CommitLoad
<1>3. ASSUME NEW p \in Proc, NEW v \in Version, RollbackStart(p, v)
      PROVE  Exclusive'
  BY <1>3, HolderFacts DEF RollbackStart, HasTree
<1>4. ASSUME NEW p \in Proc, DeleteStart(p)
      PROVE  Exclusive'
  BY <1>4, HolderFacts DEF DeleteStart, Begin
<1>5. ASSUME NEW p \in Proc, Beat(p)
      PROVE  Exclusive'
  BY <1>5, HolderFacts DEF Beat, CanTake, Taken
<1>6. ASSUME NEW h \in late, LateBeat(h)
      PROVE  Exclusive'
  BY <1>6, HolderFacts DEF LateBeat, CanTake, Taken
<1>7. CASE LockExpires
  BY <1>7, HolderFacts DEF LockExpires, MayExpire
<1>8. ASSUME NEW k \in Key, TokenExpires(k)
      PROVE  Exclusive'
  BY <1>8, HolderFacts DEF TokenExpires
<1>9. CASE PointerExpires
  BY <1>9, HolderFacts DEF PointerExpires
<1>10. CASE UNCHANGED vars
  BY <1>10, HolderFacts
<1> QED
  BY <1>1, <1>2, <1>3, <1>4, <1>5, <1>6, <1>7, <1>8, <1>9, <1>10 DEF Arrive

(* Nobody else is between the acquire and the release of withLock. *)
THEOREM LockedAloneHolds ==
  ASSUME Lapse = FALSE, Dup = FALSE
  PROVE  Spec => []LockedAlone
<1>1. Init => Typed /\ Exclusive
  BY TypedInit, ExclusiveInit
<1>2. Typed /\ Exclusive /\ [Next]_vars => (Typed /\ Exclusive)'
  BY TypedStep, ExclusiveRun, ExclusiveOther DEF Next
<1> QED  BY <1>1, <1>2, ExclusiveAlone, PTL DEF Spec

-----------------------------------------------------------------------------
(* What a working lock adds.  Between the SELECT and the UPDATEs of an     *)
(* activation nobody else moves the page; the row that a commit writes is  *)
(* not active before its own activation, so a late "superseded" never hits *)
(* the active row; and from CommitNewer on no row is newer than the        *)
(* handler's own.                                                          *)

Undisturbed(p) ==
    /\ pc[p] \in {"tree", "manifest", "newer"} => ver[p] \notin active
    /\ pc[p] \in {"assert", "fence", "find", "apply"} /\ hold[p].op = "deploy" =>
           \A v \in Rows : v <= ver[p]
    /\ pc[p] = "apply" => active = {cur[p]} \cap Version
    /\ pc[p] = "publish" => ver[p] \in active

Settled == StatusAgrees /\ \A p \in Proc : Undisturbed(p)

(* What all the parts say together. *)
LockedInv == Typed /\ Safe /\ Exclusive /\ Settled

(* At first there are no rows and no running handlers. *)
LEMMA SettledInit == Init => Settled
BY DEF Init, Settled, StatusAgrees, Undisturbed

(* A step of a running handler keeps the page settled. *)
LEMMA SettledRun ==
  ASSUME LockedInv, Typed', NEW p \in Proc, Run(p)
  PROVE  Settled'
<1> USE DEF LockedInv, Typed, TypeOK, Named, Settled, StatusAgrees, Undisturbed, Rows, Goto, NoVersion, NoToken, RowStatus, Step, Locked, CommitSteps, RollbackSteps, PrepareSteps, DeploySteps, RowSteps, vars, depVars, keyVars, redisVars, locals
<1>0. \A q \in Proc : pc[p] \in Locked /\ pc[q] \in Locked => p = q
  BY ExclusiveAlone DEF LockedAlone
<1>1. CASE PrepareBase(p)
  BY <1>1, <1>0 DEF PrepareBase
<1>2. CASE PrepareReserve(p)
  BY <1>2, <1>0 DEF PrepareReserve
<1>3. CASE PrepareSeenBefore(p)
  BY <1>3, <1>0 DEF PrepareSeenBefore
<1>4. CASE PrepareAlreadyCompleted(p)
  BY <1>4, <1>0 DEF PrepareAlreadyCompleted, Return, End
<1>5. CASE PrepareLookup(p)
  BY <1>5, <1>0 DEF PrepareLookup, Return, End
<1>6. CASE PrepareLock(p)
  BY <1>6, <1>0 DEF PrepareLock
<1>7. CASE PrepareRefused(p)
  BY <1>7, <1>0 DEF PrepareRefused, Return, End
<1>8. CASE PrepareToken(p)
  BY <1>8, <1>0 DEF PrepareToken, Return, End
<1>9. CASE PrepareTokenError(p)
  BY <1>9, <1>0 DEF PrepareTokenError, Return, End
<1>10. CASE PrepareFailKey(p)
  BY <1>10, <1>0 DEF PrepareFailKey, Return, End
<1>11. CASE CommitAcquire(p)
  BY <1>11, <1>0 DEF CommitAcquire, Enter, Return, End
<1>12. CASE CommitCheckBase(p)
  BY <1>12, <1>0 DEF CommitCheckBase, Stale
<1>13. CASE CommitVersion(p)
  BY <1>13, <1>0 DEF CommitVersion
<1>14. CASE CommitInsert(p)
  BY <1>14, <1>0 DEF CommitInsert, RowFree, KeyNamedBy
<1>15. CASE CommitTree(p)
  BY <1>15, <1>0 DEF CommitTree
<1>16. CASE CommitManifest(p)
  BY <1>16, <1>0 DEF CommitManifest, PersistManifest
<1>17. CASE CommitNewer(p)
  <2>1. CASE \E v \in Rows : v > ver[p]
    BY <1>17, <1>0, <2>1 DEF CommitNewer, YieldToNewer
  <2>2. CASE ~ \E v \in Rows : v > ver[p]
    BY <1>17, <1>0, <2>2, BoundAssumption DEF CommitNewer, YieldToNewer, Version
  <2> QED  BY <2>1, <2>2
<1>18. CASE ReadFence(p)
  BY <1>18, <1>0 DEF ReadFence
<1>19. CASE CommitComplete(p)
  BY <1>19, <1>0 DEF CommitComplete
<1>20. CASE CommitConsume(p)
  BY <1>20, <1>0 DEF CommitConsume
<1>21. CASE AssertHeld(p)
  BY <1>21, <1>0 DEF AssertHeld, AfterAssert
<1>22. CASE FindActive(p)
  <2>1. active = {cur'[p]} \cap Version
    <3>1. CASE active = {}
      BY <1>22, <3>1, BoundAssumption DEF FindActive, Version
    <3>2. CASE active # {}
      <4>1. PICK v \in active : cur' = [cur EXCEPT ![p] = v]
        BY <1>22, <3>2 DEF FindActive
      <4>2. active = {v} /\ v \in Version
        BY <4>1 DEF Safe, AtMostOne
      <4> QED  BY <4>1, <4>2
    <3> QED  BY <3>1, <3>2
  <2>2. /\ UNCHANGED <<depVars, hold, ver>>
        /\ pc' = [pc EXCEPT ![p] = "apply"]
        /\ \A q \in Proc \ {p} : cur'[q] = cur[q]
    BY <1>22 DEF FindActive
  <2>3. pc[p] = "find" /\ \A q \in Proc : pc'[q] = "apply" => q = p
    BY <1>22, <1>0 DEF FindActive
  <2> QED  BY <2>1, <2>2, <2>3
<1>23. CASE Activate(p)
  <2>1. ver[p] \in Version /\ ver'[p] = ver[p] /\ active = {cur[p]} \cap Version
    BY <1>23 DEF Activate
  <2>2. active' = {ver[p]} /\ status' = StatusAfter(p) /\ pc' = [pc EXCEPT ![p] = "publish"]
    BY <1>23, <2>1 DEF Activate, IndexAllows, Demoted
  <2>3. StatusAgrees'
    BY <2>1, <2>2 DEF StatusAfter, Demoted
  <2>4. \A q \in Proc : Undisturbed(q)'
    BY <1>23, <1>0, <2>1, <2>2 DEF Activate
  <2> QED  BY <2>3, <2>4
<1>24. CASE Publish(p)
  BY <1>24, <1>0 DEF Publish, Pointed
<1>25. CASE Release(p)
  BY <1>25, <1>0 DEF Release, LeaveLock, End
<1>26. CASE RollbackAcquire(p)
  BY <1>26, <1>0 DEF RollbackAcquire, Enter, Return, End
<1>27. CASE RollbackManifest(p)
  BY <1>27, <1>0 DEF RollbackManifest, PersistManifest
<1>28. CASE DeleteMark(p)
  BY <1>28, <1>0 DEF DeleteMark
<1>29. CASE DeleteFence(p)
  BY <1>29, <1>0 DEF DeleteFence
<1>30. CASE DeleteClear(p)
  BY <1>30, <1>0 DEF DeleteClear, Return, End
<1>31. CASE Throw(p)
  BY <1>31, <1>0 DEF Throw
<1>32. CASE Crash(p)
  BY <1>32, <1>0 DEF Crash, LeaveLock, Return, End
<1> QED
  BY <1>1, <1>2, <1>3, <1>4, <1>5, <1>6, <1>7, <1>8, <1>9, <1>10, <1>11, <1>12, <1>13, <1>14, <1>15, <1>16, <1>17, <1>18, <1>19, <1>20, <1>21, <1>22, <1>23, <1>24, <1>25, <1>26, <1>27, <1>28, <1>29, <1>30, <1>31, <1>32
     DEF Run, Prepare, Commit, Shared, Rollback, Delete

(* A step of the environment keeps the page settled. *)
LEMMA SettledOther ==
  ASSUME LockedInv, Typed',
         \/ \E p \in Proc : Arrive(p) \/ Beat(p)
         \/ \E h \in late : LateBeat(h)
         \/ LockExpires
         \/ \E k \in Key : TokenExpires(k)
         \/ PointerExpires
         \/ UNCHANGED vars
  PROVE  Settled'
<1> USE DEF LockedInv, Typed, TypeOK, Named, Settled, StatusAgrees, Undisturbed, Rows, Goto, NoVersion, NoToken, Step, Locked, CommitSteps, RollbackSteps, PrepareSteps, vars, depVars, keyVars, redisVars, locals
<1>1. ASSUME NEW p \in Proc, NEW k \in Key, PrepareStart(p, k)
      PROVE  Settled'
  BY <1>1 DEF PrepareStart, Begin
<1>2. ASSUME NEW p \in Proc, NEW k \in Key, CommitLoad(p, k)
      PROVE  Settled'
  BY <1>2 DEF CommitLoad
<1>3. ASSUME NEW p \in Proc, NEW v \in Version, RollbackStart(p, v)
      PROVE  Settled'
  BY <1>3 DEF RollbackStart, HasTree
<1>4. ASSUME NEW p \in Proc, DeleteStart(p)
      PROVE  Settled'
  BY <1>4 DEF DeleteStart, Begin
<1>5. ASSUME NEW p \in Proc, Beat(p)
      PROVE  Settled'
  BY <1>5 DEF Beat
<1>6. ASSUME NEW h \in late, LateBeat(h)
      PROVE  Settled'
  BY <1>6 DEF LateBeat
<1>7. CASE LockExpires
  BY <1>7 DEF LockExpires
<1>8. ASSUME NEW k \in Key, TokenExpires(k)
      PROVE  Settled'
  BY <1>8 DEF TokenExpires
<1>9. CASE PointerExpires
  BY <1>9 DEF PointerExpires
<1>10. CASE UNCHANGED vars
  BY <1>10
<1> QED
  BY <1>1, <1>2, <1>3, <1>4, <1>5, <1>6, <1>7, <1>8, <1>9, <1>10 DEF Arrive

(* Every step keeps the page settled. *)
LEMMA LockedInvStep ==
  ~Lapse /\ ~Dup /\ LockedInv /\ [Next]_vars => LockedInv'
<1>1. ASSUME Lapse = FALSE, Dup = FALSE, LockedInv, [Next]_vars
      PROVE  LockedInv'
  <2>1. Typed' /\ Safe'
    BY <1>1, TypedStep, SafeStep DEF LockedInv
  <2>2. Exclusive'
    BY <1>1, ExclusiveRun, ExclusiveOther DEF LockedInv, Next
  <2>3. Settled'
    BY <1>1, <2>1, SettledRun, SettledOther DEF Next
  <2> QED  BY <2>1, <2>2, <2>3 DEF LockedInv
<1> QED  BY <1>1, ModeAssumption

(* LockedInv is invariant as long as locks outlive their holders' work. *)
LEMMA LockedInvAlways ==
  ASSUME Lapse = FALSE, Dup = FALSE
  PROVE  Spec => []LockedInv
<1>1. Init => LockedInv
  BY TypedInit, SafeInit, ExclusiveInit, SettledInit DEF LockedInv
<1>2. LockedInv /\ [Next]_vars => LockedInv'
  BY LockedInvStep
<1> QED  BY <1>1, <1>2, PTL DEF Spec

(* A row's status says "active" exactly when its flag does. *)
THEOREM StatusAgreesHolds ==
  ASSUME Lapse = FALSE, Dup = FALSE
  PROVE  Spec => []StatusAgrees
<1>1. LockedInv => StatusAgrees
  BY DEF LockedInv, Settled
<1> QED  BY <1>1, LockedInvAlways, PTL

(* Only Activate takes a handler from "apply" to "publish". *)
LEMMA OnlyActivates ==
  ASSUME Typed, [Next]_vars, NEW p \in Proc, DeployActivates(p)
  PROVE  Activate(p)
<1> USE DEF DeployActivates, Typed, TypeOK, Goto, vars, depVars, keyVars, redisVars, locals
<1>1. ASSUME NEW q \in Proc, Run(q)
      PROVE  Activate(p)
  <2>1. CASE Prepare(q)
    BY <1>1, <2>1 DEF Prepare, PrepareBase, PrepareReserve, PrepareSeenBefore,
       PrepareAlreadyCompleted, PrepareLookup, PrepareLock, PrepareRefused,
       PrepareToken, PrepareTokenError, PrepareFailKey, Return, End
  <2>2. CASE Commit(q)
    BY <1>1, <2>2 DEF Commit, CommitAcquire, CommitCheckBase, CommitVersion,
       CommitInsert, CommitTree, CommitManifest, PersistManifest, CommitNewer, YieldToNewer,
       ReadFence, CommitComplete, CommitConsume, Enter, Return, End
  <2>3. CASE Activate(q)
    BY <1>1, <2>3 DEF Activate
  <2>4. CASE Shared(q) /\ ~Activate(q)
    BY <1>1, <2>4 DEF Shared, AssertHeld, AfterAssert, FindActive, Publish,
       Release, LeaveLock, End
  <2>5. CASE Rollback(q) \/ Delete(q) \/ Throw(q) \/ Crash(q)
    BY <1>1, <2>5 DEF Rollback, Delete, RollbackAcquire, RollbackManifest,
       PersistManifest, DeleteMark, DeleteFence, DeleteClear, Throw, Crash,
       Enter, LeaveLock, Return, End
  <2> QED  BY <1>1, <2>1, <2>2, <2>3, <2>4, <2>5 DEF Run
<1>2. ASSUME \/ \E q \in Proc : Arrive(q) \/ Beat(q)
             \/ \E h \in late : LateBeat(h)
             \/ LockExpires
             \/ \E k \in Key : TokenExpires(k)
             \/ PointerExpires
             \/ UNCHANGED vars
      PROVE  FALSE
  BY <1>2 DEF Arrive, PrepareStart, CommitLoad, RollbackStart, DeleteStart,
     Begin, Beat, LateBeat, LockExpires, TokenExpires, PointerExpires
<1> QED  BY <1>1, <1>2 DEF Next

(* No deploy goes live over a newer one. *)
THEOREM NoStaleActivationHolds ==
  ASSUME Lapse = FALSE, Dup = FALSE
  PROVE  Spec => NoStaleActivation
<1>1. ASSUME LockedInv, [Next]_vars, NEW p \in Proc, DeployActivates(p)
      PROVE  \A v \in active : v <= ver[p]
  <2>1. active \subseteq Rows
    BY <1>1 DEF LockedInv, Settled, StatusAgrees, Typed, TypeOK, Rows
  <2>2. \A v \in Rows : v <= ver[p]
    BY <1>1 DEF LockedInv, Settled, Undisturbed, DeployActivates
  <2> QED  BY <2>1, <2>2
<1>2. LockedInv /\ [Next]_vars =>
        [\A p \in Proc : DeployActivates(p) => \A v \in active : v <= ver[p]]_vars
  BY <1>1
<1> QED  BY <1>2, LockedInvAlways, PTL DEF Spec, NoStaleActivation

(* A request that writes the Redis pointer writes the row that is active. *)
THEOREM PublishesActiveHolds ==
  ASSUME Lapse = FALSE, Dup = FALSE
  PROVE  Spec => PublishesActive
<1> USE DEF vars, depVars, keyVars, redisVars, locals
<1>1. ASSUME LockedInv, NEW p \in Proc, Publish(p)
      PROVE  pointer' \notin {pointer, NoVersion} => pointer' \in active
  BY <1>1 DEF LockedInv, Settled, Undisturbed, Publish, Pointed
<1>2. ASSUME NEW p \in Proc, Run(p), ~Publish(p)
      PROVE  pointer' \in {pointer, NoVersion}
  <2>1. CASE Prepare(p)
    BY <2>1 DEF Prepare, PrepareBase, PrepareReserve, PrepareSeenBefore,
       PrepareAlreadyCompleted, PrepareLookup, PrepareLock, PrepareRefused,
       PrepareToken, PrepareTokenError, PrepareFailKey
  <2>2. CASE Commit(p)
    BY <2>2 DEF Commit, CommitAcquire, CommitCheckBase, CommitVersion,
       CommitInsert, CommitTree, CommitManifest, PersistManifest, CommitNewer, YieldToNewer,
       ReadFence, CommitComplete, CommitConsume, Enter
  <2>3. CASE Shared(p) \/ Rollback(p) \/ Delete(p) \/ Throw(p) \/ Crash(p)
    BY <1>2, <2>3 DEF Shared, Rollback, Delete, AssertHeld, FindActive, Activate,
       Release, RollbackAcquire, RollbackManifest, PersistManifest, DeleteMark,
       DeleteFence, DeleteClear, Throw, Crash, Enter
  <2> QED  BY <1>2, <2>1, <2>2, <2>3 DEF Run
<1>3. ASSUME \/ \E p \in Proc : Arrive(p) \/ Beat(p)
             \/ \E h \in late : LateBeat(h)
             \/ LockExpires
             \/ \E k \in Key : TokenExpires(k)
             \/ PointerExpires
             \/ UNCHANGED vars
      PROVE  pointer' \in {pointer, NoVersion}
  BY <1>3 DEF Arrive, PrepareStart, CommitLoad, RollbackStart, DeleteStart,
     Beat, LateBeat, LockExpires, TokenExpires, PointerExpires
<1>4. LockedInv /\ [Next]_vars =>
        [pointer' \notin {pointer, NoVersion} => pointer' \in active]_vars
  BY <1>1, <1>2, <1>3 DEF Next
<1> QED  BY <1>4, LockedInvAlways, PTL DEF Spec, PublishesActive

-----------------------------------------------------------------------------
(* A key is used up once it is completed: the row that it deployed is      *)
(* newer than any base version that its token or a handler still carries.  *)

Undone == {"p_lookup", "p_lock", "p_token", "version", "insert", "tree",
           "manifest", "newer", "assert", "fence", "find", "apply"}

Overtaken(b) == \E v \in Rows : b < v

(* Versions that a token or a handler may carry. *)
Seen == Rows \cup {NoVersion, NoToken}

KeyOnce(k) == token[k] \in Seen /\ (idem[k] = "completed" => Overtaken(token[k]))

HandlerOnce(p) ==
    /\ base[p] \in Seen
    /\ hold[p].op = "deploy" =>
         /\ pc[p] \in {"c_acquire", "stale"} /\ idem[hold[p].of] = "completed" =>
                Overtaken(base[p])
         /\ pc[p] \in Undone => idem[hold[p].of] # "completed"
         /\ pc[p] \in Writing \cup {"insert"} => token[hold[p].of] < ver[p]

Once == (\A k \in Key : KeyOnce(k)) /\ (\A p \in Proc : HandlerOnce(p))

OnceInv == LockedInv /\ Once

(* At first no key has a token and no handler runs. *)
LEMMA OnceInit == Init => Once
BY DEF Init, Once, KeyOnce, HandlerOnce, Undone, Seen, Writing, Free

(* Two running handlers have different keys. *)
LEMMA OtherKey ==
  ASSUME Typed, Exclusive, NEW p \in Proc, NEW q \in Proc, p # q,
         pc[p] # "idle", pc[q] # "idle",
         hold[p].op = "deploy", hold[q].op = "deploy"
  PROVE  hold[p].of # hold[q].of /\ hold[p].of \in Key /\ hold[q].of \in Key
BY HolderFacts DEF Typed, Named, Exclusive, Holder, DeletedFence, Free

(* A step of a running handler uses no completed key. *)
LEMMA OnceRun ==
  ASSUME OnceInv, Typed', AnyKey = FALSE, NEW p \in Proc, Run(p)
  PROVE  Once'
<1> USE DEF OnceInv, LockedInv, Typed, TypeOK, Named, Once, KeyOnce, HandlerOnce, Undone, Overtaken, Seen, Writing, Rows, Goto, NoVersion, NoToken, Step, Locked, CommitSteps, RollbackSteps, PrepareSteps, DeploySteps, RowSteps, vars, depVars, keyVars, redisVars, locals
<1>0. \A q \in Proc \ {p} :
        /\ hold[p].op = "deploy" /\ pc[p] # "idle"
        /\ hold[q].op = "deploy" /\ pc[q] # "idle"
        => hold[p].of # hold[q].of
  BY OtherKey
<1>00. \A v \in Version : v \in Nat \ {0}
  BY BoundAssumption DEF Version
<1>1. CASE PrepareBase(p)
  BY <1>1, LatestIsLast DEF PrepareBase
<1>2. CASE PrepareReserve(p)
  BY <1>2, <1>0, HolderFacts DEF PrepareReserve
<1>3. CASE PrepareSeenBefore(p)
  <2>1. hold[p].of \in Key /\ idem[hold[p].of] # "completed"
    BY <1>3, HolderFacts DEF PrepareSeenBefore, Replayed, Safe, CompletedWasDeployed
  <2>2. pc' = [pc EXCEPT ![p] = "p_lookup"]
        /\ UNCHANGED <<depVars, keyVars, redisVars, locals>>
    BY <1>3 DEF PrepareSeenBefore
  <2> QED  BY <2>1, <2>2
<1>4. CASE PrepareAlreadyCompleted(p)
  BY <1>4, <1>0, HolderFacts DEF PrepareAlreadyCompleted, Return, End
<1>5. CASE PrepareLookup(p)
  BY <1>5, <1>0, HolderFacts DEF PrepareLookup, Return, End
<1>6. CASE PrepareLock(p)
  BY <1>6, <1>0, HolderFacts DEF PrepareLock
<1>7. CASE PrepareRefused(p)
  BY <1>7, <1>0, HolderFacts DEF PrepareRefused, Return, End
<1>8. CASE PrepareToken(p)
  BY <1>8, <1>0, HolderFacts DEF PrepareToken, Return, End
<1>9. CASE PrepareTokenError(p)
  BY <1>9, <1>0, HolderFacts DEF PrepareTokenError, Return, End
<1>10. CASE PrepareFailKey(p)
  BY <1>10, <1>0, HolderFacts DEF PrepareFailKey, Return, End
<1>11. CASE CommitAcquire(p)
  BY <1>11, <1>0, HolderFacts DEF CommitAcquire, Enter, Return, End
<1>12. CASE CommitCheckBase(p)
  <2>1. ~Stale(p) => ~Overtaken(base[p])
    <3> SUFFICES ASSUME NEW v \in Rows, base[p] < v, ~(Latest > base[p])
                 PROVE  FALSE
      BY DEF Stale
    <3>1. v <= Latest
      BY LatestIsLast
    <3>2. Latest \in Int
      BY LatestIsLast, BoundAssumption
    <3>3. base[p] \in Int /\ v \in Int
      BY <1>00
    <3> QED  BY <3>1, <3>2, <3>3
  <2>2. pc'[p] \in {"release", "version"} /\ (pc'[p] = "version" => ~Stale(p))
    BY <1>12 DEF CommitCheckBase
  <2>3. pc[p] = "stale" /\ base'[p] = NoToken /\ \A q \in Proc \ {p} : pc'[q] = pc[q] /\ base'[q] = base[q]
    BY <1>12 DEF CommitCheckBase
  <2>4. UNCHANGED <<depVars, keyVars, redisVars, hold, ver>>
    BY <1>12 DEF CommitCheckBase
  <2> QED  BY <2>1, <2>2, <2>3, <2>4
<1>13. CASE CommitVersion(p)
  <2>1. \A k \in Key : token[k] < Latest + 1
    <3> TAKE k \in Key
    <3>1. token[k] \in Rows => token[k] <= Latest
      BY LatestIsLast
    <3>2. Latest \in Nat /\ token[k] \in Int
      BY LatestIsLast, BoundAssumption DEF Version
    <3>3. token[k] <= Latest
      BY <3>1, <3>2
    <3> QED  BY <3>2, <3>3
  <2>2. pc[p] = "version" /\ (ver'[p] = Latest + 1 \/ pc'[p] = "release")
    BY <1>13 DEF CommitVersion
  <2>3. pc'[p] \in {"insert", "release"} /\ \A q \in Proc \ {p} : pc'[q] = pc[q] /\ ver'[q] = ver[q]
    BY <1>13 DEF CommitVersion
  <2>4. UNCHANGED <<depVars, keyVars, redisVars, hold, base>>
    BY <1>13 DEF CommitVersion
  <2>5. hold[p].op = "deploy" => hold[p].of \in Key
    BY <2>2, HolderFacts
  <2> QED  BY <2>1, <2>2, <2>3, <2>4, <2>5
<1>14. CASE CommitInsert(p)
  BY <1>14, <1>0, HolderFacts DEF CommitInsert, RowFree, KeyNamedBy
<1>15. CASE CommitTree(p)
  BY <1>15, <1>0, HolderFacts DEF CommitTree
<1>16. CASE CommitManifest(p)
  BY <1>16, <1>0, HolderFacts DEF CommitManifest, PersistManifest
<1>17. CASE CommitNewer(p)
  BY <1>17, <1>0, HolderFacts DEF CommitNewer, YieldToNewer
<1>18. CASE ReadFence(p)
  BY <1>18, <1>0, HolderFacts DEF ReadFence
<1>19. CASE CommitComplete(p)
  <2>1. hold[p].op = "deploy" /\ hold[p].of \in Key
    BY <1>19, HolderFacts DEF CommitComplete
  <2>2. ver[p] \in Rows /\ token[hold[p].of] < ver[p]
    BY <1>19, <2>1 DEF CommitComplete, Safe, Progress
  <2>3. Overtaken(token[hold[p].of])
    BY <2>2
  <2>4. \A k \in Key : k # hold[p].of => idem'[k] = idem[k]
    BY <1>19, <2>1 DEF CommitComplete, Safe, Progress
  <2>5. pc' = [pc EXCEPT ![p] = "consume"] /\ UNCHANGED <<depVars, redisVars, locals>> /\ pc[p] = "complete"
    BY <1>19 DEF CommitComplete
  <2>6. \A k \in Key : KeyOnce(k)'
    BY <2>3, <2>4, <2>5
  <2>7. \A q \in Proc : HandlerOnce(q)'
    BY <1>0, <2>1, <2>4, <2>5, HolderFacts
  <2> QED  BY <2>6, <2>7
<1>20. CASE CommitConsume(p)
  <2>1. hold[p].op = "deploy" /\ hold[p].of \in Key /\ pc[p] = "consume"
    BY <1>20, HolderFacts DEF CommitConsume
  <2>2. token' = [token EXCEPT ![hold[p].of] = NoToken] /\ pc' = [pc EXCEPT ![p] = "release"] /\ UNCHANGED <<depVars, keyVars, locals>>
    BY <1>20 DEF CommitConsume
  <2>3. \A k \in Key : KeyOnce(k)'
    BY <1>00, <2>1, <2>2
  <2>4. \A q \in Proc : HandlerOnce(q)'
    BY <1>0, <2>1, <2>2, HolderFacts
  <2> QED  BY <2>3, <2>4
<1>21. CASE AssertHeld(p)
  BY <1>21, <1>0, HolderFacts DEF AssertHeld, AfterAssert
<1>22. CASE FindActive(p)
  BY <1>22, <1>0, HolderFacts DEF FindActive
<1>23. CASE Activate(p)
  <2>1. Rows \subseteq Rows'
    BY <1>23 DEF Activate, StatusAfter, RowStatus
  <2>2. pc' \in {[pc EXCEPT ![p] = "publish"], [pc EXCEPT ![p] = "release"]} /\ pc[p] = "apply"
    BY <1>23 DEF Activate
  <2>3. UNCHANGED <<keyVars, redisVars, hold, ver, base>>
    BY <1>23 DEF Activate
  <2>4. \A b : Overtaken(b) => Overtaken(b)'
    BY <2>1
  <2>5. \A k \in Key : KeyOnce(k)'
    BY <2>1, <2>3
  <2>6. \A q \in Proc : HandlerOnce(q)'
    BY <2>1, <2>2, <2>3
  <2> QED  BY <2>5, <2>6
<1>24. CASE Publish(p)
  BY <1>24, <1>0, HolderFacts DEF Publish, Pointed
<1>25. CASE Release(p)
  BY <1>25, <1>0, HolderFacts DEF Release, LeaveLock, End
<1>26. CASE RollbackAcquire(p)
  BY <1>26, <1>0, HolderFacts DEF RollbackAcquire, Enter, Return, End
<1>27. CASE RollbackManifest(p)
  BY <1>27, <1>0, HolderFacts DEF RollbackManifest, PersistManifest
<1>28. CASE DeleteMark(p)
  BY <1>28, <1>0, HolderFacts DEF DeleteMark
<1>29. CASE DeleteFence(p)
  BY <1>29, <1>0, HolderFacts DEF DeleteFence
<1>30. CASE DeleteClear(p)
  BY <1>30, <1>0, HolderFacts DEF DeleteClear, Return, End
<1>31. CASE Throw(p)
  BY <1>31, <1>0, HolderFacts DEF Throw
<1>32. CASE Crash(p)
  BY <1>32, <1>0, HolderFacts DEF Crash, LeaveLock, Return, End
<1> QED
  BY <1>1, <1>2, <1>3, <1>4, <1>5, <1>6, <1>7, <1>8, <1>9, <1>10, <1>11, <1>12, <1>13, <1>14, <1>15, <1>16, <1>17, <1>18, <1>19, <1>20, <1>21, <1>22, <1>23, <1>24, <1>25, <1>26, <1>27, <1>28, <1>29, <1>30, <1>31, <1>32
     DEF Run, Prepare, Commit, Shared, Rollback, Delete

(* A step of the environment uses no completed key. *)
LEMMA OnceOther ==
  ASSUME OnceInv, Typed',
         \/ \E p \in Proc : Arrive(p) \/ Beat(p)
         \/ \E h \in late : LateBeat(h)
         \/ LockExpires
         \/ \E k \in Key : TokenExpires(k)
         \/ PointerExpires
         \/ UNCHANGED vars
  PROVE  Once'
<1> USE DEF OnceInv, LockedInv, Typed, TypeOK, Named, Once, KeyOnce, HandlerOnce, Undone, Overtaken, Seen, Writing, Rows, Goto, NoVersion, NoToken, Step, Locked, CommitSteps, RollbackSteps, PrepareSteps, DeploySteps, RowSteps, vars, depVars, keyVars, redisVars, locals
<1>00. \A v \in Version : v \in Nat \ {0}
  BY BoundAssumption DEF Version
<1>1. ASSUME NEW p \in Proc, NEW k \in Key, PrepareStart(p, k)
      PROVE  Once'
  BY <1>1, HolderFacts DEF PrepareStart, Begin
<1>2. ASSUME NEW p \in Proc, NEW k \in Key, CommitLoad(p, k)
      PROVE  Once'
  BY <1>2, HolderFacts DEF CommitLoad
<1>3. ASSUME NEW p \in Proc, NEW v \in Version, RollbackStart(p, v)
      PROVE  Once'
  BY <1>3, HolderFacts DEF RollbackStart, HasTree
<1>4. ASSUME NEW p \in Proc, DeleteStart(p)
      PROVE  Once'
  BY <1>4, HolderFacts DEF DeleteStart, Begin
<1>5. ASSUME NEW p \in Proc, Beat(p)
      PROVE  Once'
  BY <1>5, HolderFacts DEF Beat
<1>6. ASSUME NEW h \in late, LateBeat(h)
      PROVE  Once'
  BY <1>6, HolderFacts DEF LateBeat
<1>7. CASE LockExpires
  BY <1>7, HolderFacts DEF LockExpires
<1>8. ASSUME NEW k \in Key, TokenExpires(k)
      PROVE  Once'
  BY <1>8, <1>00, HolderFacts DEF TokenExpires
<1>9. CASE PointerExpires
  BY <1>9, HolderFacts DEF PointerExpires
<1>10. CASE UNCHANGED vars
  BY <1>10, HolderFacts
<1> QED
  BY <1>1, <1>2, <1>3, <1>4, <1>5, <1>6, <1>7, <1>8, <1>9, <1>10 DEF Arrive

(* Every step keeps the completed keys used up. *)
LEMMA OnceInvStep ==
  ~Lapse /\ ~Dup /\ ~AnyKey /\ OnceInv /\ [Next]_vars => OnceInv'
<1>1. ASSUME ~Lapse, ~Dup, ~AnyKey, OnceInv, [Next]_vars
      PROVE  OnceInv'
  <2>1. LockedInv'
    BY <1>1, LockedInvStep DEF OnceInv
  <2>2. Typed'
    BY <2>1 DEF LockedInv
  <2>3. Once'
    BY <1>1, <2>2, ModeAssumption, OnceRun, OnceOther DEF Next
  <2> QED  BY <2>1, <2>3 DEF OnceInv
<1> QED  BY <1>1

(* A key that was completed is never deployed a second time, if commits
   name the key of their token. *)
THEOREM NoRedeployHolds ==
  ASSUME Lapse = FALSE, Dup = FALSE, AnyKey = FALSE
  PROVE  Spec => NoRedeploy
<1>1. Init => OnceInv
  BY TypedInit, SafeInit, ExclusiveInit, SettledInit, OnceInit DEF OnceInv, LockedInv
<1>2. OnceInv /\ [Next]_vars => OnceInv'
  BY OnceInvStep
<1>3. OnceInv /\ [Next]_vars =>
        [\A p \in Proc : DeployActivates(p) => idem[hold[p].of] # "completed"]_vars
  BY DEF OnceInv, Once, HandlerOnce, Undone, DeployActivates
<1> QED  BY <1>1, <1>2, <1>3, PTL DEF Spec, NoRedeploy
=============================================================================
