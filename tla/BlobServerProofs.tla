--------------------------- MODULE BlobServerProofs ---------------------------
(* Proofs about Routing and ManifestLoad, for any number of servers,        *)
(* requests, activations and groups, and about the specification of the     *)
(* run that has both.                                                       *)
EXTENDS MCBlobServer, TLAPS

(* TypeOK and CacheAfterCommit together are inductive: a cached value is   *)
(* always a copy of another one or of PostgreSQL's, which never decreases. *)
RoutingInv == TypeOK /\ CacheAfterCommit

(* The console's own steps keep the invariant. *)
LEMMA ConsoleHolds ==
    ASSUME RoutingInv, Activate \/ Publish \/ DeleteSite \/ ClearSite \/ ClearActive
    PROVE  RoutingInv'
<1> USE RoutingAssumption
<1> USE DEF RoutingInv, TypeOK, CacheAfterCommit, Version, None, Miss, Step, Written,
            l1, redis
<1>1. CASE Activate
    <2>1. dbActive' \in Version /\ dbActive' > dbActive
        BY <1>1 DEF Activate
    <2>2. TypeOK'
        BY <1>1, <2>1 DEF Activate
    <2>3. CacheAfterCommit'
        <3>1. ASSUME NEW s \in Server PROVE l1Active[s] \in Int
            <4>1. l1Active[s] \in Version \cup {0, -1}
                OBVIOUS
            <4> QED BY <4>1
        <3>2. ASSUME NEW r \in Request PROVE got[r] \in Int
            OBVIOUS
        <3> QED BY <1>1, <2>1, <3>1, <3>2 DEF Activate
    <2> QED BY <2>2, <2>3
<1>2. CASE Publish
    <2>1. kvActive' \in {kvActive, dbActive}
        BY <1>2 DEF Publish
    <2>2. TypeOK'
        BY <1>2, <2>1 DEF Publish
    <2>3. CacheAfterCommit'
        BY <1>2, <2>1 DEF Publish
    <2> QED BY <2>2, <2>3
<1>3. CASE DeleteSite BY <1>3 DEF DeleteSite
<1>4. CASE ClearSite BY <1>4 DEF ClearSite
<1>5. CASE ClearActive BY <1>5 DEF ClearActive
<1> QED BY <1>1, <1>2, <1>3, <1>4, <1>5

(* The steps of resolveSiteID keep the invariant. *)
LEMMA SiteHolds ==
    ASSUME RoutingInv, NEW r \in Request,
           (\E s \in Server : Arrive(r, s)) \/ SiteL1(r) \/ SiteRedis(r)
              \/ SiteKeep(r) \/ SiteDb(r) \/ NoSite(r) \/ SiteFill(r)
    PROVE  RoutingInv'
<1> USE RoutingAssumption
<1> USE DEF RoutingInv, TypeOK, CacheAfterCommit, Version, None, Miss, Step, Written,
            l1, redis, console, Goto
<1>1. CASE \E s \in Server : Arrive(r, s)
    BY <1>1 DEF Arrive
<1>2. CASE SiteL1(r)
    <2>1. pc' \in {[pc EXCEPT ![r] = "active_l1"], [pc EXCEPT ![r] = "answered"],
                   [pc EXCEPT ![r] = "site_redis"]}
        BY <1>2 DEF SiteL1
    <2> QED BY <1>2, <2>1 DEF SiteL1
<1>3. CASE SiteRedis(r) BY <1>3 DEF SiteRedis
<1>4. CASE SiteKeep(r) BY <1>4 DEF SiteKeep
<1>5. CASE SiteDb(r) BY <1>5 DEF SiteDb
<1>6. CASE NoSite(r) BY <1>6 DEF NoSite
<1>7. CASE SiteFill(r) BY <1>7 DEF SiteFill
<1> QED BY <1>1, <1>2, <1>3, <1>4, <1>5, <1>6, <1>7

(* The steps of resolveActiveDeploymentID keep the invariant. *)
LEMMA ActiveHolds ==
    ASSUME RoutingInv, NEW r \in Request,
           ActiveL1(r) \/ ActiveRedis(r) \/ ActiveKeep(r) \/ ActiveDb(r)
              \/ ActiveBack(r) \/ ActiveFill(r) \/ DbError(r) \/ Leave(r)
    PROVE  RoutingInv'
<1> USE RoutingAssumption
<1> USE DEF RoutingInv, TypeOK, CacheAfterCommit, Version, None, Miss, Step, Written,
            l1, redis, console, Goto, Found
<1>1. CASE ActiveL1(r) BY <1>1 DEF ActiveL1
<1>2. CASE ActiveRedis(r) BY <1>2 DEF ActiveRedis
<1>3. CASE ActiveKeep(r) BY <1>3 DEF ActiveKeep
<1>4. CASE ActiveDb(r) BY <1>4 DEF ActiveDb
<1>5. CASE ActiveBack(r) BY <1>5 DEF ActiveBack, AfterBack
<1>6. CASE ActiveFill(r) BY <1>6 DEF ActiveFill
<1>7. CASE DbError(r) BY <1>7 DEF DbError
<1>8. CASE Leave(r) BY <1>8 DEF Leave
<1> QED BY <1>1, <1>2, <1>3, <1>4, <1>5, <1>6, <1>7, <1>8

(* Every step keeps the invariant; a TTL only removes a value. *)
LEMMA RoutingStepHolds == RoutingInv /\ [Next]_vars => RoutingInv'
<1> SUFFICES ASSUME RoutingInv, [Next]_vars PROVE RoutingInv'
    OBVIOUS
<1>1. CASE \E s \in Server : SiteExpires(s) \/ ActiveExpires(s)
    BY <1>1, RoutingAssumption
       DEF SiteExpires, ActiveExpires, RoutingInv, TypeOK, CacheAfterCommit, Version,
           None, Miss, Step, l1, redis, console
<1>2. CASE KeyExpires
    BY <1>2, RoutingAssumption
       DEF KeyExpires, RoutingInv, TypeOK, CacheAfterCommit, Version, None, Miss, Step,
           l1, redis, console
<1>3. CASE UNCHANGED vars
    BY <1>3 DEF vars, l1, redis, console, RoutingInv, TypeOK, CacheAfterCommit
<1>4. CASE Activate \/ DeleteSite \/ Console
    BY <1>4, ConsoleHolds DEF Console
<1>5. ASSUME NEW r \in Request, (\E s \in Server : Arrive(r, s)) \/ Resolve(r)
      PROVE  RoutingInv'
    BY <1>5, SiteHolds, ActiveHolds DEF Resolve
<1> QED
    BY <1>1, <1>2, <1>3, <1>4, <1>5 DEF Next

(* Initially the caches are empty. *)
LEMMA RoutingInitHolds == Init => RoutingInv
<1> SUFFICES ASSUME Init PROVE RoutingInv
    OBVIOUS
<1> USE DEF Init, None, Miss
<1>1. TypeOK
    BY RoutingAssumption DEF TypeOK, Version, Step
<1>2. CacheAfterCommit
    BY DEF CacheAfterCommit
<1> QED BY <1>1, <1>2 DEF RoutingInv

(* Whatever a blob server caches or answers is an activation that          *)
(* PostgreSQL has committed.                                                *)
THEOREM CachesCommitted == Spec => [](TypeOK /\ CacheAfterCommit)
<1> QED BY RoutingInitHolds, RoutingStepHolds, PTL DEF Spec, RoutingInv

(* Stores, caches and requests have their types.                            *)
THEOREM RoutingTypeCorrect == Spec => []TypeOK
<1> QED BY CachesCommitted, PTL
-----------------------------------------------------------------------------

Fetching == {"recheck", "fetch", "store", "drop"}

(* The inductive invariant.  A goroutine inside the load runs the Once of a *)
(* group of its own; until it drops the group, that group is the one in     *)
(* manifestLoading, so no second group can be made.                         *)
OwnGroup ==
    /\ \A r \in LoadRequest : lpc[r] \in LoadSteps => once[my[r]] = "running"
    /\ \A r, q \in LoadRequest :
          lpc[r] \in LoadSteps /\ lpc[q] \in LoadSteps /\ my[r] = my[q] => r = q
Registered ==
    \A r \in LoadRequest :
        lpc[r] \in Fetching \/ (lpc[r] = "wait" /\ once[my[r]] = "new")
            => loading = my[r]

LoadInv == LoadTypeOK /\ OwnGroup /\ Registered /\ NoStampede

(* The single flight follows: two goroutines inside the load would own the *)
(* group that manifestLoading holds.                                       *)
LEMMA OneFetchFollows == LoadInv => OneFetch
BY DEF LoadInv, OwnGroup, Registered, OneFetch, Fetching, LoadSteps

(* Initially nobody is in the load. *)
LEMMA LoadInitHolds == LoadInit => LoadInv
BY GroupAssumption
   DEF LoadInit, LoadInv, LoadTypeOK, OwnGroup, Registered, NoStampede, LoadStep, LoadSteps, Fetching

(* Every step keeps the invariant. *)
LEMMA LoadStepHolds == LoadInv /\ [LoadNext]_loadVars => LoadInv'
<1> SUFFICES ASSUME LoadInv, [LoadNext]_loadVars PROVE LoadInv'
    OBVIOUS
<1> USE GroupAssumption
<1> USE DEF LoadInv, LoadTypeOK, OwnGroup, Registered, NoStampede, LoadStep, LoadSteps,
            Fetching, LoadGoto, shared
<1>1. ASSUME NEW r \in LoadRequest, LoadArrive(r) PROVE LoadInv'
    BY <1>1 DEF LoadArrive
<1>2. ASSUME NEW r \in LoadRequest, ReadErrors(r) PROVE LoadInv'
    <2>1. lpc' = [lpc EXCEPT ![r] = "refused"] \/ lpc' = [lpc EXCEPT ![r] = "forget"]
             \/ lpc' = [lpc EXCEPT ![r] = "l1"]
        BY <1>2 DEF ReadErrors
    <2> QED BY <1>2, <2>1 DEF ReadErrors
<1>3. ASSUME NEW r \in LoadRequest, ForgetError(r) PROVE LoadInv'
    BY <1>3 DEF ForgetError
<1>4. ASSUME NEW r \in LoadRequest, ReadL1(r) PROVE LoadInv'
    BY <1>4 DEF ReadL1
<1>5. ASSUME NEW r \in LoadRequest, Join(r) PROVE LoadInv'
    <2>1. CASE loading # NoGroup
        BY <1>5, <2>1 DEF Join
    <2>2. CASE loading = NoGroup
        <3>1. PICK g \in Group :
                 /\ Unused(g)
                 /\ my' = [my EXCEPT ![r] = g]
                 /\ loading' = g
                 /\ once' = [once EXCEPT ![g] = "new"]
                 /\ failed' = failed \ {g}
            BY <1>5, <2>2 DEF Join
        <3>2. LoadTypeOK'
            BY <1>5, <3>1 DEF Join
        <3>3. OwnGroup' /\ Registered' /\ NoStampede'
            BY <1>5, <2>2, <3>1 DEF Join, Unused
        <3> QED BY <3>2, <3>3
    <2> QED BY <2>1, <2>2
<1>6. ASSUME NEW r \in LoadRequest, Lead(r) PROVE LoadInv'
    <2>1. lpc[r] = "wait" /\ once[my[r]] = "new" /\ my[r] \in Group
        BY <1>6 DEF Lead, MayLead
    <2>2. loading = my[r]
        BY <1>6, <2>1 DEF Lead
    <2> QED BY <1>6, <2>1, <2>2 DEF Lead
<1>7. ASSUME NEW r \in LoadRequest, RecheckFailed(r) PROVE LoadInv'
    BY <1>7 DEF RecheckFailed, Closed, RecentlyFailed
<1>8. ASSUME NEW r \in LoadRequest, Recheck(r) PROVE LoadInv'
    BY <1>8 DEF Recheck, RecentlyFailed
<1>9. ASSUME NEW r \in LoadRequest, FetchSucceeds(r) PROVE LoadInv'
    BY <1>9 DEF FetchSucceeds
<1>10. ASSUME NEW r \in LoadRequest, FetchFails(r) PROVE LoadInv'
    BY <1>10 DEF FetchFails
<1>11. ASSUME NEW r \in LoadRequest, Store(r) PROVE LoadInv'
    <2>1. \A q \in LoadRequest : lpc[q] \in Fetching => q = r
        BY <1>11 DEF Store
    <2>2. lpc' = [lpc EXCEPT ![r] = "drop"]
        BY <1>11 DEF Store
    <2>3. LoadTypeOK'
        BY <1>11, <2>2 DEF Store
    <2>4. OwnGroup' /\ Registered'
        BY <1>11, <2>2 DEF Store
    <2>5. NoStampede'
        BY <2>1, <2>2
    <2> QED BY <2>3, <2>4, <2>5
<1>12. ASSUME NEW r \in LoadRequest, Drop(r) PROVE LoadInv'
    BY <1>12 DEF Drop
<1>13. ASSUME NEW r \in LoadRequest, Close(r) PROVE LoadInv'
    BY <1>13 DEF Close, Closed
<1>14. ASSUME NEW r \in LoadRequest, LoadAnswer(r) PROVE LoadInv'
    BY <1>14 DEF LoadAnswer, Left
<1>15. ASSUME NEW r \in LoadRequest, LoadLeave(r) PROVE LoadInv'
    BY <1>15 DEF LoadLeave
<1>16. CASE ErrorExpires
    BY <1>16 DEF ErrorExpires
<1>17. CASE Evict
    BY <1>17 DEF Evict
<1>18. CASE StorageChanges
    BY <1>18 DEF StorageChanges
<1>19. CASE UNCHANGED loadVars
    BY <1>19 DEF loadVars
<1> QED
    BY <1>1, <1>2, <1>3, <1>4, <1>5, <1>6, <1>7, <1>8, <1>9, <1>10, <1>11, <1>12,
       <1>13, <1>14, <1>15, <1>16, <1>17, <1>18, <1>19 DEF LoadNext, Proceed

(* The manifest loader keeps its types, never fetches one manifest twice at *)
(* the same time, and does not fetch while a failure is remembered.         *)
THEOREM LoaderSafe == LoadSpec => [](LoadTypeOK /\ OneFetch /\ NoStampede)
<1>1. LoadInit => LoadInv BY LoadInitHolds
<1>2. LoadInv /\ [LoadNext]_loadVars => LoadInv' BY LoadStepHolds
<1>3. LoadInv => LoadTypeOK /\ OneFetch /\ NoStampede BY OneFetchFollows DEF LoadInv
<1> QED BY <1>1, <1>2, <1>3, PTL DEF LoadSpec

(* While a failure is remembered, no request is on its way to the bucket.   *)
THEOREM NoStampedeHolds == LoadSpec => []NoStampede
<1> QED BY LoaderSafe, PTL

(* The maps of the loader and the requests have their types.                *)
THEOREM LoaderTypeCorrect == LoadSpec => []LoadTypeOK
<1> QED BY LoaderSafe, PTL
-----------------------------------------------------------------------------
(* A step of the run is a step of one of the two and leaves the other alone. *)
LEMMA BlobServerStepHolds ==
    ASSUME RoutingInv, LoadInv,
           [RoutingMoves \/ LoadMoves]_<<part, vars, loadVars>>
    PROVE  RoutingInv' /\ LoadInv'
<1>1. [Next]_vars /\ [LoadNext]_loadVars
    BY DEF RoutingMoves, LoadMoves
<1> QED BY <1>1, RoutingStepHolds, LoadStepHolds

(* Everything that the blob server shares or keeps for a request on its way *)
(* to a manifest has its type.                                              *)
THEOREM BlobServerTypeCorrect == BlobServerSpec => []BlobServerTypeOK
<1>1. BlobServerInit => RoutingInv /\ LoadInv
    BY RoutingInitHolds, LoadInitHolds DEF BlobServerInit
<1>2. RoutingInv /\ LoadInv /\ [RoutingMoves \/ LoadMoves]_<<part, vars, loadVars>>
        => RoutingInv' /\ LoadInv'
    BY BlobServerStepHolds
<1>3. RoutingInv /\ LoadInv => BlobServerTypeOK
    BY DEF RoutingInv, LoadInv, BlobServerTypeOK
<1> QED BY <1>1, <1>2, <1>3, PTL DEF BlobServerSpec
=============================================================================
