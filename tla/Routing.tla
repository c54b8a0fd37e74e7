------------------------------- MODULE Routing -------------------------------
(***************************************************************************)
(* How a request of ONE site finds the site and its active deployment:     *)
(* resolveSiteID and resolveActiveDeploymentID of the blob servers look in *)
(* the process's LRU (L1), then in Redis, then in PostgreSQL, and write    *)
(* back what they find.  The console writes PostgreSQL first and then, as  *)
(* best effort, Redis (routing.ts).  Nothing invalidates an L1 entry.      *)
(*                                                                         *)
(* A version numbers an ACTIVATION, so a rollback is a new version.        *)
(***************************************************************************)
EXTENDS Integers

CONSTANTS
    Server,     \* blob-server processes
    Request,    \* requests being resolved
    NoServer,   \* where an idle request is
    MaxVersion, \* bound: number of activations
    Lossy,      \* may Redis commands fail?
    HourPasses  \* does the run last beyond the 1 h TTL of site:<id>:active?

ASSUME RoutingAssumption ==
    /\ MaxVersion \in Nat
    /\ Lossy \in BOOLEAN /\ HourPasses \in BOOLEAN
    /\ NoServer \notin Server

None == 0       \* no active deployment; a negative L1 entry
Miss == -1      \* no entry
Version == 1 .. MaxVersion

VARIABLES
    dbActive,   \* PostgreSQL: the active deployment
    dbLive,     \* PostgreSQL: sites.active
    kvSite,     \* Redis: is site:subdomain:<s> set?
    kvActive,   \* Redis: site:<id>:active, None when unset
    publishing, \* a deploy or rollback has committed and will write Redis
    deletion,   \* the step of deletePage
    l1Site,     \* per server: "miss", "absent", "present"
    l1Active,   \* per server: Miss, None or a version
    pc, at, got \* per request: step, server, deployment found so far

console == <<dbActive, dbLive, publishing, deletion>>
redis == <<kvSite, kvActive>>
l1 == <<l1Site, l1Active>>
vars == <<console, redis, l1, pc, at, got>>

Step == {"idle", "site_l1", "site_redis", "site_db", "site_keep", "site_fill",
         "no_site", "active_l1", "active_redis", "active_keep", "active_db",
         "active_back", "active_fill", "answered", "error"}

TypeOK ==
    /\ dbActive \in Version \cup {None}
    /\ dbLive \in BOOLEAN
    /\ kvSite \in BOOLEAN
    /\ kvActive \in Version \cup {None}
    /\ publishing \in BOOLEAN
    /\ deletion \in {"none", "site", "active", "done"}
    /\ l1Site \in [Server -> {"miss", "absent", "present"}]
    /\ l1Active \in [Server -> Version \cup {None, Miss}]
    /\ pc \in [Request -> Step]
    /\ at \in [Request -> Server \cup {NoServer}]
    /\ got \in [Request -> Version \cup {None}]
    /\ \A r \in Request : pc[r] = "idle" <=> at[r] = NoServer
    /\ \A r \in Request : pc[r] \in {"active_keep", "active_fill"} => got[r] # None

Init ==
    /\ dbActive = None /\ dbLive = TRUE
    /\ kvSite \in IF Lossy THEN BOOLEAN ELSE {TRUE}
    /\ kvActive = None
    /\ publishing = FALSE /\ deletion = "none"
    /\ l1Site = [s \in Server |-> "miss"]
    /\ l1Active = [s \in Server |-> Miss]
    /\ pc = [r \in Request |-> "idle"]
    /\ at = [r \in Request |-> NoServer]
    /\ got = [r \in Request |-> None]

(* A Redis write that may fail: the error is logged and swallowed. *)
Written(old, new) == {new} \cup (IF Lossy THEN {old} ELSE {})

-----------------------------------------------------------------------------
(* The console *)

(* Mutation of Activate: the Redis write runs before the transaction. *)
PublishBeforeCommit ==
    /\ ~publishing /\ dbActive < MaxVersion
    /\ kvActive' = dbActive + 1
    /\ publishing' = FALSE
    /\ UNCHANGED <<dbActive, dbLive, kvSite, deletion, l1, pc, at, got>>
(* A deploy or rollback commits its activation; the page's deploy lock     *)
(* keeps the next one away until this one has published (module Deploy).    *)
Activate ==
    /\ ~publishing /\ dbActive < MaxVersion
    /\ dbActive' = dbActive + 1
    /\ publishing' = TRUE
    /\ UNCHANGED <<dbLive, redis, deletion, l1, pc, at, got>>

(* setActiveDeploymentMapping, or the handler is killed before it. *)
Publish ==
    /\ publishing
    /\ kvActive' \in Written(kvActive, dbActive)
    /\ publishing' = FALSE
    /\ UNCHANGED <<dbActive, dbLive, kvSite, deletion, l1, pc, at, got>>

(* deletePage: sites.active = false, then the two Redis keys. *)
DeleteSite ==
    /\ deletion = "none"
    /\ dbLive' = FALSE
    /\ deletion' = "site"
    /\ UNCHANGED <<dbActive, publishing, redis, l1, pc, at, got>>

ClearSite ==
    /\ deletion = "site"
    /\ kvSite' \in Written(kvSite, FALSE)
    /\ deletion' = "active"
    /\ UNCHANGED <<dbActive, dbLive, publishing, kvActive, l1, pc, at, got>>

ClearActive ==
    /\ deletion = "active"
    /\ kvActive' \in Written(kvActive, None)
    /\ deletion' = "done"
    /\ UNCHANGED <<dbActive, dbLive, publishing, kvSite, l1, pc, at, got>>

-----------------------------------------------------------------------------
(* resolveSiteID *)

Goto(r, s) == pc' = [pc EXCEPT ![r] = s]

(* A request reaches a server. *)
Arrive(r, s) ==
    /\ pc[r] = "idle"
    /\ Goto(r, "site_l1")
    /\ at' = [at EXCEPT ![r] = s]
    /\ UNCHANGED <<console, redis, l1, got>>

SiteL1(r) ==
    /\ pc[r] = "site_l1"
    /\ Goto(r, CASE l1Site[at[r]] = "present" -> "active_l1"
                 [] l1Site[at[r]] = "absent" -> "answered"
                 [] l1Site[at[r]] = "miss" -> "site_redis")
    /\ UNCHANGED <<console, redis, l1, at, got>>

(* A Redis error counts as a miss. *)
SiteRedis(r) ==
    /\ pc[r] = "site_redis"
    /\ \/ kvSite /\ Goto(r, "site_keep")
       \/ (Lossy \/ ~kvSite) /\ Goto(r, "site_db")
    /\ UNCHANGED <<console, redis, l1, at, got>>

SiteKeep(r) ==
    /\ pc[r] = "site_keep"
    /\ l1Site' = [l1Site EXCEPT ![at[r]] = "present"]
    /\ Goto(r, "active_l1")
    /\ UNCHANGED <<console, redis, l1Active, at, got>>

SiteDb(r) ==
    /\ pc[r] = "site_db"
    /\ Goto(r, IF dbLive THEN "site_fill" ELSE "no_site")
    /\ UNCHANGED <<console, redis, l1, at, got>>

NoSite(r) ==
    /\ pc[r] = "no_site"
    /\ l1Site' = [l1Site EXCEPT ![at[r]] = "absent"]
    /\ Goto(r, "answered")
    /\ UNCHANGED <<console, redis, l1Active, at, got>>

(* The row is kept in L1 and backfilled into Redis with no TTL. *)
SiteFill(r) ==
    /\ pc[r] = "site_fill"
    /\ l1Site' = [l1Site EXCEPT ![at[r]] = "present"]
    /\ kvSite' \in Written(kvSite, TRUE)
    /\ Goto(r, "active_l1")
    /\ UNCHANGED <<console, kvActive, l1Active, at, got>>

-----------------------------------------------------------------------------
(* resolveActiveDeploymentID *)

Found(r, v) == got' = [got EXCEPT ![r] = v]

ActiveL1(r) ==
    LET entry == l1Active[at[r]] IN
    /\ pc[r] = "active_l1"
    /\ IF entry = Miss THEN Goto(r, "active_redis") /\ UNCHANGED got
                       ELSE Goto(r, "answered") /\ Found(r, entry)
    /\ UNCHANGED <<console, redis, l1, at>>

ActiveRedis(r) ==
    /\ pc[r] = "active_redis"
    /\ \/ kvActive # None /\ Found(r, kvActive) /\ Goto(r, "active_keep")
       \/ (Lossy \/ kvActive = None) /\ Goto(r, "active_db") /\ UNCHANGED got
    /\ UNCHANGED <<console, redis, l1, at>>

ActiveKeep(r) ==
    /\ pc[r] = "active_keep"
    /\ l1Active' = [l1Active EXCEPT ![at[r]] = got[r]]
    /\ Goto(r, "answered")
    /\ UNCHANGED <<console, redis, l1Site, at, got>>

(* ActiveDeploymentBySite reads a snapshot. *)
ActiveDb(r) ==
    /\ pc[r] = "active_db"
    /\ Found(r, dbActive)
    /\ Goto(r, "active_back")
    /\ UNCHANGED <<console, redis, l1, at>>

AfterBack(r) == IF got[r] = None THEN "answered" ELSE "active_fill"
(* The snapshot, or that there is none, is kept in L1. *)
ActiveBack(r) ==
    /\ pc[r] = "active_back"
    /\ l1Active' = [l1Active EXCEPT ![at[r]] = got[r]]
    /\ Goto(r, AfterBack(r))
    /\ UNCHANGED <<console, redis, l1Site, at, got>>

(* Redis gets what the snapshot held, however old it is by now. *)
ActiveFill(r) ==
    /\ pc[r] = "active_fill"
    /\ kvActive' \in Written(kvActive, got[r])
    /\ Goto(r, "answered")
    /\ UNCHANGED <<console, kvSite, l1, at, got>>

(* A failed query answers 500. *)
DbError(r) ==
    /\ pc[r] \in {"site_db", "active_db"}
    /\ Lossy
    /\ Goto(r, "error")
    /\ UNCHANGED <<console, redis, l1, at, got>>

Leave(r) ==
    /\ pc[r] \in {"answered", "error"}
    /\ Goto(r, "idle")
    /\ at' = [at EXCEPT ![r] = NoServer]
    /\ Found(r, None)
    /\ UNCHANGED <<console, redis, l1>>

-----------------------------------------------------------------------------
(* TTLs *)

SiteExpires(s) ==
    /\ l1Site[s] # "miss"
    /\ l1Site' = [l1Site EXCEPT ![s] = "miss"]
    /\ UNCHANGED <<console, redis, l1Active, pc, at, got>>

ActiveExpires(s) ==
    /\ l1Active[s] # Miss
    /\ l1Active' = [l1Active EXCEPT ![s] = Miss]
    /\ UNCHANGED <<console, redis, l1Site, pc, at, got>>

(* Mutation of SafetyTTL: the key is written without EX. *)
NoSafetyTTL == FALSE
(* activeDeploymentRedisTTLSeconds *)
SafetyTTL == HourPasses
KeyExpires ==
    /\ SafetyTTL
    /\ kvActive # None
    /\ kvActive' = None
    /\ UNCHANGED <<console, kvSite, l1, pc, at, got>>

-----------------------------------------------------------------------------
Resolve(r) ==
    \/ SiteL1(r) \/ SiteRedis(r) \/ SiteKeep(r) \/ SiteDb(r) \/ NoSite(r)
    \/ SiteFill(r) \/ ActiveL1(r) \/ ActiveRedis(r) \/ ActiveKeep(r)
    \/ ActiveDb(r) \/ ActiveBack(r) \/ ActiveFill(r) \/ DbError(r) \/ Leave(r)

Console == Publish \/ ClearSite \/ ClearActive

Next ==
    \/ Activate \/ DeleteSite \/ Console
    \/ \E r \in Request : (\E s \in Server : Arrive(r, s)) \/ Resolve(r)
    \/ \E s \in Server : SiteExpires(s) \/ ActiveExpires(s)
    \/ KeyExpires

Spec == Init /\ [][Next]_vars

(* Fairness: queries and Redis commands return or time out (2 s), a console *)
(* handler goes on or is killed, and TTLs run out.                          *)
FairSpec ==
    /\ Spec
    /\ \A r \in Request : WF_vars(Resolve(r))
    /\ WF_vars(Console)
    /\ \A s \in Server : WF_vars(SiteExpires(s)) /\ WF_vars(ActiveExpires(s))
    /\ WF_vars(KeyExpires)
=============================================================================
