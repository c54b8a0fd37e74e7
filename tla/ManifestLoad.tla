----------------------------- MODULE ManifestLoad -----------------------------
(***************************************************************************)
(* Loading the manifest of ONE deployment in one blob-server process:      *)
(* loadManifest, loadManifestCoalesced and loadManifestFromRemote.         *)
(*                                                                         *)
(* Many requests for the deployment run at once.  They share the process's *)
(* manifest LRU, the negative cache manifestErrors, and manifestLoading,   *)
(* a sync.Map that joins concurrent misses into one load group: the group's *)
(* sync.Once runs the load, and closing its channel lets the others go.    *)
(***************************************************************************)
EXTENDS Integers, FiniteSets

CONSTANTS
    LoadRequest,    \* goroutines that serve requests for the deployment
    Group,      \* *manifestLoadGroup objects
    NoGroup,    \* no entry in manifestLoading
    Cancel      \* may a client cancel the request whose context the load uses?

ASSUME GroupAssumption == NoGroup \notin Group
ASSUME CancelAssumption == Cancel \in BOOLEAN

VARIABLES
    errors,     \* manifestErrors: "none", "fresh", or "expired" but not yet removed
    cached,     \* is the manifest in the L1 manifest cache?
    loading,    \* manifestLoading: the current group, or NoGroup
    once,       \* state of a group's sync.Once; "done" also means done is closed
    failed,     \* groups whose err is set
    healthy,    \* does object storage return a valid manifest?
    lpc, my      \* each request's next step, and the group it has joined

shared == <<errors, cached, loading, once, failed>>
loadVars == <<shared, healthy, lpc, my>>

LoadSteps == {"recheck", "fetch", "store", "drop", "close"}
LoadStep == {"idle", "errors", "forget", "l1", "join", "wait", "served", "refused"}
            \cup LoadSteps

LoadTypeOK ==
    /\ errors \in {"none", "fresh", "expired"}
    /\ cached \in BOOLEAN
    /\ loading \in Group \cup {NoGroup}
    /\ once \in [Group -> {"new", "running", "done"}]
    /\ failed \subseteq Group
    /\ healthy \in BOOLEAN
    /\ lpc \in [LoadRequest -> LoadStep]
    /\ my \in [LoadRequest -> Group \cup {NoGroup}]
    /\ \A r \in LoadRequest : my[r] # NoGroup <=> lpc[r] \in LoadSteps \cup {"wait"}

LoadInit ==
    /\ errors = "none"
    /\ cached = FALSE
    /\ loading = NoGroup
    /\ once = [g \in Group |-> "new"]
    /\ failed = {}
    /\ healthy \in BOOLEAN
    /\ lpc = [r \in LoadRequest |-> "idle"]
    /\ my = [r \in LoadRequest |-> NoGroup]

LoadGoto(r, s) == lpc' = [lpc EXCEPT ![r] = s]

-----------------------------------------------------------------------------
(* loadManifest *)

LoadArrive(r) ==
    /\ lpc[r] = "idle"
    /\ LoadGoto(r, "errors")
    /\ UNCHANGED <<shared, healthy, my>>

(* A fresh entry answers at once; an expired one is deleted. *)
ReadErrors(r) ==
    /\ lpc[r] = "errors"
    /\ LoadGoto(r, CASE errors = "fresh" -> "refused"
                 [] errors = "expired" -> "forget"
                 [] errors = "none" -> "l1")
    /\ UNCHANGED <<shared, healthy, my>>

(* manifestErrors.Delete removes whatever entry is there by now. *)
ForgetError(r) ==
    /\ lpc[r] = "forget"
    /\ errors' = "none"
    /\ LoadGoto(r, "l1")
    /\ UNCHANGED <<cached, loading, once, failed, healthy, my>>

ReadL1(r) ==
    /\ lpc[r] = "l1"
    /\ LoadGoto(r, IF cached THEN "served" ELSE "join")
    /\ UNCHANGED <<shared, healthy, my>>

-----------------------------------------------------------------------------
(* loadManifestCoalesced *)

(* A group nobody holds stands for the object that LoadOrStore is given. *)
Unused(g) == loading # g /\ \A r \in LoadRequest : my[r] # g

(* LoadOrStore: the group of the load under way, or else a new one. *)
Join(r) ==
    /\ lpc[r] = "join"
    /\ \/ /\ loading # NoGroup
          /\ my' = [my EXCEPT ![r] = loading]
          /\ UNCHANGED <<loading, once, failed>>
       \/ /\ loading = NoGroup
          /\ \E g \in Group :
                /\ Unused(g)
                /\ my' = [my EXCEPT ![r] = g]
                /\ loading' = g
                /\ once' = [once EXCEPT ![g] = "new"]
                /\ failed' = failed \ {g}
    /\ LoadGoto(r, "wait")
    /\ UNCHANGED <<errors, cached, healthy>>

(* Mutation of MayLead: no sync.Once. *)
MayAlwaysLead(r) == once[my[r]] # "done"
(* once.Do lets the first caller run the load. *)
MayLead(r) == once[my[r]] = "new"
Lead(r) ==
    /\ lpc[r] = "wait"
    /\ MayLead(r)
    /\ once' = [once EXCEPT ![my[r]] = "running"]
    /\ LoadGoto(r, "recheck")
    /\ UNCHANGED <<errors, cached, loading, failed, healthy, my>>

(* Mutation of Closed: the early return does not close the channel. *)
NotClosed(g) == once
(* The deferred close(group.done), and the end of once.Do. *)
Closed(g) == [once EXCEPT ![g] = "done"]

(* Mutation of RecentlyFailed: no second look at the negative cache. *)
NotRechecked == FALSE
RecentlyFailed == errors = "fresh"
(* An error that a concurrent load has recorded meanwhile ends this load. *)
(* The early return leaves the group in manifestLoading.                  *)
RecheckFailed(r) ==
    /\ lpc[r] = "recheck"
    /\ RecentlyFailed
    /\ failed' = failed \cup {my[r]}
    /\ once' = Closed(my[r])
    /\ LoadGoto(r, "wait")
    /\ UNCHANGED <<errors, cached, loading, healthy, my>>

Recheck(r) ==
    /\ lpc[r] = "recheck"
    /\ ~RecentlyFailed
    /\ LoadGoto(r, "fetch")
    /\ UNCHANGED <<shared, healthy, my>>

(* GetObject with the leader's request context, then validation. *)
FetchSucceeds(r) ==
    /\ lpc[r] = "fetch"
    /\ healthy
    /\ LoadGoto(r, "store")
    /\ UNCHANGED <<shared, healthy, my>>

FetchFails(r) ==
    /\ lpc[r] = "fetch"
    /\ Cancel \/ ~healthy
    /\ failed' = failed \cup {my[r]}
    /\ LoadGoto(r, "store")
    /\ UNCHANGED <<errors, cached, loading, once, healthy, my>>

(* The negative cache remembers an error, the LRU a manifest. *)
Store(r) ==
    /\ lpc[r] = "store"
    /\ IF my[r] \in failed
       THEN errors' = "fresh" /\ UNCHANGED cached
       ELSE cached' = TRUE /\ UNCHANGED errors
    /\ LoadGoto(r, "drop")
    /\ UNCHANGED <<loading, once, failed, healthy, my>>

(* manifestLoading.Delete: the next miss starts a new group. *)
Drop(r) ==
    /\ lpc[r] = "drop"
    /\ loading' = NoGroup
    /\ LoadGoto(r, "close")
    /\ UNCHANGED <<errors, cached, once, failed, healthy, my>>

Close(r) ==
    /\ lpc[r] = "close"
    /\ once' = Closed(my[r])
    /\ LoadGoto(r, "wait")
    /\ UNCHANGED <<errors, cached, loading, failed, healthy, my>>

(* Mutation of Left: the group is still held by an answered request. *)
StillHeld(r) == my
Left(r) == [my EXCEPT ![r] = NoGroup]
(* <-group.done: everybody in the group takes its outcome. *)
LoadAnswer(r) ==
    /\ lpc[r] = "wait"
    /\ once[my[r]] = "done"
    /\ LoadGoto(r, IF my[r] \in failed THEN "refused" ELSE "served")
    /\ my' = Left(r)
    /\ UNCHANGED <<shared, healthy>>

LoadLeave(r) ==
    /\ lpc[r] \in {"served", "refused"}
    /\ LoadGoto(r, "idle")
    /\ UNCHANGED <<shared, healthy, my>>

-----------------------------------------------------------------------------
(* Time, memory and object storage *)

(* manifestLoadErrorTTL passes. *)
ErrorExpires ==
    /\ errors = "fresh"
    /\ errors' = "expired"
    /\ UNCHANGED <<cached, loading, once, failed, healthy, lpc, my>>

(* manifestL1TTL passes, or the LRU needs room. *)
Evict ==
    /\ cached
    /\ cached' = FALSE
    /\ UNCHANGED <<errors, loading, once, failed, healthy, lpc, my>>

StorageChanges ==
    /\ healthy' = ~healthy
    /\ UNCHANGED <<shared, lpc, my>>

-----------------------------------------------------------------------------
Proceed(r) ==
    \/ ReadErrors(r) \/ ForgetError(r) \/ ReadL1(r) \/ Join(r) \/ Lead(r)
    \/ RecheckFailed(r) \/ Recheck(r) \/ FetchSucceeds(r) \/ FetchFails(r)
    \/ Store(r) \/ Drop(r) \/ Close(r) \/ LoadAnswer(r) \/ LoadLeave(r)

LoadNext ==
    \/ \E r \in LoadRequest : LoadArrive(r) \/ Proceed(r)
    \/ ErrorExpires \/ Evict \/ StorageChanges

LoadSpec == LoadInit /\ [][LoadNext]_loadVars

(* Fairness: goroutines are scheduled, a fetch returns, and time passes. *)
LoadFairSpec ==
    /\ LoadSpec
    /\ \A r \in LoadRequest : WF_loadVars(Proceed(r))
    /\ WF_loadVars(ErrorExpires)
=============================================================================
