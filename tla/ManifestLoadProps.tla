-------------------------- MODULE ManifestLoadProps --------------------------
(* What the single flight and the negative cache of ManifestLoad promise. *)
EXTENDS ManifestLoad

(* At most one goroutine is inside the load at a time, whatever groups come *)
(* and go: loadManifestCoalesced never asks object storage twice at once.   *)
OneFetch ==
    \A r, q \in LoadRequest :
        lpc[r] \in {"recheck", "fetch", "store", "drop"} /\ lpc[q] \in {"recheck", "fetch", "store", "drop"}
            => r = q

(* While a failure is remembered as recent, object storage is not asked:  *)
(* the re-check inside the single flight closes the gap between a request *)
(* that saw no error and the load it then leads.                          *)
NoStampede == errors = "fresh" => \A r \in LoadRequest : lpc[r] \notin {"fetch", "store"}

(* Every request is answered: no goroutine waits for a group that is never *)
(* closed, on the early return of the load either.                         *)
AnswersEventually ==
    \A r \in LoadRequest : lpc[r] = "errors" ~> lpc[r] \in {"served", "refused"}

(* manifest.go:37 says that a failed load is remembered for a short time. *)
(* So once object storage works for good, requests are no longer refused. *)
Recovers ==
    <>[]healthy => \A r \in LoadRequest : <>[](lpc[r] # "refused")
=============================================================================
