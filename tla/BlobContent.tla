----------------------------- MODULE BlobContent -----------------------------
(* blob-server: what a request for ONE path of a site is served, once its   *)
(* deployment is known.  The path is resolved in the manifest of the        *)
(* deployment to a stored blob; resolutions, bodies and failures are kept   *)
(* in one LRU cache that all requests share.  Clients revalidate the copy   *)
(* they hold.  A blob is named by its content, whatever file has it: it is  *)
(* stored with the first deployment that needs it, and dated then.  Later   *)
(* deployments have greater numbers.                                        *)
EXTENDS Integers, SequencesExt

CONSTANTS
    Client,
    Deployment,  \* a set of numbers
    Content,     \* of files, a set of numbers too
    Candidates,  \* the names a path may resolve to, in order, the fallback last
    Image,       \* those of them that are images
    Manifests,   \* sets of entries <<name, variant>> that a deployment may have
    Files,       \* the contents that the files of a deployment may have
    Accepts,     \* sets of variants that a client may accept
    Size,        \* of a variant
    Capacity, MaxCacheSize,
    MaxRequests  \* bound

Variant == {"raw", "br", "gz", "webp"}
Name == ToSet(Candidates)

(* Only the path itself may be an image: the other candidates are pages.    *)
ASSUME ContentAssumption ==
    /\ Deployment \subseteq Nat \ {0} /\ Content \subseteq Nat \ {0}
    /\ Candidates \in Seq(STRING) /\ Candidates # <<>>
    /\ Image \subseteq Name
    /\ \A i \in DOMAIN Candidates : i # 1 => Candidates[i] \notin Image
    /\ Manifests \subseteq SUBSET (Name \X Variant)
    /\ Files \subseteq [Name -> Content]
    /\ Accepts \subseteq SUBSET (Variant \ {"raw"})
    /\ Size \in [Variant -> Nat]
    /\ Capacity \in Nat \ {0} /\ MaxCacheSize \in Nat /\ MaxRequests \in Nat

VARIABLES
    manifest, file,     \* of each deployment, fixed
    accepts,    \* of each client, fixed
    active,     \* the active deployment
    stored,     \* deployments whose blobs are in the bucket
    lru, currentBytes,  \* the cache, most recent first
    rpc, dep, res,      \* a request: its step, deployment and resolution
    asks,       \* it carries the validators of the client's copy
    held,       \* the client's copy and the encoding it came with
    status,     \* of the last answer that a client had
    requests

cache == <<lru, currentBytes>>
contentVars == <<manifest, file, accepts, active, stored, cache, rpc, dep, asks, res, held, status, requests>>

Nothing == [content |-> 0, variant |-> "raw"]
Blob == [content : Content, variant : Variant]
Encoding(blob) == IF blob.variant = "br" THEN "br" ELSE IF blob.variant = "gz" THEN "gz" ELSE ""
EncodingKey == {"webp", "br", "gz", "raw"}

(* A key of the cache, and what stands there: a blob with the encoding it   *)
(* is served with, its body or not, or Nothing for a cached 404.            *)
CacheKey == {"404"} \X Deployment \X {""} \cup {"path", "body"} \X Deployment \X EncodingKey
Item == [blob : Blob \cup {Nothing}, encoding : {"", "br", "gz"}, body : BOOLEAN]
Entry == [key : CacheKey, item : Item]
Absent == [blob |-> Nothing, encoding |-> "", body |-> FALSE]

ContentTypeOK ==
    /\ manifest \in [Deployment -> Manifests]
    /\ file \in [Deployment -> Files]
    /\ accepts \in [Client -> Accepts]
    /\ active \in Deployment /\ stored \subseteq Deployment
    /\ lru \in Seq(Entry)
    /\ currentBytes \in Nat
    /\ rpc \in [Client -> {"idle", "lookup", "path", "resolve", "body", "fetch"}]
    /\ dep \in [Client -> Deployment]
    /\ asks \in [Client -> BOOLEAN]
    /\ res \in [Client -> Blob \cup {Nothing}]
    /\ held \in [Client -> [blob : Blob \cup {Nothing}, encoding : {"", "br", "gz"}]]
    /\ status \in [Client -> {0, 200, 304, 404}]
    /\ requests \in 0..MaxRequests

ContentInit ==
    /\ manifest \in [Deployment -> Manifests]
    /\ file \in [Deployment -> Files]
    /\ accepts \in [Client -> Accepts]
    /\ active \in Deployment /\ stored = Deployment
    /\ lru = <<>> /\ currentBytes = 0
    /\ rpc = [c \in Client |-> "idle"]
    /\ dep = [c \in Client |-> active]
    /\ asks = [c \in Client |-> FALSE]
    /\ res = [c \in Client |-> Nothing]
    /\ held = [c \in Client |-> [blob |-> Nothing, encoding |-> ""]]
    /\ status = [c \in Client |-> 0]
    /\ requests = 0
-----------------------------------------------------------------------------
(* cache.go.  An entry takes the bytes of its body, if it has one.          *)
Weight(item) == IF item.body THEN Size[item.blob.variant] ELSE 0
Bytes(entries) == Cardinality(UNION {{i} \X (1..Weight(entries[i].item)) : i \in DOMAIN entries})
Hit(key) == \E i \in DOMAIN lru : lru[i].key = key
At(key) == CHOOSE i \in DOMAIN lru : lru[i].key = key
Cached(key) == lru[At(key)].item
Without(key) == IF Hit(key) THEN RemoveAt(lru, At(key)) ELSE lru

(* Mutation of Held: an entry that is replaced does not give its bytes back. *)
HeldForgotten(key) == 0

Held(key) == IF Hit(key) THEN Weight(Cached(key)) ELSE 0

(* The entry comes first, as the caller has filled it in.                   *)
LruFront(key, item) ==
    /\ lru' = <<[key |-> key, item |-> item]>> \o Without(key)
    /\ UNCHANGED currentBytes

LruGet(key) == LruFront(key, Cached(key))

(* Mutation of LruMiss: the bytes of what is removed are taken off twice.   *)
LruMissTwice(key) ==
    /\ lru' = Without(key)
    /\ currentBytes' = currentBytes - 2 * Held(key)

(* Nothing is there, or it has expired and is removed.                      *)
LruMiss(key) ==
    /\ lru' = Without(key)
    /\ currentBytes' = currentBytes - Held(key)

(* Set: the oldest entries go until there is room, or none is left.         *)
Fits(entries, bytes, size) ==
    \/ entries = <<>>
    \/ Len(entries) < Capacity /\ (MaxCacheSize = 0 \/ bytes + size <= MaxCacheSize)

LruSet(key, item) ==
    LET entry == [key |-> key, item |-> item]
        others == Without(key)
        size == Weight(item)
        after(n) == currentBytes - Held(key) - Bytes(SubSeq(others, n + 1, Len(others)))
        kept == CHOOSE n \in 0..Len(others) :
                    /\ Fits(SubSeq(others, 1, n), after(n), size)
                    /\ \A m \in (n + 1)..Len(others) : ~ Fits(SubSeq(others, 1, m), after(m), size)
    IN /\ lru' = <<entry>> \o SubSeq(others, 1, kept)
       /\ currentBytes' = after(kept) + size
-----------------------------------------------------------------------------
(* pickVariantMap and resolveBlob.                                          *)
Pick(d, name, accepted) ==
    LET has(v) == <<name, v>> \in manifest[d]
        best == IF name \in Image /\ "webp" \in accepted /\ has("webp") THEN "webp"
                ELSE IF "br" \in accepted /\ has("br") THEN "br"
                ELSE IF "gz" \in accepted /\ "br" \notin accepted /\ has("gz") THEN "gz"
                ELSE "raw"
    IN IF has(best) THEN [content |-> file[d][name], variant |-> best] ELSE Nothing

ResolvePath(d, accepted) ==
    LET found == {i \in DOMAIN Candidates : Pick(d, Candidates[i], accepted) # Nothing}
    IN IF found = {} THEN Nothing ELSE Pick(d, Candidates[Min(found)], accepted)

(* requestEncodingKey: of the path, not of the name it resolves to.         *)
KeyOf(accepted) ==
    IF Candidates[1] \in Image /\ "webp" \in accepted THEN "webp"
    ELSE IF "br" \in accepted THEN "br"
    ELSE IF "gz" \in accepted THEN "gz" ELSE "raw"

NegativeKey(c) == <<"404", dep[c], "">>
PathKey(c) == <<"path", dep[c], KeyOf(accepts[c])>>
(* Mutation of BodyKey: one body for all encodings.                         *)
BodyKeyShared(c) == <<"body", dep[c], "raw">>
BodyKey(c) == <<"body", dep[c], KeyOf(accepts[c])>>
-----------------------------------------------------------------------------
Goes(c, label) == rpc' = [rpc EXCEPT ![c] = label]

Reply(c, code) ==
    /\ Goes(c, "idle")
    /\ res' = [res EXCEPT ![c] = Nothing]
    /\ asks' = [asks EXCEPT ![c] = FALSE]
    /\ status' = [status EXCEPT ![c] = code]

NotFound(c) == Reply(c, 404) /\ UNCHANGED held
ReplyNotModified(c) == Reply(c, 304) /\ UNCHANGED held
Serve(c, blob, encoding) ==
    /\ Reply(c, 200)
    /\ held' = [held EXCEPT ![c] = [blob |-> blob, encoding |-> encoding]]

(* The deployment is the one that routing finds.                            *)
Ask(c) ==
    /\ rpc[c] = "idle" /\ requests < MaxRequests
    /\ requests' = requests + 1
    /\ dep' = [dep EXCEPT ![c] = active]
    /\ \E validates \in {FALSE, held[c].blob # Nothing} : asks' = [asks EXCEPT ![c] = validates]
    /\ status' = [status EXCEPT ![c] = 0]
    /\ Goes(c, "lookup")
    /\ UNCHANGED <<manifest, file, accepts, active, stored, cache, res, held>>

(* The two lookups of ServeHTTP.                                            *)
LookUp(c) ==
    /\ rpc[c] = "lookup"
    /\ \/ Hit(NegativeKey(c)) /\ LruGet(NegativeKey(c)) /\ NotFound(c)
       \/ LruMiss(NegativeKey(c)) /\ Goes(c, "path") /\ UNCHANGED <<asks, res, held, status>>
    /\ UNCHANGED <<manifest, file, accepts, active, stored, dep, requests>>

LookUpPath(c) ==
    /\ rpc[c] = "path"
    /\ \/ /\ Hit(PathKey(c)) /\ LruGet(PathKey(c))
          /\ res' = [res EXCEPT ![c] = Cached(PathKey(c)).blob]
          /\ Goes(c, "body")
       \/ LruMiss(PathKey(c)) /\ Goes(c, "resolve") /\ UNCHANGED res
    /\ UNCHANGED <<manifest, file, accepts, active, stored, dep, asks, held, status, requests>>

ResolveBlob(c) ==
    LET blob == ResolvePath(dep[c], accepts[c])
    IN /\ rpc[c] = "resolve"
       /\ IF blob = Nothing
          THEN LruSet(NegativeKey(c), Absent) /\ NotFound(c)
          ELSE /\ LruSet(PathKey(c), [blob |-> blob, encoding |-> Encoding(blob), body |-> FALSE])
               /\ res' = [res EXCEPT ![c] = blob]
               /\ Goes(c, "body") /\ UNCHANGED <<asks, held, status>>
       /\ UNCHANGED <<manifest, file, accepts, active, stored, dep, requests>>

(* storeBlobFromBuffer writes a blob only if it is not there: its date is   *)
(* that of the first deployment which has it.  (As if each of them had been *)
(* stored, in order, before the first purge.)                               *)
Has(d, blob) ==
    \E name \in Name : file[d][name] = blob.content /\ <<name, blob.variant>> \in manifest[d]
Date(blob) == Min({d \in Deployment : Has(d, blob)})

(* checkConditionalHeaders: the ETag, and then the date.                    *)
NotModified(c, blob) ==
    asks[c] /\ (held[c].blob = blob \/ Date(blob) <= Date(held[c].blob))

(* The first half of serveBlob.  An entry without an encoding is given that *)
(* of the request.                                                          *)
CheckBody(c) ==
    LET item == Cached(BodyKey(c))
        encoding == IF item.encoding = "" THEN Encoding(res[c]) ELSE item.encoding
        filled == [item EXCEPT !.encoding = encoding]
    IN /\ rpc[c] = "body"
       /\ \/ LruMiss(BodyKey(c)) /\ Goes(c, "fetch") /\ UNCHANGED <<asks, res, held, status>>
          \/ /\ Hit(BodyKey(c))
             /\ IF item.blob = Nothing
                THEN LruGet(BodyKey(c)) /\ NotFound(c)
                ELSE /\ LruFront(BodyKey(c), filled)
                     /\ IF NotModified(c, item.blob) THEN ReplyNotModified(c)
                        ELSE IF item.body THEN Serve(c, item.blob, encoding)
                        ELSE Goes(c, "fetch") /\ UNCHANGED <<asks, res, held, status>>
       /\ UNCHANGED <<manifest, file, accepts, active, stored, dep, requests>>

(* The second half: GetObject with the client's validators, of which the    *)
(* store looks at the ETag first.  What is too large is kept without body.  *)
GetObject(c) ==
    LET blob == res[c]
        kept == [blob |-> blob, encoding |-> Encoding(blob),
                 body |-> MaxCacheSize > 0 /\ Size[blob.variant] <= MaxCacheSize]
    IN /\ rpc[c] = "fetch"
       /\ IF ~ \E d \in stored : Has(d, blob)
          THEN LruSet(BodyKey(c), Absent) /\ NotFound(c)
          ELSE IF asks[c] /\ held[c].blob = blob
          THEN /\ (Hit(BodyKey(c)) /\ LruGet(BodyKey(c))) \/ LruMiss(BodyKey(c))
               /\ ReplyNotModified(c)
          ELSE LruSet(BodyKey(c), kept) /\ Serve(c, blob, Encoding(blob))
       /\ UNCHANGED <<manifest, file, accepts, active, stored, dep, requests>>

(* A call fails and is not remembered.                                      *)
RequestFails(c) ==
    /\ rpc[c] \in {"resolve", "fetch"}
    /\ Goes(c, "idle")
    /\ res' = [res EXCEPT ![c] = Nothing]
    /\ UNCHANGED <<manifest, file, accepts, active, stored, cache, dep, asks, held, status, requests>>
-----------------------------------------------------------------------------
(* A deploy or a rollback, and the purge of a deployment.                   *)
Activates(d) ==
    /\ d \in stored /\ d # active
    /\ active' = d
    /\ UNCHANGED <<manifest, file, accepts, stored, cache, rpc, dep, asks, res, held, status, requests>>

Purges(d) ==
    /\ d \in stored /\ d # active
    /\ stored' = stored \ {d}
    /\ UNCHANGED <<manifest, file, accepts, active, cache, rpc, dep, asks, res, held, status, requests>>

ContentNext ==
    \/ \E c \in Client :
          \/ Ask(c) \/ LookUp(c) \/ LookUpPath(c) \/ ResolveBlob(c)
          \/ CheckBody(c) \/ GetObject(c) \/ RequestFails(c)
    \/ \E d \in Deployment : Activates(d) \/ Purges(d)

ContentSpec == ContentInit /\ [][ContentNext]_contentVars
=============================================================================
