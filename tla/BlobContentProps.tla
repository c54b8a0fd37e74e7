--------------------------- MODULE BlobContentProps ---------------------------
(* What the cache of the blob server must not change.                       *)
EXTENDS BlobContent

(* A 200 is what resolving the path afresh in the request's deployment      *)
(* gives this client, in an encoding it accepts: no entry of another        *)
(* deployment or of a client that accepts something else is served to it.   *)
(* Only clients that accept WebP share what they are served for an image.   *)
Shared(c) == KeyOf(accepts[c]) = "webp"
Alike(c) == {c} \cup {e \in Client : Shared(c) /\ Shared(e)}
Options(d, c) == {ResolvePath(d, accepts[e]) : e \in Alike(c)}
ServedAsResolved ==
    \A c \in Client : status[c] = 200 =>
        /\ held[c].blob \in Options(dep[c], c)
        /\ held[c].encoding = Encoding(held[c].blob) \/ Shared(c)

(* currentBytes is what the bodies take, whatever is replaced, evicted or   *)
(* expires; the cache stays within its limits and has one entry for a key.  *)
CacheBounded ==
    /\ currentBytes = Bytes(lru) /\ (MaxCacheSize > 0 => currentBytes <= MaxCacheSize)
    /\ Len(lru) <= Capacity
    /\ \A i, j \in DOMAIN lru : lru[i].key = lru[j].key => i = j

(* docs/architecture.md:520, of rollbacks: cache invalidation ensures       *)
(* clients get new content.  What a client holds after an answer, a 304     *)
(* included, is what its request's deployment resolves the path to.         *)
ClientsGetActive ==
    \A c \in Client : status[c] \in {200, 304} => held[c].blob \in Options(dep[c], c)
=============================================================================
