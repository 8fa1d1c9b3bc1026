-------------------------------- MODULE JwtKeys --------------------------------
(***************************************************************************)
(* The signing keys of the Cognito user pool and the cache that            *)
(* JWTDecoder keeps of them.  Requests read the cache under a read lock;   *)
(* one that does not find its key, or finds the cache too old, takes the   *)
(* write lock, looks again, and fetches the key set over HTTP with the     *)
(* lock held.  The answer it gets is from some moment during the fetch.    *)
(* The fetch has no timeout (the fetcher is built without a client and     *)
(* called with the background context): it may last for as long as the     *)
(* provider takes, or for ever, and every other request waits for it.      *)
(*                                                                         *)
(* Bounds: Request requests at a time, time up to MaxTime, CacheTTL in the *)
(* same units.                                                             *)
(***************************************************************************)
EXTENDS Naturals

CONSTANTS Key, Request, NoRequest, NoKey, CacheTTL, MaxTime

ASSUME JwtKeysAssumption ==
  /\ CacheTTL \in Nat \ {0} /\ MaxTime \in Nat
  /\ NoRequest \notin Request

VARIABLES
  clock,
  published,   \* the keys in the provider's key set
  withdrawn,   \* history: when a key left the set
  keyCache,
  lastFetch,   \* when the last fetch ended
  asked,       \* history: when it began
  lock,        \* the request that holds d.mu for writing
  request      \* the requests: the key of the token and how far it is

keysVars == <<clock, published, withdrawn, keyCache, lastFetch, asked, lock, request>>

NoToken == [step |-> "none", kid |-> NoKey, answer |-> {}, since |-> 0]

KeysInit ==
  /\ clock = CacheTTL
  /\ published \in (SUBSET Key) \ {{}}
  /\ withdrawn = [k \in Key |-> 0]
  /\ keyCache = {}
  /\ lastFetch = 0
  /\ asked = 0
  /\ lock = NoRequest
  /\ request = [r \in Request |-> NoToken]

\* Time passes, also while a request fetches.
Tick ==
  /\ clock < MaxTime
  /\ clock' = clock + 1
  /\ UNCHANGED <<published, withdrawn, keyCache, lastFetch, asked, lock, request>>

\* The provider rotates: a new key set, never an empty one.
Rotate(S) ==
  /\ S # {} /\ S # published
  /\ published' = S
  /\ withdrawn' = [k \in Key |-> IF k \in published \ S THEN clock ELSE withdrawn[k]]
  /\ UNCHANGED <<clock, keyCache, lastFetch, asked, lock, request>>

\* A request with a token that the key kid signs, before or after its withdrawal.
Arrive(r, kid) ==
  /\ request[r].step = "none"
  /\ request' = [request EXCEPT ![r].step = "read", ![r].kid = kid]
  /\ UNCHANGED <<clock, published, withdrawn, keyCache, lastFetch, asked, lock>>

\* Variant: the age of the cache is not looked at.
CachedForEver(kid) == kid \in keyCache

Cached(kid) == kid \in keyCache /\ clock - lastFetch < CacheTTL

\* getKey: the read lock is not granted while another request fetches.
GetKey(r) ==
  /\ request[r].step = "read"
  /\ lock = NoRequest
  /\ request' = [request EXCEPT ![r].step = IF Cached(request[r].kid) THEN "accepted" ELSE "wait"]
  /\ UNCHANGED <<clock, published, withdrawn, keyCache, lastFetch, asked, lock>>

\* fetchAndCacheKey: the write lock, and the cache once more.
Lock(r) ==
  /\ request[r].step = "wait"
  /\ lock = NoRequest
  /\ IF Cached(request[r].kid)
       THEN /\ request' = [request EXCEPT ![r].step = "accepted"]
            /\ UNCHANGED lock
       ELSE /\ request' = [request EXCEPT ![r].step = "fetch", ![r].since = clock]
            /\ lock' = r
  /\ UNCHANGED <<clock, published, withdrawn, keyCache, lastFetch, asked>>

\* The provider answers with the key set of this moment.
FetchAnswered(r) ==
  /\ request[r].step = "fetch"
  /\ request' = [request EXCEPT ![r].step = "fetched", ![r].answer = published]
  /\ UNCHANGED <<clock, published, withdrawn, keyCache, lastFetch, asked, lock>>

\* An error leaves the cache as it was.
FetchFails(r) ==
  /\ request[r].step = "fetch"
  /\ request' = [request EXCEPT ![r].step = "refused", ![r].since = 0]
  /\ lock' = NoRequest
  /\ UNCHANGED <<clock, published, withdrawn, keyCache, lastFetch, asked>>

\* Variant: the new keys are added to those of the last fetch.
CacheKeysAdded(r) ==
  /\ request[r].step = "fetched"
  /\ keyCache' = keyCache \cup request[r].answer
  /\ lastFetch' = clock
  /\ asked' = request[r].since
  /\ lock' = NoRequest
  /\ request' = [request EXCEPT
       ![r] = [NoToken EXCEPT !.kid = request[r].kid,
                              !.step = IF request[r].kid \in keyCache' THEN "accepted" ELSE "refused"]]
  /\ UNCHANGED <<clock, published, withdrawn>>

\* The cache is replaced whole, also when the key is not among the new ones.
CacheKeys(r) ==
  /\ request[r].step = "fetched"
  /\ keyCache' = request[r].answer
  /\ lastFetch' = clock
  /\ asked' = request[r].since
  /\ lock' = NoRequest
  /\ request' = [request EXCEPT
       ![r] = [NoToken EXCEPT !.kid = request[r].kid,
                              !.step = IF request[r].kid \in keyCache' THEN "accepted" ELSE "refused"]]
  /\ UNCHANGED <<clock, published, withdrawn>>

\* The handler goes on, or answers 401.
Answer(r) ==
  /\ request[r].step \in {"accepted", "refused"}
  /\ request' = [request EXCEPT ![r] = NoToken]
  /\ UNCHANGED <<clock, published, withdrawn, keyCache, lastFetch, asked, lock>>

KeysNext ==
  \/ Tick
  \/ \E S \in SUBSET Key : Rotate(S)
  \/ \E r \in Request :
       \/ \E kid \in Key : Arrive(r, kid)
       \/ GetKey(r)
       \/ Lock(r)
       \/ FetchAnswered(r)
       \/ FetchFails(r)
       \/ CacheKeys(r)
       \/ Answer(r)

KeysSpec == KeysInit /\ [][KeysNext]_keysVars

-----------------------------------------------------------------------------
(* Properties *)

\* Accepted now, and not before.
Accepts(r) == request[r].step # "accepted" /\ request'[r].step = "accepted"

\* A token is accepted only if its key is published, or was until less than
\* CacheTTL ago and the time that the fetch which brought the key took, however
\* the requests and the rotations interleave.
KeysAreFresh ==
  [][\A r \in Request : Accepts(r) =>
       LET kid == request[r].kid IN
         kid \in published \/ clock < withdrawn[kid] + CacheTTL + (lastFetch' - asked')]_keysVars

\* The write lock is with the one request that fetches.
OneFetch ==
  \A r \in Request : request[r].step \in {"fetch", "fetched"} <=> lock = r

=============================================================================
