-------------------------- MODULE ControlPlaneProofs --------------------------
(***************************************************************************)
(* Proofs about Permissions, JwtKeys, Accounts and Licenses, for every     *)
(* number of users, companies and calls, of keys and requests, of          *)
(* workspaces and subscriptions, and for every time to live and timeout.   *)
(*                                                                         *)
(* Permissions: the rows that a transaction will not delete although they  *)
(* are its users' on its companies were committed after its DELETE         *)
(* (SeenOrMissed).                                                         *)
(*                                                                         *)
(* JwtKeys: a key set that was fetched, and the cache, hold no key that    *)
(* was withdrawn before its fetch began (AnswerIsFresh, CacheIsFresh).     *)
(*                                                                         *)
(* Accounts: a call that nobody overtook, and whose look-up did not fail,  *)
(* is going to write an e-mail that no user has (KnowsEmail).              *)
(*                                                                         *)
(* Licenses: a call that nobody overtook holds the licence of its row and  *)
(* knows the newest subscription of its customer (HoldsLicense,            *)
(* KnowsCustomer).                                                         *)
(***************************************************************************)
EXTENDS Permissions, JwtKeys, Accounts, Licenses, SequenceTheorems,
        WellFoundedInduction, TLAPS

-----------------------------------------------------------------------------
(* Permissions *)

TxField == {"step", "users", "companies", "roles", "doomed", "missed"}

TxShape == DOMAIN tx = Rewrite /\ \A c \in Rewrite : DOMAIN tx[c] = TxField

SeenOrMissed ==
  \A c \in Rewrite :
    /\ \A p \in tx[c].doomed : p.user \in tx[c].users /\ p.company \in tx[c].companies
    /\ tx[c].step = "insert" => Targets(c) \subseteq tx[c].doomed \cup tx[c].missed

PermissionsIInv == TxShape /\ SeenOrMissed

LEMMA PermissionsInitIInv == PermissionsInit => PermissionsIInv
BY DEF PermissionsInit, NoTx, PermissionsIInv, TxShape, TxField, SeenOrMissed

LEMMA OneTxStep ==
  ASSUME PermissionsIInv, NEW c \in Rewrite, permission' \subseteq permission,
         \A d \in Rewrite : d # c => tx'[d] = tx[d], TxShape',
         \A p \in tx'[c].doomed : p.user \in tx'[c].users /\ p.company \in tx'[c].companies,
         tx'[c].step = "insert" => Targets(c)' \subseteq tx'[c].doomed \cup tx'[c].missed
  PROVE  PermissionsIInv'
<1>1. ASSUME NEW d \in Rewrite, d # c, tx[d].step = "insert"
      PROVE  Targets(d)' \subseteq tx[d].doomed \cup tx[d].missed
  <2>1. Targets(d)' \subseteq Targets(d)
    BY <1>1 DEF Targets
  <2> QED
    BY <1>1, <2>1 DEF PermissionsIInv, SeenOrMissed
<1> QED
  BY <1>1 DEF PermissionsIInv, SeenOrMissed

LEMMA SetPermissionsStep ==
  ASSUME PermissionsIInv, NEW c \in Rewrite, NEW users, NEW companies, NEW roles,
         SetPermissions(c, users, companies, roles)
  PROVE  PermissionsIInv'
<1>1. /\ \A d \in Rewrite : d # c => tx'[d] = tx[d]
      /\ TxShape' /\ tx'[c].step = "delete" /\ tx'[c].doomed = {}
  BY DEF SetPermissions, PermissionsIInv, TxShape, TxField, NoTx
<1> QED
  BY <1>1, OneTxStep DEF SetPermissions

LEMMA DeletePermissionsStep ==
  ASSUME PermissionsIInv, NEW c \in Rewrite, DeletePermissions(c) PROVE PermissionsIInv'
<1>1. /\ \A d \in Rewrite : d # c => tx'[d] = tx[d]
      /\ TxShape' /\ tx'[c].doomed = Targets(c)
      /\ tx'[c].users = tx[c].users /\ tx'[c].companies = tx[c].companies
  BY DEF DeletePermissions, PermissionsIInv, TxShape, TxField
<1>2. Targets(c)' = Targets(c) /\ permission' = permission
  BY <1>1 DEF DeletePermissions, Targets
<1>3. \A p \in tx'[c].doomed : p.user \in tx'[c].users /\ p.company \in tx'[c].companies
  BY <1>1 DEF Targets
<1> QED
  BY <1>1, <1>2, <1>3, OneTxStep

LEMMA CommitPermissionsStep ==
  ASSUME PermissionsIInv, NEW c \in Rewrite, CommitPermissions(c) PROVE PermissionsIInv'
<1> DEFINE added == Inserted(c)
<1>1. permission' = (permission \ tx[c].doomed) \cup added
  BY DEF CommitPermissions
<1>2. /\ TxShape'
      /\ tx'[c].step = "none" /\ tx'[c].doomed = {}
      /\ \A d \in Rewrite : d # c /\ tx[d].step # "insert" => tx'[d] = tx[d]
      /\ \A d \in Rewrite : d # c /\ tx[d].step = "insert" =>
           /\ tx'[d].step = "insert" /\ tx'[d].doomed = tx[d].doomed
           /\ tx'[d].users = tx[d].users /\ tx'[d].companies = tx[d].companies
           /\ tx'[d].missed = tx[d].missed \cup added
  BY DEF CommitPermissions, PermissionsIInv, TxShape, TxField, NoTx
<1> HIDE DEF added
<1>3. ASSUME NEW d \in Rewrite, d # c, tx[d].step = "insert"
      PROVE  Targets(d)' \subseteq tx'[d].doomed \cup tx'[d].missed
  <2>1. Targets(d)' \subseteq Targets(d) \cup added
    BY <1>1, <1>2, <1>3 DEF Targets
  <2> QED
    BY <1>2, <1>3, <2>1 DEF PermissionsIInv, SeenOrMissed
<1>4. ASSUME NEW d \in Rewrite
      PROVE  \A p \in tx'[d].doomed : p.user \in tx'[d].users /\ p.company \in tx'[d].companies
  BY <1>2 DEF PermissionsIInv, SeenOrMissed
<1> QED
  BY <1>2, <1>3, <1>4 DEF PermissionsIInv, SeenOrMissed

LEMMA RollbackStep ==
  ASSUME PermissionsIInv, NEW c \in Rewrite, Rollback(c) PROVE PermissionsIInv'
<1>1. /\ \A d \in Rewrite : d # c => tx'[d] = tx[d]
      /\ TxShape' /\ tx'[c].step = "none" /\ tx'[c].doomed = {}
  BY DEF Rollback, PermissionsIInv, TxShape, TxField, NoTx
<1> QED
  BY <1>1, OneTxStep DEF Rollback

\* Nothing is added, and no transaction moves.
LEMMA FewerPermissionsStep ==
  ASSUME PermissionsIInv, permission' \subseteq permission, UNCHANGED tx PROVE PermissionsIInv'
<1>1. \A c \in Rewrite : Targets(c)' \subseteq Targets(c)
  BY DEF Targets
<1> QED
  BY <1>1 DEF PermissionsIInv, TxShape, SeenOrMissed

\* The invariant holds throughout.
THEOREM PermissionsInvariance == PermissionsSpec => []PermissionsIInv
<1>1. PermissionsIInv /\ [PermissionsNext]_permissionsVars => PermissionsIInv'
  <2> SUFFICES ASSUME PermissionsIInv, [PermissionsNext]_permissionsVars
               PROVE  PermissionsIInv'
    OBVIOUS
  <2>1. CASE \E c \in Rewrite : \E users \in SUBSET Person, companies \in SUBSET Firm,
                roles \in SUBSET AskedRoles : SetPermissions(c, users, companies, roles)
    BY <2>1, SetPermissionsStep
  <2>2. CASE \E c \in Rewrite : DeletePermissions(c) \/ CommitPermissions(c) \/ Rollback(c)
    BY <2>2, DeletePermissionsStep, CommitPermissionsStep, RollbackStep
  <2>3. CASE (\E f \in Firm : DeleteFirm(f)) \/ UNCHANGED permissionsVars
    <3>1. permission' \subseteq permission /\ UNCHANGED tx
      BY <2>3 DEF DeleteFirm, permissionsVars
    <3> QED
      BY <3>1, FewerPermissionsStep
  <2> QED
    BY <2>1, <2>2, <2>3 DEF PermissionsNext
<1> QED
  BY PermissionsInitIInv, <1>1, PTL DEF PermissionsSpec

\* When a call commits, its users have on its companies what it asked for and nothing
\* else, but for what others committed after its DELETE (RewriteIsExact).
THEOREM RewriteIsExactHolds == PermissionsSpec => RewriteIsExact
<1> DEFINE Exact ==
      \A c \in Rewrite :
        tx[c].step = "insert" /\ permission' # permission /\ tx'[c] = NoTx =>
          {p \in permission' : p.user \in tx[c].users /\ p.company \in tx[c].companies}
            \subseteq Inserted(c) \cup tx[c].missed
<1>1. PermissionsIInv /\ [PermissionsNext]_permissionsVars => [Exact]_permissionsVars
  <2> SUFFICES ASSUME PermissionsIInv, PermissionsNext, NEW c \in Rewrite,
                      tx[c].step = "insert", permission' # permission, tx'[c] = NoTx
               PROVE  {p \in permission' : /\ p.user \in tx[c].users
                                           /\ p.company \in tx[c].companies}
                        \subseteq Inserted(c) \cup tx[c].missed
    BY DEF permissionsVars
  <2>1. NoTx.step = "none"
    BY DEF NoTx
  <2>2. \E d \in Rewrite : CommitPermissions(d)
    BY <2>1 DEF PermissionsNext, SetPermissions, DeletePermissions, Rollback, DeleteFirm
  <2>3. CommitPermissions(c)
    <3>1. PICK d \in Rewrite : CommitPermissions(d)
      BY <2>2
    <3>2. ASSUME d # c PROVE FALSE
      <4>1. tx'[c].step = "insert"
        BY <3>1, <3>2 DEF CommitPermissions, PermissionsIInv, TxShape, TxField
      <4> QED
        BY <2>1, <4>1
    <3> QED
      BY <3>1, <3>2
  <2>4. permission' = (permission \ tx[c].doomed) \cup Inserted(c)
    BY <2>3 DEF CommitPermissions
  <2>5. Targets(c) \subseteq tx[c].doomed \cup tx[c].missed
    BY DEF PermissionsIInv, SeenOrMissed
  <2> QED
    BY <2>4, <2>5 DEF Targets
<1> QED
  BY PermissionsInvariance, <1>1, PTL DEF PermissionsSpec, RewriteIsExact

\* An operator is refused only once a call that does not make him one has committed
\* (RoleOutlivesRewrite).
THEOREM RoleOutlivesRewriteHolds == PermissionsSpec => RoleOutlivesRewrite
<1> DEFINE Taken(u, f) ==
      \E c \in Rewrite : /\ tx[c].step = "insert" /\ tx'[c] = NoTx
                         /\ u \in tx[c].users /\ f \in tx[c].companies
                         /\ "OPERATOR" \notin tx[c].roles
           Outlives ==
      \A u \in Person, f \in firms' :
        HasOperator(u, f) /\ ~HasOperator(u, f)' => Taken(u, f)
<1>1. PermissionsIInv /\ [PermissionsNext]_permissionsVars => [Outlives]_permissionsVars
  <2> SUFFICES ASSUME PermissionsIInv, PermissionsNext, NEW u \in Person, NEW f \in firms',
                      HasOperator(u, f), ~HasOperator(u, f)'
               PROVE  Taken(u, f)
    BY DEF permissionsVars
  <2>1. PICK p \in permission : p.user = u /\ p.company = f /\ p.role = "OPERATOR"
    BY DEF HasOperator
  <2>2. p \notin permission'
    BY <2>1 DEF HasOperator
  <2>3. ASSUME NEW g \in Firm, DeleteFirm(g) PROVE FALSE
    BY <2>1, <2>2, <2>3 DEF DeleteFirm
  <2>4. \E c \in Rewrite : CommitPermissions(c)
    BY <2>2, <2>3 DEF PermissionsNext, SetPermissions, DeletePermissions, Rollback
  <2>5. PICK c \in Rewrite : CommitPermissions(c)
    BY <2>4
  <2>6. /\ tx[c].step = "insert" /\ tx'[c] = NoTx
        /\ permission' = (permission \ tx[c].doomed) \cup Inserted(c)
    BY <2>5 DEF CommitPermissions
  <2>7. u \in tx[c].users /\ f \in tx[c].companies
    BY <2>1, <2>2, <2>6 DEF PermissionsIInv, SeenOrMissed
  <2>8. ASSUME "OPERATOR" \in tx[c].roles PROVE FALSE
    <3> DEFINE new == [user |-> u, company |-> f, role |-> "OPERATOR", by |-> c]
    <3>1. new \in Inserted(c)
      BY <2>7, <2>8 DEF Inserted
    <3>2. new.user = u /\ new.company = f /\ new.role = "OPERATOR"
      OBVIOUS
    <3> HIDE DEF new
    <3> QED
      BY <3>1, <3>2, <2>6 DEF HasOperator
  <2> QED
    BY <2>6, <2>7, <2>8
<1> QED
  BY PermissionsInvariance, <1>1, PTL DEF PermissionsSpec, RoleOutlivesRewrite

-----------------------------------------------------------------------------
(* JwtKeys *)

RequestStep == {"none", "read", "wait", "fetch", "fetched", "accepted", "refused"}

KeysTypeOK ==
  /\ clock \in Nat /\ lastFetch \in Nat /\ lastFetch <= clock
  /\ asked \in Nat /\ asked <= lastFetch
  /\ published \subseteq Key /\ keyCache \subseteq Key
  /\ withdrawn \in [Key -> Nat]
  /\ request \in [Request -> [step : RequestStep, kid : Key \cup {NoKey},
                              answer : SUBSET Key, since : Nat]]
  /\ \A r \in Request : request[r].step # "none" => request[r].kid \in Key

\* A fetch that is on its way began in the past.
FetchInTime ==
  \A r \in Request : request[r].step \in {"fetch", "fetched"} => request[r].since <= clock

AnswerIsFresh ==
  \A r \in Request : request[r].step = "fetched" =>
    \A k \in request[r].answer : k \in published \/ request[r].since <= withdrawn[k]

CacheIsFresh ==
  \A k \in keyCache : k \in published \/ asked <= withdrawn[k]

KeysIInv == KeysTypeOK /\ OneFetch /\ FetchInTime /\ AnswerIsFresh /\ CacheIsFresh

LEMMA KeysInitIInv == KeysInit => KeysIInv
<1> SUFFICES ASSUME KeysInit PROVE KeysIInv
  OBVIOUS
<1>1. NoToken \in [step : RequestStep, kid : Key \cup {NoKey}, answer : SUBSET Key, since : Nat]
  BY DEF NoToken, RequestStep
<1>2. \A r \in Request : request[r].step = "none"
  BY DEF KeysInit, NoToken
<1>3. KeysTypeOK
  BY <1>1, <1>2, JwtKeysAssumption DEF KeysInit, KeysTypeOK
<1>4. OneFetch /\ FetchInTime /\ AnswerIsFresh /\ CacheIsFresh
  BY <1>2, JwtKeysAssumption DEF KeysInit, OneFetch, FetchInTime, AnswerIsFresh, CacheIsFresh
<1> QED
  BY <1>3, <1>4 DEF KeysIInv

LEMMA TickStep == ASSUME KeysIInv, Tick PROVE KeysIInv'
<1>1. KeysTypeOK' /\ OneFetch' /\ AnswerIsFresh' /\ CacheIsFresh'
  BY DEF Tick, KeysIInv, KeysTypeOK, OneFetch, AnswerIsFresh, CacheIsFresh
<1>2. FetchInTime'
  BY JwtKeysAssumption DEF Tick, KeysIInv, KeysTypeOK, FetchInTime
<1> QED
  BY <1>1, <1>2 DEF KeysIInv

LEMMA RotateStep == ASSUME KeysIInv, NEW S \in SUBSET Key, Rotate(S) PROVE KeysIInv'
<1>1. KeysTypeOK' /\ OneFetch' /\ FetchInTime'
  BY DEF Rotate, KeysIInv, KeysTypeOK, OneFetch, FetchInTime
<1>2. \A k \in Key : withdrawn'[k] = IF k \in published \ S THEN clock ELSE withdrawn[k]
  BY DEF Rotate
<1>3. AnswerIsFresh'
  BY <1>2 DEF Rotate, KeysIInv, KeysTypeOK, AnswerIsFresh, FetchInTime
<1>4. CacheIsFresh'
  BY <1>2, JwtKeysAssumption DEF Rotate, KeysIInv, KeysTypeOK, CacheIsFresh
<1> QED
  BY <1>1, <1>3, <1>4 DEF KeysIInv

LEMMA ArriveStep ==
  ASSUME KeysIInv, NEW r \in Request, NEW kid \in Key, Arrive(r, kid) PROVE KeysIInv'
<1> DEFINE next == [request[r] EXCEPT !.step = "read", !.kid = kid]
<1>1. /\ next \in [step : RequestStep, kid : Key \cup {NoKey}, answer : SUBSET Key, since : Nat]
      /\ next.step \in {"read"} /\ next.kid \in Key
  BY DEF Arrive, KeysIInv, KeysTypeOK, RequestStep
<1>2. /\ request[r].step \notin {"fetch", "fetched"}
      /\ request' = [request EXCEPT ![r] = next]
      /\ UNCHANGED <<clock, published, withdrawn, keyCache, lastFetch, asked, lock>>
  BY DEF Arrive, KeysIInv, KeysTypeOK
<1> HIDE DEF next
<1>3. \A q \in Request : request'[q] = IF q = r THEN next ELSE request[q]
  BY <1>2 DEF KeysIInv, KeysTypeOK
<1>4. KeysTypeOK'
  BY <1>1, <1>2, <1>3 DEF KeysIInv, KeysTypeOK
<1>5. OneFetch'
  BY <1>1, <1>2, <1>3 DEF KeysIInv, OneFetch
<1>6. FetchInTime' /\ AnswerIsFresh' /\ CacheIsFresh'
  BY <1>1, <1>2, <1>3 DEF KeysIInv, FetchInTime, AnswerIsFresh, CacheIsFresh
<1> QED
  BY <1>4, <1>5, <1>6 DEF KeysIInv

LEMMA GetKeyStep ==
  ASSUME KeysIInv, NEW r \in Request, GetKey(r) PROVE KeysIInv'
<1> DEFINE next == [request[r] EXCEPT
                     !.step = IF Cached(request[r].kid) THEN "accepted" ELSE "wait"]
<1>1. /\ next \in [step : RequestStep, kid : Key \cup {NoKey}, answer : SUBSET Key, since : Nat]
      /\ next.step \in {"accepted", "wait"} /\ next.kid \in Key
  BY DEF GetKey, KeysIInv, KeysTypeOK, RequestStep
<1>2. /\ request[r].step \notin {"fetch", "fetched"}
      /\ request' = [request EXCEPT ![r] = next]
      /\ UNCHANGED <<clock, published, withdrawn, keyCache, lastFetch, asked, lock>>
  BY DEF GetKey, KeysIInv, KeysTypeOK
<1> HIDE DEF next
<1>3. \A q \in Request : request'[q] = IF q = r THEN next ELSE request[q]
  BY <1>2 DEF KeysIInv, KeysTypeOK
<1>4. KeysTypeOK'
  BY <1>1, <1>2, <1>3 DEF KeysIInv, KeysTypeOK
<1>5. OneFetch'
  BY <1>1, <1>2, <1>3 DEF KeysIInv, OneFetch
<1>6. FetchInTime' /\ AnswerIsFresh' /\ CacheIsFresh'
  BY <1>1, <1>2, <1>3 DEF KeysIInv, FetchInTime, AnswerIsFresh, CacheIsFresh
<1> QED
  BY <1>4, <1>5, <1>6 DEF KeysIInv

LEMMA LockStep == ASSUME KeysIInv, NEW r \in Request, Lock(r) PROVE KeysIInv'
<1>1. CASE Cached(request[r].kid)
  BY <1>1, JwtKeysAssumption DEF Lock, KeysIInv, KeysTypeOK, RequestStep, OneFetch, FetchInTime,
    AnswerIsFresh, CacheIsFresh
<1>2. CASE ~Cached(request[r].kid)
  BY <1>2, JwtKeysAssumption DEF Lock, KeysIInv, KeysTypeOK, RequestStep, OneFetch, FetchInTime,
    AnswerIsFresh, CacheIsFresh
<1> QED
  BY <1>1, <1>2

LEMMA FetchAnsweredStep ==
  ASSUME KeysIInv, NEW r \in Request, FetchAnswered(r) PROVE KeysIInv'
BY JwtKeysAssumption DEF FetchAnswered, KeysIInv, KeysTypeOK, RequestStep, OneFetch, FetchInTime,
  AnswerIsFresh, CacheIsFresh

LEMMA FetchFailsStep == ASSUME KeysIInv, NEW r \in Request, FetchFails(r) PROVE KeysIInv'
BY JwtKeysAssumption DEF FetchFails, KeysIInv, KeysTypeOK, RequestStep, OneFetch, FetchInTime,
  AnswerIsFresh, CacheIsFresh

LEMMA CacheKeysStep == ASSUME KeysIInv, NEW r \in Request, CacheKeys(r) PROVE KeysIInv'
<1> DEFINE next == [NoToken EXCEPT !.kid = request[r].kid,
                                   !.step = IF request[r].kid \in keyCache' THEN "accepted"
                                            ELSE "refused"]
<1>1. /\ next \in [step : RequestStep, kid : Key \cup {NoKey}, answer : SUBSET Key, since : Nat]
      /\ next.step \in {"accepted", "refused"} /\ next.kid = request[r].kid
  BY DEF KeysIInv, KeysTypeOK, NoToken, RequestStep
<1>2. /\ request[r].step = "fetched" /\ keyCache' = request[r].answer
      /\ lastFetch' = clock /\ asked' = request[r].since /\ lock' = NoRequest
      /\ request' = [request EXCEPT ![r] = next]
      /\ UNCHANGED <<clock, published, withdrawn>>
  BY DEF CacheKeys
<1> HIDE DEF next
<1>3. KeysTypeOK'
  BY <1>1, <1>2 DEF KeysIInv, KeysTypeOK, FetchInTime
<1>4. \A q \in Request : request'[q] = IF q = r THEN next ELSE request[q]
  BY <1>2 DEF KeysIInv, KeysTypeOK
<1>5. OneFetch'
  BY <1>1, <1>2, <1>4, JwtKeysAssumption DEF KeysIInv, OneFetch
<1>6. FetchInTime' /\ AnswerIsFresh'
  BY <1>1, <1>2, <1>4 DEF KeysIInv, FetchInTime, AnswerIsFresh
<1>7. CacheIsFresh'
  BY <1>2, JwtKeysAssumption
     DEF KeysIInv, KeysTypeOK, FetchInTime, AnswerIsFresh, CacheIsFresh
<1> QED
  BY <1>3, <1>5, <1>6, <1>7 DEF KeysIInv

LEMMA AnswerStep == ASSUME KeysIInv, NEW r \in Request, Answer(r) PROVE KeysIInv'
BY JwtKeysAssumption DEF Answer, KeysIInv, KeysTypeOK, RequestStep, NoToken, OneFetch,
  FetchInTime, AnswerIsFresh, CacheIsFresh

\* The invariant holds throughout.
THEOREM KeysInvariance == KeysSpec => []KeysIInv
<1>1. KeysIInv /\ [KeysNext]_keysVars => KeysIInv'
  <2> SUFFICES ASSUME KeysIInv, [KeysNext]_keysVars PROVE KeysIInv'
    OBVIOUS
  <2>1. CASE KeysNext
    BY <2>1, TickStep, RotateStep, ArriveStep, GetKeyStep, LockStep, FetchAnsweredStep,
       FetchFailsStep, CacheKeysStep, AnswerStep DEF KeysNext
  <2>2. CASE UNCHANGED keysVars
    BY <2>2 DEF keysVars, KeysIInv, KeysTypeOK, OneFetch, FetchInTime, AnswerIsFresh,
                CacheIsFresh
  <2> QED
    BY <2>1, <2>2
<1> QED
  BY KeysInitIInv, <1>1, PTL DEF KeysSpec

\* The write lock is with the one request that fetches (OneFetch).
THEOREM OneFetchHolds == KeysSpec => []OneFetch
<1>1. KeysIInv => OneFetch
  BY DEF KeysIInv
<1> QED
  BY KeysInvariance, <1>1, PTL

\* A token is accepted only while its key is published, or was until less than CacheTTL
\* and the time that the last fetch took ago (KeysAreFresh), for every CacheTTL and every
\* time that a fetch may take.
THEOREM KeysAreFreshHolds == KeysSpec => KeysAreFresh
<1> DEFINE Fresh ==
      \A r \in Request : Accepts(r) =>
        LET kid == request[r].kid IN
          kid \in published \/ clock < withdrawn[kid] + CacheTTL + (lastFetch' - asked')
<1>1. KeysIInv /\ [KeysNext]_keysVars => [Fresh]_keysVars
  <2> SUFFICES ASSUME KeysIInv, KeysNext, NEW r \in Request, Accepts(r),
                      request[r].kid \notin published
               PROVE  clock < withdrawn[request[r].kid] + CacheTTL + (lastFetch' - asked')
    BY DEF keysVars
  <2> DEFINE kid == request[r].kid
  <2>1. request' # request /\ request'[r] # request[r] /\ request'[r].step = "accepted"
    BY DEF Accepts
  <2>2. ASSUME Cached(kid), kid \in Key, UNCHANGED <<lastFetch, asked>>
      PROVE  clock < withdrawn[kid] + CacheTTL + (lastFetch' - asked')
    <3>1. asked <= withdrawn[kid] /\ clock - lastFetch < CacheTTL
      BY <2>2 DEF KeysIInv, CacheIsFresh, Cached
    <3>2. /\ clock \in Nat /\ lastFetch \in Nat /\ withdrawn[kid] \in Nat /\ asked \in Nat
          /\ lastFetch' = lastFetch /\ asked' = asked
      BY <2>2 DEF KeysIInv, KeysTypeOK
    <3> HIDE DEF kid
    <3> QED
      BY <3>1, <3>2, JwtKeysAssumption
  <2>3. CASE GetKey(r) \/ Lock(r)
    <3>1. kid \in Key
      BY <2>3 DEF GetKey, Lock, KeysIInv, KeysTypeOK
    <3>2. Cached(kid) /\ UNCHANGED <<lastFetch, asked>>
      BY <2>1, <2>3 DEF GetKey, Lock, KeysIInv, KeysTypeOK
    <3> QED
      BY <2>2, <3>1, <3>2
  <2>4. CASE CacheKeys(r)
    <3>1. request[r].step = "fetched" /\ kid \in request[r].answer
      BY <2>1, <2>4 DEF CacheKeys, KeysIInv, KeysTypeOK, NoToken
    <3>2. /\ request[r].since <= withdrawn[kid] /\ kid \in Key
          /\ lastFetch' = clock /\ asked' = request[r].since
      BY <2>4, <3>1 DEF CacheKeys, KeysIInv, KeysTypeOK, AnswerIsFresh
    <3>3. clock \in Nat /\ request[r].since \in Nat /\ withdrawn[kid] \in Nat
      BY <3>2 DEF KeysIInv, KeysTypeOK
    <3> HIDE DEF kid
    <3> QED
      BY <3>2, <3>3, JwtKeysAssumption DEF kid
  <2>5. GetKey(r) \/ Lock(r) \/ CacheKeys(r)
    <3>1. ~Tick /\ \A S \in SUBSET Key : ~Rotate(S)
      BY <2>1 DEF Tick, Rotate
    <3>2. PICK q \in Request :
            \/ \E k \in Key : Arrive(q, k)
            \/ FetchAnswered(q) \/ FetchFails(q) \/ Answer(q)
            \/ GetKey(q) \/ Lock(q) \/ CacheKeys(q)
      BY <3>1 DEF KeysNext
    <3>3. q = r
      BY <2>1, <3>2 DEF Arrive, FetchAnswered, FetchFails, Answer, GetKey, Lock, CacheKeys,
                        KeysIInv, KeysTypeOK
    <3>4. ~(\E k \in Key : Arrive(r, k)) /\ ~FetchAnswered(r) /\ ~FetchFails(r)
      BY <2>1 DEF Arrive, FetchAnswered, FetchFails, KeysIInv, KeysTypeOK
    <3>5. ~Answer(r)
      BY <2>1 DEF Answer, KeysIInv, KeysTypeOK, NoToken
    <3> QED
      BY <3>2, <3>3, <3>4, <3>5
  <2> QED
    BY <2>3, <2>4, <2>5
<1> QED
  BY KeysInvariance, <1>1, PTL DEF KeysSpec, KeysAreFresh

-----------------------------------------------------------------------------
(* Accounts *)

CallRow == [step : CallStep, email : Email \cup {NoEmail}, old : Email \cup {NoEmail},
            sub : 0 .. MaxSub, password : Password, target : UserId \cup {NoUser},
            blind : BOOLEAN]

\* A call between the look-up of an e-mail and its write.
LookedUp == {"identify", "insert", "invite", "insertInvited", "target", "update"}

Identified == {"insert", "insertInvited", "linkEmail", "linkUpdate"}

\* A call that nobody overtook, and that could look, writes an e-mail that no user has.
KnowsEmail(c) ==
  /\ call[c].step \in LookedUp =>
       /\ call[c].email \in Email
       /\ c \notin overtaken /\ ~call[c].blind => WithEmail(call[c].email) = {}
  /\ call[c].step \in Identified => call[c].sub \in 1 .. MaxSub

AccountsIInv ==
  /\ DOMAIN user \subseteq UserId /\ user \in [DOMAIN user -> UserRow]
  /\ call \in [Call -> CallRow]
  /\ lastSub \in 0 .. MaxSub
  /\ pool \subseteq Identity
  /\ \A c \in Call : KnowsEmail(c)

SameEmails == DOMAIN user' = DOMAIN user /\ \A u \in DOMAIN user : user'[u].email = user[u].email

LEMMA IdleTyped == Idle \in CallRow /\ Idle.step = "idle"
BY AccountsAssumption DEF Idle, CallRow, CallStep, Password

LEMMA AboutTyped ==
  ASSUME NEW e \in Email, NEW step \in CallStep
  PROVE  About(e, step) \in CallRow /\ About(e, step).step = step /\ About(e, step).email = e
         /\ About(e, step).blind = FALSE
BY IdleTyped DEF About, CallRow, Idle

\* Other calls than those that finish or have just looked are as they were, or overtaken.
LEMMA CallsStep ==
  ASSUME AccountsIInv, call' \in [Call -> CallRow],
         DOMAIN user' \subseteq UserId, user' \in [DOMAIN user' -> UserRow],
         lastSub' \in 0 .. MaxSub, pool' \subseteq Identity,
         \A d \in Call :
           \/ call'[d].step \notin LookedUp \cup Identified
           \/ /\ call'[d] = call[d] /\ (d \in overtaken => d \in overtaken')
              /\ call[d].step = "idle" \/ d \in overtaken' \/ SameEmails
           \/ KnowsEmail(d)'
  PROVE  AccountsIInv'
<1>1. ASSUME NEW d \in Call PROVE KnowsEmail(d)'
  <2>1. KnowsEmail(d)
    BY DEF AccountsIInv
  <2>2. CASE call'[d].step \notin LookedUp \cup Identified
    BY <2>2 DEF KnowsEmail
  <2>3. CASE /\ call'[d] = call[d] /\ (d \in overtaken => d \in overtaken')
             /\ call[d].step = "idle" \/ d \in overtaken' \/ SameEmails
    <3>1. CASE call[d].step = "idle"
      BY <2>3, <3>1 DEF KnowsEmail, LookedUp, Identified
    <3>2. CASE d \in overtaken'
      BY <2>1, <2>3, <3>2 DEF KnowsEmail
    <3>3. CASE SameEmails
      BY <2>1, <2>3, <3>3 DEF KnowsEmail, SameEmails, WithEmail
    <3> QED
      BY <2>3, <3>1, <3>2, <3>3
  <2> QED
    BY <2>2, <2>3
<1> QED
  BY <1>1 DEF AccountsIInv

\* A step of one call that changes no e-mail.
LEMMA OneCallStep ==
  ASSUME AccountsIInv, NEW c \in Call, NEW new \in CallRow, call' = [call EXCEPT ![c] = new],
         user' \in [DOMAIN user' -> UserRow], SameEmails,
         lastSub' \in 0 .. MaxSub, pool' \subseteq Identity,
         \A d \in Call : d # c => (d \in overtaken => d \in overtaken'),
         new.step \in LookedUp =>
           /\ new.email \in Email
           /\ c \notin overtaken' /\ ~new.blind => WithEmail(new.email) = {},
         new.step \in Identified => new.sub \in 1 .. MaxSub
  PROVE  AccountsIInv'
<1>1. /\ call' \in [Call -> CallRow] /\ call'[c] = new
      /\ \A d \in Call : d # c => call'[d] = call[d]
  BY DEF AccountsIInv
<1>2. KnowsEmail(c)'
  BY <1>1 DEF KnowsEmail, SameEmails, WithEmail
<1> QED
  BY <1>1, <1>2, CallsStep DEF AccountsIInv, SameEmails

LEMMA ReturnTyped ==
  ASSUME AccountsIInv, NEW c \in Call, Return(c), UNCHANGED <<user, pool, lastSub>>
  PROVE  AccountsIInv'
<1>1. SameEmails /\ user' \in [DOMAIN user' -> UserRow]
  BY DEF AccountsIInv, SameEmails
<1>2. /\ call' = [call EXCEPT ![c] = Idle]
      /\ \A d \in Call : d # c => (d \in overtaken => d \in overtaken')
  BY DEF Return
<1> QED
  BY <1>1, <1>2, IdleTyped, OneCallStep DEF AccountsIInv, LookedUp, Identified

\* A call begins, once it has looked for the e-mail that it is going to write.
LEMMA StartStep ==
  ASSUME AccountsIInv, NEW c \in Call,
         \/ \E a \in Address : CreateUser(c, a)
         \/ \E e \in Email : SuperInvite(c, e)
         \/ \E old, new \in Address : SetEmail(c, old, new)
         \/ \E i \in pool : LinkToDB(c, i)
  PROVE  AccountsIInv'
<1>1. ASSUME NEW begun \in CallRow, Start(c, begun),
             begun.step \in LookedUp =>
               begun.email \in Email /\ (~begun.blind => WithEmail(begun.email) = {}),
             begun.step \in Identified => begun.sub \in 1 .. MaxSub
      PROVE  AccountsIInv'
  <2>1. /\ call' = [call EXCEPT ![c] = begun] /\ UNCHANGED <<user, pool, lastSub, overtaken>>
    BY <1>1 DEF Start
  <2>2. SameEmails /\ user' \in [DOMAIN user' -> UserRow]
    BY <2>1 DEF AccountsIInv, SameEmails
  <2> QED
    BY <1>1, <2>1, <2>2, OneCallStep DEF AccountsIInv
<1>2. ASSUME NEW a \in Address, CreateUser(c, a) PROVE AccountsIInv'
  <2>1. <<a, "normal">> \in Email
    BY DEF Email
  <2>2. WithEmail(<<a, "normal">>) = {}
    BY <1>2 DEF CreateUser, WithAddress, WithEmail
  <2> DEFINE about == About(<<a, "normal">>, "identify")
  <2>3. Start(c, about)
    BY <1>2 DEF CreateUser
  <2>4. about \in CallRow /\ about.step = "identify" /\ about.email = <<a, "normal">>
    <3>1. "identify" \in CallStep
      BY DEF CallStep
    <3> QED
      BY <2>1, <3>1, AboutTyped
  <2> HIDE DEF about
  <2> QED
    BY <1>1, <2>1, <2>2, <2>3, <2>4 DEF Identified
<1>3. ASSUME NEW e \in Email, SuperInvite(c, e) PROVE AccountsIInv'
  <2> DEFINE about == About(e, "invite")
             begun == [about EXCEPT !.blind = WithEmail(e) # {}]
  <2>1. about \in CallRow /\ about.step = "invite" /\ about.email = e
    BY AboutTyped DEF CallStep
  <2>2. Start(c, begun)
    BY <1>3 DEF SuperInvite
  <2> HIDE DEF about
  <2>3. /\ begun \in CallRow /\ begun.step = "invite" /\ begun.email = e
        /\ begun.blind = (WithEmail(e) # {})
    BY <2>1 DEF CallRow
  <2> HIDE DEF begun
  <2> QED
    BY <1>1, <2>2, <2>3 DEF Identified
<1>4. ASSUME NEW old \in Address, NEW new \in Address, SetEmail(c, old, new) PROVE AccountsIInv'
  <2> DEFINE about == About(<<new, "normal">>, "target")
             found == WithEmail(<<new, "normal">>)
             begun == [about EXCEPT !.old = <<old, "normal">>, !.blind = found # {}]
  <2>1. <<new, "normal">> \in Email /\ <<old, "normal">> \in Email
    BY DEF Email
  <2>2. about \in CallRow /\ about.step = "target" /\ about.email = <<new, "normal">>
    <3>1. "target" \in CallStep
      BY DEF CallStep
    <3> QED
      BY <2>1, <3>1, AboutTyped
  <2>4. Start(c, begun)
    BY <1>4 DEF SetEmail
  <2> HIDE DEF about
  <2>3. /\ begun \in CallRow /\ begun.step = "target" /\ begun.email = <<new, "normal">>
        /\ begun.blind = (found # {})
    BY <2>1, <2>2 DEF CallRow
  <2> HIDE DEF begun
  <2> QED
    BY <1>1, <2>1, <2>3, <2>4 DEF Identified
<1>5. ASSUME NEW i \in pool, LinkToDB(c, i) PROVE AccountsIInv'
  <2> DEFINE about == About(<<i.address, "normal">>, "linkEmail")
             begun == [about EXCEPT !.sub = i.sub]
  <2>1. i.address \in Address /\ i.sub \in 1 .. MaxSub
    BY DEF AccountsIInv, Identity
  <2>2. about \in CallRow /\ about.step = "linkEmail"
    BY <2>1, AboutTyped DEF CallStep, Email
  <2> HIDE DEF about
  <2>3. begun \in CallRow /\ begun.step = "linkEmail" /\ begun.sub = i.sub
    BY <2>1, <2>2 DEF CallRow
  <2>4. Start(c, begun)
    BY <1>5 DEF LinkToDB, about
  <2> HIDE DEF begun
  <2> QED
    BY <1>1, <2>1, <2>3, <2>4 DEF LookedUp
<1> QED
  BY <1>2, <1>3, <1>4, <1>5

LEMMA FreshSubTyped ==
  ASSUME AccountsIInv, FreshSub
  PROVE  lastSub' \in 1 .. MaxSub /\ lastSub' \in 0 .. MaxSub
BY AccountsAssumption DEF AccountsIInv, FreshSub

\* The identity provider answers: a call goes on with a new identity.
LEMMA IdentityStep ==
  ASSUME AccountsIInv, NEW c \in Call, ResolveCreateUserIdentity(c) \/ AdminCreateUser(c)
  PROVE  AccountsIInv'
<1>1. /\ call[c] \in CallRow /\ lastSub' \in 1 .. MaxSub /\ lastSub' \in 0 .. MaxSub
      /\ call[c].step \in LookedUp /\ KnowsEmail(c) /\ UNCHANGED overtaken
  BY FreshSubTyped DEF ResolveCreateUserIdentity, AdminCreateUser, AccountsIInv, LookedUp
<1>2. PICK new \in CallRow :
        /\ call' = [call EXCEPT ![c] = new] /\ new.sub = lastSub' /\ new.email = call[c].email
        /\ new.blind = call[c].blind
  <2>1. CASE call' = [call EXCEPT ![c].step = "insert", ![c].sub = lastSub', ![c].password = "own"]
    <3> DEFINE new == [call[c] EXCEPT !.step = "insert", !.sub = lastSub', !.password = "own"]
    <3>1. /\ new \in CallRow /\ new.sub = lastSub' /\ new.email = call[c].email
          /\ new.blind = call[c].blind
      BY <1>1 DEF CallRow, CallStep, Password
    <3>2. call' = [call EXCEPT ![c] = new]
      BY <1>1, <2>1 DEF AccountsIInv
    <3> QED
      BY <3>1, <3>2
  <2>2. ASSUME NEW step \in {"insert", "insertInvited"},
               call' = [call EXCEPT ![c].step = step, ![c].sub = lastSub']
        PROVE  \E new \in CallRow :
                 /\ call' = [call EXCEPT ![c] = new] /\ new.sub = lastSub'
                 /\ new.email = call[c].email /\ new.blind = call[c].blind
    <3> DEFINE new == [call[c] EXCEPT !.step = step, !.sub = lastSub']
    <3>1. /\ new \in CallRow /\ new.sub = lastSub' /\ new.email = call[c].email
          /\ new.blind = call[c].blind
      BY <1>1 DEF CallRow, CallStep
    <3>2. call' = [call EXCEPT ![c] = new]
      BY <1>1, <2>2 DEF AccountsIInv
    <3> QED
      BY <3>1, <3>2
  <2> QED
    BY <2>1, <2>2 DEF ResolveCreateUserIdentity, AdminCreateUser
<1>3. SameEmails /\ user' \in [DOMAIN user' -> UserRow]
  <2>1. CASE UNCHANGED user
    BY <2>1 DEF SameEmails, AccountsIInv
  <2>2. CASE user' = [u \in DOMAIN user |->
                        IF u \in WithAddress(call[c].email)
                          THEN [user[u] EXCEPT !.sub = lastSub', !.password = "temporary"]
                          ELSE user[u]]
    <3>1. ASSUME NEW row \in UserRow
          PROVE  /\ [row EXCEPT !.sub = lastSub', !.password = "temporary"] \in UserRow
                 /\ [row EXCEPT !.sub = lastSub', !.password = "temporary"].email = row.email
      BY <1>1 DEF UserRow, Password
    <3>2. DOMAIN user' = DOMAIN user
      BY <2>2
    <3>3. \A u \in DOMAIN user : user[u] \in UserRow
      BY DEF AccountsIInv
    <3>4. \A u \in DOMAIN user : user'[u] \in UserRow /\ user'[u].email = user[u].email
      BY <2>2, <3>1, <3>3
    <3>5. user' = [u \in DOMAIN user' |-> user'[u]]
      BY <2>2, <3>2
    <3> QED
      BY <3>2, <3>4, <3>5 DEF SameEmails
  <2> QED
    BY <2>1, <2>2 DEF ResolveCreateUserIdentity, AdminCreateUser
<1>4. pool' \subseteq Identity
  <2>1. ASSUME NEW password \in Password
        PROVE  [address |-> call[c].email[1], sub |-> lastSub', password |-> password] \in Identity
    BY <1>1 DEF KnowsEmail, Email, Identity
  <2> QED
    BY <2>1 DEF ResolveCreateUserIdentity, AdminCreateUser, AccountsIInv, Password
<1> QED
  BY <1>1, <1>2, <1>3, <1>4, OneCallStep DEF KnowsEmail

\* The statements that write an e-mail overtake every other call.
LEMMA InsertUserStep ==
  ASSUME AccountsIInv, NEW c \in Call, NEW u \in UserId, InsertUser(c, u)
  PROVE  AccountsIInv'
<1> DEFINE row == [email |-> call[c].email, sub |-> call[c].sub, password |-> call[c].password]
<1>1. /\ call[c] \in CallRow /\ KnowsEmail(c) /\ call[c].step \in {"insert", "insertInvited"}
      /\ UNCHANGED <<pool, lastSub>>
  BY DEF InsertUser, AccountsIInv
<1>2. row \in UserRow
  BY <1>1 DEF KnowsEmail, LookedUp, Identified, UserRow, CallRow
<1>3. user' = [v \in DOMAIN user \cup {u} |-> IF v = u THEN row ELSE user[v]]
  BY DEF InsertUser
<1> HIDE DEF row
<1>4. DOMAIN user' \subseteq UserId /\ user' \in [DOMAIN user' -> UserRow]
  BY <1>2, <1>3 DEF AccountsIInv
<1>5. PICK new \in CallRow : call' = [call EXCEPT ![c] = new] /\ new.step \in {"workspace", "idle"}
  <2> DEFINE new == [Idle EXCEPT !.step = "workspace", !.target = u]
  <2>1. new \in CallRow /\ new.step = "workspace"
    BY IdleTyped DEF CallRow, CallStep
  <2>2. call' = [call EXCEPT ![c] = new] \/ call' = [call EXCEPT ![c] = Idle]
    BY DEF InsertUser
  <2> HIDE DEF new
  <2> QED
    BY <2>1, <2>2, IdleTyped
<1>6. /\ call' \in [Call -> CallRow] /\ call'[c] = new
      /\ \A d \in Call : d # c => call'[d] = call[d]
  BY <1>5 DEF AccountsIInv
<1>7. \A d \in Call : d # c => /\ d \in overtaken => d \in overtaken'
                               /\ call[d].step = "idle" \/ d \in overtaken'
  BY DEF InsertUser, Overtake
<1> QED
  BY <1>1, <1>4, <1>5, <1>6, <1>7, CallsStep DEF AccountsIInv, LookedUp, Identified

\* One column of one row, if there is such a row.
LEMMA RowUpdated ==
  ASSUME AccountsIInv, NEW u
  PROVE  /\ \A e \in Email : [user EXCEPT ![u].email = e] \in [DOMAIN user -> UserRow]
         /\ \A s \in 1 .. MaxSub :
              /\ [user EXCEPT ![u].sub = s] \in [DOMAIN user -> UserRow]
              /\ \A v \in DOMAIN user : [user EXCEPT ![u].sub = s][v].email = user[v].email
<1>1. ASSUME NEW e \in Email PROVE [user EXCEPT ![u].email = e] \in [DOMAIN user -> UserRow]
  <2>1. CASE u \in DOMAIN user
    <3> DEFINE row == [user[u] EXCEPT !.email = e]
    <3>1. row \in UserRow
      BY <2>1 DEF AccountsIInv, UserRow
    <3>2. [user EXCEPT ![u].email = e] = [user EXCEPT ![u] = row]
      OBVIOUS
    <3> HIDE DEF row
    <3> QED
      BY <3>1, <3>2 DEF AccountsIInv
  <2>2. CASE u \notin DOMAIN user
    <3>1. [user EXCEPT ![u].email = e] = user
      BY <2>2 DEF AccountsIInv
    <3> QED
      BY <3>1 DEF AccountsIInv
  <2> QED
    BY <2>1, <2>2
<1>2. ASSUME NEW s \in 1 .. MaxSub
      PROVE  /\ [user EXCEPT ![u].sub = s] \in [DOMAIN user -> UserRow]
             /\ \A v \in DOMAIN user : [user EXCEPT ![u].sub = s][v].email = user[v].email
  <2>1. CASE u \in DOMAIN user
    <3> DEFINE row == [user[u] EXCEPT !.sub = s]
    <3>1. row \in UserRow /\ row.email = user[u].email
      BY <2>1 DEF AccountsIInv, UserRow
    <3>2. [user EXCEPT ![u].sub = s] = [user EXCEPT ![u] = row]
      OBVIOUS
    <3> HIDE DEF row
    <3> QED
      BY <3>1, <3>2 DEF AccountsIInv
  <2>2. CASE u \notin DOMAIN user
    <3>1. [user EXCEPT ![u].sub = s] = user
      BY <2>2 DEF AccountsIInv
    <3> QED
      BY <3>1 DEF AccountsIInv
  <2> QED
    BY <2>1, <2>2
<1> QED
  BY <1>1, <1>2

LEMMA UpdateEmailStep ==
  ASSUME AccountsIInv,
         (\E c \in Call : UpdateEmail(c)) \/ \E u \in DOMAIN user, e \in Email : UpdateUser(u, e)
  PROVE  AccountsIInv'
<1>1. ASSUME NEW c \in Call, UpdateEmail(c) PROVE AccountsIInv'
  <2>1. /\ call[c].email \in Email /\ user' = [user EXCEPT ![call[c].target].email = call[c].email]
        /\ UNCHANGED <<pool, lastSub>> /\ call' = [call EXCEPT ![c] = Idle]
    BY <1>1 DEF UpdateEmail, AccountsIInv, KnowsEmail, LookedUp
  <2>2. user' \in [DOMAIN user -> UserRow]
    BY <2>1, RowUpdated
  <2>3. \A d \in Call : d # c => /\ d \in overtaken => d \in overtaken'
                                 /\ call[d].step = "idle" \/ d \in overtaken'
    BY <1>1 DEF UpdateEmail
  <2>4. /\ call' \in [Call -> CallRow] /\ call'[c] = Idle
        /\ \A d \in Call : d # c => call'[d] = call[d]
    BY <2>1, IdleTyped DEF AccountsIInv
  <2> QED
    BY <2>1, <2>2, <2>3, <2>4, IdleTyped, CallsStep DEF AccountsIInv, LookedUp, Identified
<1>2. ASSUME NEW u \in DOMAIN user, NEW e \in Email, UpdateUser(u, e) PROVE AccountsIInv'
  <2>1. user' = [user EXCEPT ![u].email = e] /\ UNCHANGED <<pool, lastSub, call>>
    BY <1>2 DEF UpdateUser
  <2>2. user' \in [DOMAIN user -> UserRow]
    BY <2>1, RowUpdated
  <2>3. \A d \in Call : (d \in overtaken => d \in overtaken')
                        /\ (call[d].step = "idle" \/ d \in overtaken')
    BY <1>2 DEF UpdateUser
  <2> QED
    BY <2>1, <2>2, <2>3, CallsStep DEF AccountsIInv
<1> QED
  BY <1>1, <1>2

\* A call finds the row it is going to write, and the link of an identity is written.
LEMMA TargetStep ==
  ASSUME AccountsIInv, NEW c \in Call, SetEmailTarget(c) \/ LinkByEmail(c) \/ LinkUpdate(c)
  PROVE  AccountsIInv'
<1>1. /\ call[c] \in CallRow /\ KnowsEmail(c) /\ UNCHANGED <<pool, lastSub>>
      /\ user \in [DOMAIN user -> UserRow]
  BY DEF SetEmailTarget, LinkByEmail, LinkUpdate, AccountsIInv
<1>2. CASE Return(c) /\ UNCHANGED user
  BY <1>1, <1>2, ReturnTyped
<1>3. ASSUME SetEmailTarget(c), ~Return(c) PROVE AccountsIInv'
  <2>1. PICK u \in DOMAIN user :
          call' = [call EXCEPT ![c].step = "update", ![c].target = u, ![c].old = NoEmail]
    BY <1>3 DEF SetEmailTarget, WithEmail
  <2>2. call[c].step = "target" /\ UNCHANGED <<user, overtaken>>
    BY <1>3 DEF SetEmailTarget
  <2> DEFINE new == [call[c] EXCEPT !.step = "update", !.target = u, !.old = NoEmail]
  <2>3. new \in CallRow /\ new.step = "update" /\ new.email = call[c].email
        /\ new.blind = call[c].blind
    BY <1>1 DEF AccountsIInv, CallRow, CallStep
  <2>4. call' = [call EXCEPT ![c] = new]
    BY <1>1, <2>1 DEF AccountsIInv
  <2> HIDE DEF new
  <2> QED
    BY <1>1, <2>2, <2>3, <2>4, OneCallStep DEF KnowsEmail, LookedUp, Identified, SameEmails, AccountsIInv
<1>4. ASSUME LinkByEmail(c), ~Return(c) PROVE AccountsIInv'
  <2>1. PICK u \in DOMAIN user :
          call' = [call EXCEPT ![c].step = "linkUpdate", ![c].target = u, ![c].email = NoEmail]
    BY <1>4 DEF LinkByEmail, WithEmail
  <2>2. call[c].step = "linkEmail" /\ UNCHANGED <<user, overtaken>>
    BY <1>4 DEF LinkByEmail
  <2> DEFINE new == [call[c] EXCEPT !.step = "linkUpdate", !.target = u, !.email = NoEmail]
  <2>3. new \in CallRow /\ new.step = "linkUpdate" /\ new.sub = call[c].sub
    BY <1>1 DEF AccountsIInv, CallRow, CallStep
  <2>4. call' = [call EXCEPT ![c] = new]
    BY <1>1, <2>1 DEF AccountsIInv
  <2> HIDE DEF new
  <2> QED
    BY <1>1, <2>2, <2>3, <2>4, OneCallStep DEF KnowsEmail, LookedUp, Identified, SameEmails, AccountsIInv
<1>5. ASSUME LinkUpdate(c) PROVE AccountsIInv'
  <2>1. /\ call' = [call EXCEPT ![c] = Idle] /\ call[c].sub \in 1 .. MaxSub
        /\ \A d \in Call : d # c => (d \in overtaken => d \in overtaken')
    BY <1>1, <1>5 DEF LinkUpdate, Return, KnowsEmail, Identified
  <2>2. SameEmails /\ user' \in [DOMAIN user' -> UserRow]
    BY <1>1, <1>5, <2>1, RowUpdated DEF LinkUpdate, SameEmails
  <2> QED
    BY <1>1, <2>1, <2>2, IdleTyped, OneCallStep DEF AccountsIInv, LookedUp, Identified
<1> QED
  BY <1>2, <1>3, <1>4, <1>5 DEF SetEmailTarget, LinkByEmail

\* Passwords and identities: no call and no e-mail changes.
LEMMA PasswordStep ==
  ASSUME AccountsIInv,
         \/ \E a \in Address : FederatedSignIn(a) \/ ConfirmForgot(a)
         \/ \E i \in pool : AuthChallenge(i)
         \/ \E s \in 1 .. MaxSub : ChangePassword(s)
  PROVE  AccountsIInv'
<1>1. UNCHANGED <<call, overtaken>>
  BY DEF FederatedSignIn, ConfirmForgot, AuthChallenge, ChangePassword
<1>2. lastSub' \in 0 .. MaxSub
  BY FreshSubTyped DEF FederatedSignIn, ConfirmForgot, AuthChallenge, ChangePassword, AccountsIInv
<1>3. pool' \subseteq Identity
  <2>1. \A i \in pool : [i EXCEPT !.password = "own"] \in Identity
    BY DEF AccountsIInv, Identity, Password
  <2>2. ASSUME NEW a \in Address, FederatedSignIn(a) PROVE pool' \subseteq Identity
    <3>1. [address |-> a, sub |-> lastSub', password |-> "none"] \in Identity
      BY <2>2, FreshSubTyped DEF FederatedSignIn, Identity, Password
    <3> QED
      BY <2>2, <3>1 DEF FederatedSignIn, AccountsIInv
  <2>3. ASSUME NEW i \in pool, pool' = (pool \ {i}) \cup {[i EXCEPT !.password = "own"]}
        PROVE  pool' \subseteq Identity
    BY <2>1, <2>3 DEF AccountsIInv
  <2>4. ASSUME NEW s \in 1 .. MaxSub,
               pool' = {IF i.sub = s THEN [i EXCEPT !.password = "own"] ELSE i : i \in pool}
        PROVE  pool' \subseteq Identity
    BY <2>1, <2>4 DEF AccountsIInv
  <2>5. CASE UNCHANGED pool
    BY <2>5 DEF AccountsIInv
  <2> QED
    BY <2>2, <2>3, <2>4, <2>5 DEF ConfirmForgot, AuthChallenge, ChangePassword, InPool
<1>4. SameEmails /\ user' \in [DOMAIN user' -> UserRow]
  <2>1. \A u \in DOMAIN user : /\ [user[u] EXCEPT !.password = "own"] \in UserRow
                               /\ [user[u] EXCEPT !.password = "own"].email = user[u].email
    BY DEF AccountsIInv, UserRow, Password
  <2>2. ASSUME NEW S, user' = [u \in DOMAIN user |->
                                 IF u \in S THEN [user[u] EXCEPT !.password = "own"] ELSE user[u]]
        PROVE  SameEmails /\ user' \in [DOMAIN user' -> UserRow]
    <3>1. DOMAIN user' = DOMAIN user
      BY <2>2
    <3>2. \A u \in DOMAIN user : user'[u] \in UserRow /\ user'[u].email = user[u].email
      BY <2>1, <2>2 DEF AccountsIInv
    <3>3. user' = [u \in DOMAIN user' |-> user'[u]]
      BY <2>2, <3>1
    <3> QED
      BY <3>1, <3>2, <3>3 DEF SameEmails
  <2>3. CASE UNCHANGED user
    BY <2>3 DEF SameEmails, AccountsIInv
  <2> QED
    BY <2>2, <2>3 DEF FederatedSignIn, ConfirmForgot, AuthChallenge, ChangePassword
<1> QED
  BY <1>1, <1>2, <1>3, <1>4, CallsStep DEF AccountsIInv, SameEmails

\* What a call looked up before it writes an e-mail is still so, unless it was overtaken.
LEMMA AccountsInvariance == AccountsSpec => []AccountsIInv
<1>1. AccountsInit => AccountsIInv
  <2> SUFFICES ASSUME AccountsInit PROVE AccountsIInv
    OBVIOUS
  <2>1. user = [u \in {} |-> {}] /\ DOMAIN user = {}
    BY DEF AccountsInit
  <2>2. user \in [DOMAIN user -> UserRow]
    BY <2>1
  <2>3. /\ call = [c \in Call |-> Idle] /\ lastSub = 0 /\ pool = {}
        /\ lastSub \in 0 .. MaxSub
    BY AccountsAssumption DEF AccountsInit
  <2> QED
    BY <2>1, <2>2, <2>3, IdleTyped DEF AccountsIInv, KnowsEmail, LookedUp, Identified
<1>2. AccountsIInv /\ [AccountsNext]_accountsVars => AccountsIInv'
  <2> SUFFICES ASSUME AccountsIInv, [AccountsNext]_accountsVars PROVE AccountsIInv'
    OBVIOUS
  <2>1. ASSUME NEW c \in Call, SignUpRefused(c) \/ InsertRefused(c) \/ CreateDefaultWorkspace(c)
                                 \/ StatementFails(c) \/ AdminCreateUserRefused(c)
        PROVE  AccountsIInv'
    BY <2>1, ReturnTyped DEF SignUpRefused, InsertRefused, CreateDefaultWorkspace, StatementFails,
                             AdminCreateUserRefused
  <2>2. ASSUME NEW c \in Call, AccountsStep(c) PROVE AccountsIInv'
    BY <2>1, <2>2, StartStep, IdentityStep, InsertUserStep, UpdateEmailStep, TargetStep
       DEF AccountsStep
  <2>3. CASE UNCHANGED accountsVars
    BY <2>3 DEF accountsVars, AccountsIInv, KnowsEmail, WithEmail
  <2> QED
    BY <2>2, <2>3, UpdateEmailStep, PasswordStep DEF AccountsNext
<1> QED
  BY <1>1, <1>2, PTL DEF AccountsSpec

\* Who changes the e-mails, the passwords and the rows of users.
LEMMA UserChanges ==
  ASSUME AccountsIInv, AccountsNext, user' # user
  PROVE  \/ \E c \in Call, u \in UserId : InsertUser(c, u)
         \/ \E c \in Call : UpdateEmail(c) \/ AdminCreateUser(c) \/ LinkUpdate(c)
         \/ \E u \in DOMAIN user, e \in Email : UpdateUser(u, e)
         \/ \E a \in Address : ConfirmForgot(a)
         \/ \E s \in 1 .. MaxSub : ChangePassword(s)
BY DEF AccountsNext, AccountsStep, CreateUser, Start, ResolveCreateUserIdentity, SignUpRefused,
   InsertRefused, CreateDefaultWorkspace, StatementFails, SuperInvite, AdminCreateUserRefused,
   SetEmail, SetEmailTarget, LinkToDB, LinkByEmail, FederatedSignIn, AuthChallenge

\* Steps that change passwords or identities only.
LEMMA EmailsStay ==
  ASSUME AccountsIInv,
         \/ \E c \in Call : AdminCreateUser(c) \/ LinkUpdate(c)
         \/ \E a \in Address : ConfirmForgot(a)
         \/ \E s \in 1 .. MaxSub : ChangePassword(s)
  PROVE  SameEmails
<1>1. \A u \in DOMAIN user, p \in Password :
        /\ [user[u] EXCEPT !.password = p].email = user[u].email
        /\ \A s \in 1 .. MaxSub : [user[u] EXCEPT !.sub = s, !.password = p].email = user[u].email
  BY DEF AccountsIInv, UserRow
<1>2. ASSUME NEW c \in Call, AdminCreateUser(c) PROVE SameEmails
  <2>1. lastSub' \in 1 .. MaxSub
    BY <1>2, FreshSubTyped DEF AdminCreateUser
  <2> QED
    BY <1>1, <1>2, <2>1, ZenonT(40) DEF AdminCreateUser, SameEmails, Password
<1>3. ASSUME NEW c \in Call, LinkUpdate(c) PROVE SameEmails
  <2>1. call[c].sub \in 1 .. MaxSub
    BY <1>3 DEF LinkUpdate, AccountsIInv, KnowsEmail, Identified
  <2>2. [user EXCEPT ![call[c].target].sub = call[c].sub] \in [DOMAIN user -> UserRow]
    BY <2>1, RowUpdated
  <2> QED
    BY <1>3, <2>1, <2>2, RowUpdated DEF LinkUpdate, SameEmails
<1>4. ASSUME NEW a \in Address, ConfirmForgot(a) PROVE SameEmails
  BY <1>1, <1>4 DEF ConfirmForgot, SameEmails, Password
<1>5. ASSUME NEW s \in 1 .. MaxSub, ChangePassword(s) PROVE SameEmails
  BY <1>1, <1>5 DEF ChangePassword, SameEmails, Password
<1> QED
  BY <1>2, <1>3, <1>4, <1>5

\* Only calls that overlap, look-ups that fail and UpdateUser give two users one e-mail.
THEOREM DuplicatesNeedOverlapHolds == AccountsSpec => DuplicatesNeedOverlap
<1>1. AccountsIInv /\ [AccountsNext]_accountsVars =>
        [\A u, v \in DOMAIN user' :
           /\ u # v /\ user'[u].email = user'[v].email
           /\ ~(u \in DOMAIN user /\ user[u].email = user'[u].email)
           => \/ \E c \in Call : /\ call'[c] # call[c]
                                 /\ c \in overtaken \/ call[c].blind
              \/ UNCHANGED call]_accountsVars
  <2> SUFFICES ASSUME AccountsIInv, AccountsNext,
                      NEW u \in DOMAIN user', NEW v \in DOMAIN user',
                      u # v, user'[u].email = user'[v].email,
                      ~(u \in DOMAIN user /\ user[u].email = user'[u].email)
               PROVE  \/ \E c \in Call : (call'[c] # call[c]) /\ (c \in overtaken \/ call[c].blind)
                      \/ UNCHANGED call
    OBVIOUS
  <2>1. user' # user /\ ~SameEmails
    BY DEF SameEmails
  <2>2. ASSUME NEW c \in Call, NEW w \in UserId, InsertUser(c, w)
        PROVE  \E k \in Call : (call'[k] # call[k]) /\ (k \in overtaken \/ call[k].blind)
    <3>1. /\ v \in DOMAIN user /\ user[v].email = call[c].email
          /\ call[c].step \in {"insert", "insertInvited"}
      BY <2>2 DEF InsertUser
    <3>2. c \in overtaken \/ call[c].blind
      BY <3>1 DEF AccountsIInv, KnowsEmail, WithEmail, LookedUp
    <3>3. call'[c] # call[c]
      BY <2>2, <3>1, IdleTyped DEF InsertUser, AccountsIInv, Idle
    <3> QED
      BY <3>2, <3>3
  <2>3. ASSUME NEW c \in Call, UpdateEmail(c)
        PROVE  \E k \in Call : (call'[k] # call[k]) /\ (k \in overtaken \/ call[k].blind)
    <3>1. /\ v \in DOMAIN user /\ user[v].email = call[c].email
          /\ call[c].step = "update"
      <4>1. u = call[c].target /\ user'[u].email = call[c].email
        BY <2>3 DEF UpdateEmail, AccountsIInv, UserRow
      <4> QED
        BY <2>3, <4>1 DEF UpdateEmail
    <3>2. c \in overtaken \/ call[c].blind
      BY <3>1 DEF AccountsIInv, KnowsEmail, WithEmail, LookedUp
    <3>3. call'[c] # call[c]
      BY <2>3, <3>1, IdleTyped DEF UpdateEmail, AccountsIInv
    <3> QED
      BY <3>2, <3>3
  <2>4. (\E w \in DOMAIN user, e \in Email : UpdateUser(w, e)) => UNCHANGED call
    BY DEF UpdateUser
  <2> QED
    BY <2>1, <2>2, <2>3, <2>4, UserChanges, EmailsStay
<1> QED
  BY <1>1, AccountsInvariance, PTL DEF AccountsSpec, DuplicatesNeedOverlap

\* A chosen password is replaced only by an invitation that did not see its row.
THEOREM PasswordKeptHolds == AccountsSpec => PasswordKept
<1>1. AccountsIInv /\ [AccountsNext]_accountsVars =>
        [\A u \in DOMAIN user :
           user[u].password = "own" /\ user'[u].password # "own" =>
             \E c \in Call : /\ call[c].step = "invite"
                             /\ NormEmail(call[c].email) = NormEmail(user[u].email)
                             /\ \/ call[c].email # user[u].email
                                \/ c \in overtaken
                                \/ call[c].blind]_accountsVars
  <2> SUFFICES ASSUME AccountsIInv, AccountsNext, NEW u \in DOMAIN user,
                      user[u].password = "own", user'[u].password # "own"
               PROVE  \E c \in Call :
                        /\ call[c].step = "invite"
                        /\ NormEmail(call[c].email) = NormEmail(user[u].email)
                        /\ \/ call[c].email # user[u].email
                           \/ c \in overtaken
                           \/ call[c].blind
    OBVIOUS
  <2>1. user' # user
    OBVIOUS
  <2>2. \E c \in Call : AdminCreateUser(c)
    <3>1. ASSUME NEW c \in Call, NEW w \in UserId, InsertUser(c, w) PROVE FALSE
      BY <3>1 DEF InsertUser
    <3>2. ASSUME NEW w, NEW e, user' = [user EXCEPT ![w].email = e] PROVE FALSE
      BY <3>2 DEF AccountsIInv, UserRow
    <3>3. ASSUME NEW w, NEW s, user' = [user EXCEPT ![w].sub = s] PROVE FALSE
      BY <3>3 DEF AccountsIInv, UserRow
    <3>4. ASSUME NEW S, user' = [w \in DOMAIN user |->
                                   IF w \in S THEN [user[w] EXCEPT !.password = "own"] ELSE user[w]]
          PROVE  FALSE
      BY <3>4 DEF AccountsIInv, UserRow
    <3> QED
      BY <2>1, <3>1, <3>2, <3>3, <3>4, UserChanges
         DEF UpdateEmail, UpdateUser, LinkUpdate, ConfirmForgot, ChangePassword
  <2>3. PICK c \in Call : AdminCreateUser(c)
    BY <2>2
  <2>4. call[c].step = "invite" /\ u \in WithAddress(call[c].email)
    BY <2>1, <2>3 DEF AdminCreateUser
  <2>5. call[c].email # user[u].email \/ c \in overtaken \/ call[c].blind
    BY <2>4 DEF AccountsIInv, KnowsEmail, WithEmail, LookedUp
  <2> QED
    BY <2>4, <2>5 DEF WithAddress
<1> QED
  BY <1>1, AccountsInvariance, PTL DEF AccountsSpec, PasswordKept

-----------------------------------------------------------------------------
(* Licences *)

Setting == [step : {"idle", "write", "put", "writeMock", "latest", "cancel", "create", "finalize"},
            workspace : Workspace \cup {Quiet.workspace}, license : License, key : LicenseKey,
            todo : SUBSET Workspace, sub : Nat, blind : BOOLEAN]

Writing == {"write", "writeMock"}

\* A call that nobody overtook has read the licence that the row still has.
HoldsLicense(c) ==
  setter[c].step \in Writing /\ c \notin late =>
    /\ setter[c].workspace \in Existing
    /\ workspace[setter[c].workspace].license = setter[c].license

LicenseIInv ==
  /\ setter \in [Caller -> Setting]
  /\ workspace \in [Existing -> WorkspaceRow]
  /\ \A c \in Caller : HoldsLicense(c)

LicenseStays(w) ==
  w \in Existing => w \in Existing' /\ workspace'[w].license = workspace[w].license

LEMMA QuietTyped == Quiet \in Setting /\ Quiet.step = "idle" /\ DefaultLicense \in License
BY LicensesAssumption DEF Quiet, Setting, DefaultLicense, License, LicenseValue

LEMMA PartsTyped ==
  ASSUME NEW license \in License, NEW parts, NEW v \in LicenseValue
  PROVE  /\ WithParts(license, parts, v) \in License
         /\ \A p \in LicensePart \ parts : WithParts(license, parts, v)[p] = license[p]
BY DEF WithParts, License

\* The mock changes two parts.
LEMMA MockTyped ==
  ASSUME NEW license \in License, NEW c \in Caller
  PROVE  /\ MockLicense(license, c) \in License
         /\ \A p \in LicensePart \ {"products", "stripe_status"} :
              MockLicense(license, c)[p] = license[p]
<1>1. {"products", "stripe_status"} \subseteq LicensePart
  BY LicensesAssumption DEF LicensePart, PartsOf
<1> QED
  BY <1>1 DEF MockLicense, License, LicenseValue

\* One call goes on: to its end, or to another step.
LEMMA FinishTyped ==
  ASSUME setter \in [Caller -> Setting], NEW c \in Caller, Finish(c)
  PROVE  /\ setter' \in [Caller -> Setting] /\ setter'[c] = Quiet
         /\ \A d \in Caller : d # c => setter'[d] = setter[d]
BY QuietTyped DEF Finish

LEMMA GoTyped ==
  ASSUME setter \in [Caller -> Setting], NEW c \in Caller,
         NEW step \in {"cancel", "create", "finalize"}, Go(c, step)
  PROVE  /\ setter' \in [Caller -> Setting]
         /\ setter'[c].step = step /\ setter'[c].workspace = setter[c].workspace
         /\ setter'[c].sub = setter[c].sub /\ setter'[c].blind = setter[c].blind
         /\ \A d \in Caller : d # c => setter'[d] = setter[d]
<1> DEFINE new == [setter[c] EXCEPT !.step = step]
<1>1. /\ new \in Setting /\ new.step = step /\ new.workspace = setter[c].workspace
      /\ new.sub = setter[c].sub /\ new.blind = setter[c].blind
  BY DEF Setting
<1>2. setter' = [setter EXCEPT ![c] = new]
  BY DEF Go
<1> HIDE DEF new
<1> QED
  BY <1>1, <1>2

LEMMA LicenseStep ==
  ASSUME LicenseIInv, setter' \in [Caller -> Setting], workspace' \in [Existing' -> WorkspaceRow],
         \A d \in Caller :
           \/ setter'[d].step \notin Writing
           \/ /\ setter'[d] = setter[d] /\ (d \in late => d \in late')
              /\ d \notin late' => LicenseStays(setter[d].workspace)
  PROVE  LicenseIInv'
BY DEF LicenseIInv, HoldsLicense, LicenseStays

LEMMA WrittenLicense ==
  ASSUME LicenseIInv, NEW w, NEW license \in License, WriteLicense(w, license)
  PROVE  /\ workspace' \in [Existing' -> WorkspaceRow] /\ Existing' = Existing
         /\ \A v : v # w => LicenseStays(v)
         /\ w \in Existing => workspace'[w].license = license
<1>1. CASE w \notin Existing
  <2>1. workspace' = workspace /\ Existing' = Existing
    BY <1>1 DEF WriteLicense, Exists, Existing
  <2> QED
    BY <1>1, <2>1 DEF LicenseIInv, LicenseStays
<1>2. CASE w \in Existing
  <2> DEFINE row == [workspace[w] EXCEPT !.license = license]
  <2>1. row \in WorkspaceRow /\ row.license = license
    BY <1>2 DEF LicenseIInv, WorkspaceRow
  <2>2. workspace' = [workspace EXCEPT ![w] = row]
    BY <1>2 DEF WriteLicense, Exists
  <2> HIDE DEF row
  <2> QED
    BY <1>2, <2>1, <2>2 DEF LicenseIInv, Existing, LicenseStays
<1> QED
  BY <1>1, <1>2

LEMMA WorkspaceStep ==
  ASSUME LicenseIInv, NEW w \in Workspace,
         CreateWorkspace(w) \/ DeleteWorkspace(w) \/ \E status \in StripeStatus : UpdateWorkspace(w, status)
  PROVE  LicenseIInv'
<1>1. setter' = setter /\ setter \in [Caller -> Setting] /\ workspace \in [Existing -> WorkspaceRow]
  BY DEF CreateWorkspace, DeleteWorkspace, UpdateWorkspace, LicenseIInv
<1>2. CASE CreateWorkspace(w)
  <2> DEFINE row == [license |-> DefaultLicense, status |-> "trial"]
  <2>1. row \in WorkspaceRow
    BY QuietTyped DEF WorkspaceRow, StripeStatus
  <2>2. workspace' = [v \in Existing \cup {w} |-> IF v = w THEN row ELSE workspace[v]]
    BY <1>2 DEF CreateWorkspace
  <2> HIDE DEF row
  <2>3. Existing' = Existing \cup {w} /\ workspace' \in [Existing' -> WorkspaceRow]
    BY <1>1, <2>1, <2>2 DEF Existing
  <2>4. \A v : LicenseStays(v)
    BY <1>2, <2>2, <2>3 DEF LicenseStays, CreateWorkspace, Exists
  <2>5. late' = late
    BY <1>2 DEF CreateWorkspace
  <2> QED
    BY <1>1, <2>3, <2>4, <2>5, LicenseStep
<1>3. CASE DeleteWorkspace(w)
  <2>1. Existing' = Existing \ {w} /\ workspace' \in [Existing' -> WorkspaceRow]
    BY <1>1, <1>3 DEF DeleteWorkspace, Existing
  <2>2. \A v : v # w => LicenseStays(v)
    BY <1>3, <2>1 DEF LicenseStays, DeleteWorkspace
  <2>3. ASSUME NEW d \in Caller, setter[d].step \in Writing
        PROVE  (d \in late => d \in late') /\ (setter[d].workspace = w => d \in late')
    BY <1>3, <2>3 DEF DeleteWorkspace, Writing
  <2> QED
    BY <1>1, <2>1, <2>2, <2>3, LicenseStep
<1>4. ASSUME NEW status \in StripeStatus, UpdateWorkspace(w, status) PROVE LicenseIInv'
  <2> DEFINE row == [workspace[w] EXCEPT !.status = status]
  <2>1. w \in Existing /\ row \in WorkspaceRow /\ row.license = workspace[w].license
    BY <1>1, <1>4 DEF UpdateWorkspace, Exists, WorkspaceRow
  <2>2. workspace' = [workspace EXCEPT ![w] = row] /\ late' = late
    BY <1>4 DEF UpdateWorkspace
  <2> HIDE DEF row
  <2>3. Existing' = Existing /\ workspace' \in [Existing' -> WorkspaceRow] /\ \A v : LicenseStays(v)
    BY <1>1, <2>1, <2>2 DEF Existing, LicenseStays
  <2> QED
    BY <1>1, <2>2, <2>3, LicenseStep
<1> QED
  BY <1>2, <1>3, <1>4

\* A call that reads a licence, and one that writes it.
LEMMA ReadLicenseStep ==
  ASSUME LicenseIInv, NEW c \in Caller, NEW w \in Workspace,
         (\E k \in LicenseKey : SetLicenseKey(c, w, k)) \/ SetLicense(c, w)
  PROVE  LicenseIInv'
<1>1. /\ setter \in [Caller -> Setting] /\ workspace \in [Existing -> WorkspaceRow]
      /\ w \in Existing /\ workspace[w].license \in License
      /\ UNCHANGED <<workspace, late>> /\ Existing' = Existing
  BY DEF SetLicenseKey, SetLicense, LicenseIInv, Exists, Existing, WorkspaceRow
<1>2. PICK new \in Setting :
        /\ setter' = [setter EXCEPT ![c] = new] /\ new.workspace = w
        /\ new.step \in Writing => new.license = workspace[w].license
  <2>1. ASSUME NEW k \in LicenseKey, SetLicenseKey(c, w, k)
        PROVE  \E new \in Setting :
                 /\ setter' = [setter EXCEPT ![c] = new] /\ new.workspace = w
                 /\ new.step \in Writing => new.license = workspace[w].license
    <3> DEFINE new == [Quiet EXCEPT !.step = "write", !.workspace = w,
                                    !.license = workspace[w].license, !.key = k]
    <3>1. new \in Setting /\ new.workspace = w /\ new.license = workspace[w].license
      BY <1>1, QuietTyped DEF Setting
    <3>2. setter' = [setter EXCEPT ![c] = new]
      BY <2>1 DEF SetLicenseKey
    <3> QED
      BY <3>1, <3>2
  <2>2. ASSUME SetLicense(c, w)
        PROVE  \E new \in Setting :
                 /\ setter' = [setter EXCEPT ![c] = new] /\ new.workspace = w
                 /\ new.step \in Writing => new.license = workspace[w].license
    <3>1. CASE mock
      <4> DEFINE new == [Quiet EXCEPT !.step = "writeMock", !.workspace = w,
                                      !.license = workspace[w].license]
      <4>1. new \in Setting /\ new.workspace = w /\ new.license = workspace[w].license
        BY <1>1, QuietTyped DEF Setting
      <4>2. setter' = [setter EXCEPT ![c] = new]
        BY <2>2, <3>1 DEF SetLicense
      <4> QED
        BY <4>1, <4>2
    <3>2. CASE ~mock
      <4> DEFINE new == [Quiet EXCEPT !.step = "latest", !.workspace = w, !.license = @]
      <4>1. new \in Setting /\ new.workspace = w /\ new.step = "latest"
        BY QuietTyped DEF Setting
      <4>2. setter' = [setter EXCEPT ![c] = new]
        BY <2>2, <3>2 DEF SetLicense
      <4> QED
        BY <4>1, <4>2 DEF Writing
    <3> QED
      BY <3>1, <3>2
  <2> QED
    BY <2>1, <2>2
<1>3. /\ setter' \in [Caller -> Setting] /\ setter'[c] = new
      /\ \A d \in Caller : d # c => setter'[d] = setter[d]
  BY <1>1, <1>2
<1> QED
  BY <1>1, <1>2, <1>3 DEF LicenseIInv, HoldsLicense

LEMMA WriteLicenseStep ==
  ASSUME LicenseIInv, NEW c \in Caller, NEW w, NEW license \in License,
         WriteLicense(w, license), Late(c, w),
         setter' \in [Caller -> Setting], setter'[c].step \notin Writing,
         \A d \in Caller : d # c => setter'[d] = setter[d]
  PROVE  LicenseIInv'
<1>1. /\ workspace' \in [Existing' -> WorkspaceRow]
      /\ \A v : v # w => LicenseStays(v)
  BY WrittenLicense
<1>2. ASSUME NEW d \in Caller, d # c, setter[d].step \in Writing
      PROVE  (d \in late => d \in late') /\ (setter[d].workspace = w => d \in late')
  BY <1>2 DEF Late, Writing
<1> QED
  BY <1>1, <1>2, LicenseStep

LEMMA WriteKeyStep ==
  ASSUME LicenseIInv, NEW c \in Caller, WriteKey(c) \/ WriteMock(c)
  PROVE  LicenseIInv'
<1>1. /\ setter \in [Caller -> Setting] /\ workspace \in [Existing -> WorkspaceRow]
      /\ Late(c, setter[c].workspace) /\ Finish(c)
  BY DEF WriteKey, WriteMock, LicenseIInv
<1>2. /\ setter' \in [Caller -> Setting] /\ setter'[c].step \notin Writing
      /\ \A d \in Caller : d # c => setter'[d] = setter[d]
  BY <1>1, FinishTyped, QuietTyped DEF Writing
<1>3. CASE WriteKey(c)
  <2>1. PICK v \in KeyValues(c) :
          WriteLicense(setter[c].workspace,
                       WithParts(setter[c].license, PartsOf(setter[c].key), v))
    BY <1>3 DEF WriteKey
  <2>2. WithParts(setter[c].license, PartsOf(setter[c].key), v) \in License
    BY <1>1, PartsTyped DEF Setting, KeyValues, LicenseValue
  <2> QED
    BY <1>1, <1>2, <2>1, <2>2, WriteLicenseStep
<1>4. CASE WriteMock(c)
  <2> DEFINE w == setter[c].workspace
             row == [license |-> MockLicense(setter[c].license, c), status |-> "active"]
  <2>1. row \in WorkspaceRow
    BY <1>1, MockTyped DEF Setting, LicenseValue, WorkspaceRow, StripeStatus
  <2>2. workspace' = IF w \in Existing THEN [workspace EXCEPT ![w] = row] ELSE workspace
    BY <1>4 DEF WriteMock, Exists
  <2> HIDE DEF row, w
  <2>3. Existing' = Existing /\ workspace' \in [Existing' -> WorkspaceRow]
    BY <1>1, <2>1, <2>2 DEF Existing
  <2>4. \A v : v # w => LicenseStays(v)
    BY <2>2, <2>3 DEF LicenseStays
  <2>5. ASSUME NEW d \in Caller, d # c, setter[d].step \in Writing
        PROVE  (d \in late => d \in late') /\ (setter[d].workspace = w => d \in late')
    BY <1>1, <2>5 DEF Late, Writing, w
  <2> QED
    BY <1>2, <2>3, <2>4, <2>5, LicenseStep
<1> QED
  BY <1>3, <1>4

LEMMA PutLicenseStep ==
  ASSUME LicenseIInv, NEW c \in Caller,
         (\E ws \in SUBSET Workspace : PutLicenses(c, ws)) \/ PutLicense(c)
  PROVE  LicenseIInv'
<1>1. setter \in [Caller -> Setting] /\ workspace \in [Existing -> WorkspaceRow]
  BY DEF LicenseIInv
<1>2. ASSUME NEW ws \in SUBSET Workspace, PutLicenses(c, ws) PROVE LicenseIInv'
  <2> DEFINE new == [Quiet EXCEPT !.step = "put", !.todo = ws]
  <2>1. new \in Setting /\ new.step = "put"
    BY QuietTyped DEF Setting
  <2>2. setter' = [setter EXCEPT ![c] = new] /\ UNCHANGED <<workspace, late>> /\ Existing' = Existing
    BY <1>2 DEF PutLicenses, Existing
  <2> HIDE DEF new
  <2> QED
    BY <1>1, <2>1, <2>2, LicenseStep DEF LicenseStays, Writing
<1>3. ASSUME PutLicense(c) PROVE LicenseIInv'
  <2>1. PICK w \in setter[c].todo :
          /\ \/ /\ WriteLicense(w, [p \in LicensePart |-> "admin"])
                /\ Late(c, w)
             \/ UNCHANGED <<workspace, late>>
          /\ \/ Finish(c)
             \/ setter' = [setter EXCEPT ![c].todo = @ \ {w}]
    BY <1>3 DEF PutLicense
  <2>2. /\ setter' \in [Caller -> Setting] /\ setter'[c].step \notin Writing
        /\ \A d \in Caller : d # c => setter'[d] = setter[d]
    <3>1. CASE Finish(c)
      BY <1>1, <3>1, FinishTyped, QuietTyped DEF Writing
    <3>2. CASE setter' = [setter EXCEPT ![c].todo = @ \ {w}]
      <4> DEFINE new == [setter[c] EXCEPT !.todo = @ \ {w}]
      <4>1. new \in Setting /\ new.step = "put"
        BY <1>1, <1>3 DEF Setting, PutLicense
      <4>2. setter' = [setter EXCEPT ![c] = new]
        BY <3>2
      <4> HIDE DEF new
      <4> QED
        BY <1>1, <4>1, <4>2 DEF Writing
    <3> QED
      BY <2>1, <3>1, <3>2
  <2>3. [p \in LicensePart |-> "admin"] \in License
    BY DEF License, LicenseValue
  <2>4. CASE WriteLicense(w, [p \in LicensePart |-> "admin"]) /\ Late(c, w)
    BY <2>2, <2>3, <2>4, WriteLicenseStep
  <2>5. CASE UNCHANGED <<workspace, late>>
    BY <1>1, <2>2, <2>5, LicenseStep DEF LicenseStays, Existing
  <2> QED
    BY <2>1, <2>4, <2>5
<1> QED
  BY <1>2, <1>3

-----------------------------------------------------------------------------
(* Subscriptions *)

\* A set of numbers up to n has a largest one.
LEMMA Largest ==
  ASSUME NEW n \in Nat, NEW S \in SUBSET (1 .. n), S # {}
  PROVE  \E i \in S : \A j \in S : j <= i
<1> DEFINE T == {m \in Nat : \E i \in S : m = n - i}
<1>1. T \subseteq Nat /\ T # {}
  <2>1. PICK i \in S : i \in 1 .. n
    OBVIOUS
  <2>2. n - i \in Nat
    BY <2>1
  <2> QED
    BY <2>1, <2>2
<1>2. PICK m \in T : \A k \in T : <<k, m>> \notin OpToRel(<, Nat)
  <2> HIDE DEF T
  <2> QED
    BY <1>1, WFMin, NatLessThanWellFounded, Zenon
<1>3. \A k \in T : ~(k < m)
  BY <1>1, <1>2, Zenon DEF OpToRel
<1>4. PICK i \in S : m = n - i
  BY <1>2
<1>5. ASSUME NEW j \in S PROVE j <= i
  <2>1. n - j \in T /\ j \in 1 .. n /\ i \in 1 .. n
    OBVIOUS
  <2>2. ~(n - j < n - i)
    BY <1>3, <1>4, <2>1
  <2> QED
    BY <2>1, <2>2
<1> QED
  BY <1>5

Selling == {"latest", "cancel", "create", "finalize"}

\* The newest subscription is active and no trial.
PaidFor(customer) ==
  LET mine == subs[customer] IN
    mine # <<>> /\ mine[Len(mine)].status = "active" /\ ~mine[Len(mine)].trial

\* A call that nobody overtook and that saw everything cancels the newest subscription,
\* a trial, and creates one where none is paid for.
KnowsCustomer(c) ==
  LET mine == subs[CustomerOf(c)]
      knows == c \notin late /\ ~setter[c].blind
  IN  /\ setter[c].step \in Selling => setter[c].workspace \in Workspace
      /\ setter[c].step = "cancel" =>
           /\ setter[c].sub \in 1 .. Len(mine)
           /\ knows => setter[c].sub = Len(mine) /\ mine[setter[c].sub].trial
      /\ setter[c].step = "create" /\ knows => ~PaidFor(CustomerOf(c))

Replaced(customer) ==
  (\E i \in DOMAIN subs[customer] : /\ subs[customer][i].ended = "call"
                                    /\ i = Len(subs[customer]))
  => \/ \E c \in Caller : setter[c].step = "create" /\ CustomerOf(c) = customer
     \/ customer \in unserved

SalesIInv ==
  /\ setter \in [Caller -> Setting]
  /\ subs \in [Customer -> Seq(Subscription)]
  /\ \A c \in Caller : KnowsCustomer(c)
  /\ \A customer \in Customer : Replaced(customer)

\* A step that leaves the subscriptions as they are, of calls that create none.
LEMMA SaleStep ==
  ASSUME SalesIInv, setter' \in [Caller -> Setting], UNCHANGED subs, unserved \subseteq unserved',
         \A d \in Caller :
           \/ /\ setter'[d].step \notin Selling \/ setter'[d].step = "finalize"
              /\ setter[d].step = "create" => CustomerOf(d) \in unserved'
              /\ setter'[d].step \in Selling => setter'[d].workspace \in Workspace
           \/ setter'[d] = setter[d] /\ (d \in late => d \in late')
           \/ /\ setter[d].step = "idle" /\ setter'[d].step = "latest"
              /\ setter'[d].workspace \in Workspace
  PROVE  SalesIInv'
<1>1. ASSUME NEW c \in Caller PROVE KnowsCustomer(c)'
  <2>1. KnowsCustomer(c)
    BY DEF SalesIInv
  <2> QED
    BY <2>1 DEF KnowsCustomer, CustomerOf, PaidFor, Selling
<1>2. ASSUME NEW customer \in Customer PROVE Replaced(customer)'
  <2>1. Replaced(customer)
    BY DEF SalesIInv
  <2> QED
    BY <2>1 DEF Replaced, CustomerOf
<1> QED
  BY <1>1, <1>2 DEF SalesIInv

LEMMA GetLatestSubscriptionStep ==
  ASSUME SalesIInv, NEW c \in Caller, GetLatestSubscription(c)
  PROVE  SalesIInv'
<1> DEFINE mine == subs[CustomerOf(c)]
<1>1. /\ setter \in [Caller -> Setting] /\ setter[c].step = "latest" /\ UNCHANGED <<subs, unserved>>
      /\ setter[c].workspace \in Workspace /\ CustomerOf(c) \in Customer
      /\ mine \in Seq(Subscription) /\ DOMAIN mine = 1 .. Len(mine) /\ Len(mine) \in Nat
  BY DEF GetLatestSubscription, SalesIInv, KnowsCustomer, Selling, CustomerOf, Customer
<1>7. \A j \in DOMAIN mine : mine[j].status \in SubStatus
  <2>1. \A j \in 1 .. Len(mine) : mine[j] \in Subscription
    BY <1>1, ElementOfSeq
  <2> QED
    BY <1>1, <2>1 DEF Subscription, SubStatus
<1>2. PICK statuses \in SUBSET SubStatus :
        LET i == LatestSubscription(CustomerOf(c), statuses)
            next == NextStep(CustomerOf(c), i)
        IN  IF next = "idle" THEN Finish(c)
            ELSE setter' = [setter EXCEPT ![c].step = next, ![c].sub = i,
                                          ![c].blind = (statuses # SubStatus)]
  BY DEF GetLatestSubscription
<1> DEFINE listed == {i \in DOMAIN mine : mine[i].status \in statuses}
           i == LatestSubscription(CustomerOf(c), statuses)
           next == NextStep(CustomerOf(c), i)
<1>3. /\ i = 0 \/ i \in 1 .. Len(mine)
      /\ statuses = SubStatus => i = Len(mine)
  <2>1. CASE listed = {}
    <3>1. i = 0
      BY <2>1 DEF LatestSubscription
    <3>2. statuses = SubStatus => Len(mine) = 0
      BY <1>1, <1>7, <2>1
    <3> QED
      BY <3>1, <3>2
  <2>2. CASE listed # {}
    <3>1. i \in listed /\ \A j \in listed : j <= i
      <4>1. i = CHOOSE k \in listed : \A j \in listed : j <= k
        BY <2>2 DEF LatestSubscription
      <4>2. \E k \in listed : \A j \in listed : j <= k
        BY <1>1, <2>2, Largest
      <4> QED
        BY <4>1, <4>2
    <3>2. statuses = SubStatus => Len(mine) \in listed
      BY <1>1, <1>7, <3>1
    <3> QED
      BY <1>1, <3>1, <3>2
  <2> QED
    BY <2>1, <2>2
<1>4. /\ next \in {"create", "cancel", "idle"}
      /\ next = "cancel" => i # 0 /\ mine[i].trial
      /\ next = "create" => i = 0 \/ mine[i].trial \/ mine[i].status # "active"
  BY DEF NextStep
<1> HIDE DEF listed, i, next
<1>5. CASE next = "idle"
  <2>1. setter' \in [Caller -> Setting] /\ setter'[c].step = "idle"
        /\ \A d \in Caller : d # c => setter'[d] = setter[d]
    BY <1>1, <1>2, <1>5, FinishTyped, QuietTyped DEF next, i
  <2>2. \A d \in Caller : d # c => (d \in late => d \in late')
    BY DEF GetLatestSubscription
  <2> QED
    BY <1>1, <2>1, <2>2, SaleStep DEF Selling
<1>6. CASE next # "idle"
  <2> DEFINE blind == statuses # SubStatus
             new == [setter[c] EXCEPT !.step = next, !.sub = i, !.blind = blind]
  <2>1. setter' = [setter EXCEPT ![c].step = next, ![c].sub = i, ![c].blind = blind]
    BY <1>2, <1>6 DEF next, i
  <2>2. setter' = [setter EXCEPT ![c] = new]
    BY <1>1, <2>1
  <2>3. i \in Nat /\ blind \in BOOLEAN
    BY <1>1, <1>3
  <2>4. /\ new \in Setting /\ new.step = next /\ new.sub = i /\ new.blind = blind
        /\ new.workspace = setter[c].workspace
    BY <1>1, <1>4, <1>6, <2>3 DEF Setting
  <2> HIDE DEF new
  <2>5. /\ setter' \in [Caller -> Setting] /\ setter'[c] = new
        /\ \A d \in Caller : d # c => setter'[d] = setter[d]
    BY <1>1, <2>2, <2>4
  <2>6. late' = late
    BY <1>6, <2>4, <2>5 DEF GetLatestSubscription
  <2>7. ASSUME NEW d \in Caller PROVE KnowsCustomer(d)'
    <3>1. CASE d = c
      <4>1. CustomerOf(c)' = CustomerOf(c) /\ subs' = subs
        BY <1>1, <2>4, <2>5 DEF CustomerOf
      <4>2. next = "cancel" => i \in 1 .. Len(mine) /\ (~blind => i = Len(mine) /\ mine[i].trial)
        BY <1>3, <1>4
      <4>3. next = "create" /\ ~blind => ~PaidFor(CustomerOf(c))
        BY <1>1, <1>3, <1>4 DEF PaidFor
      <4> QED
        BY <1>1, <2>4, <2>5, <3>1, <4>1, <4>2, <4>3 DEF KnowsCustomer, PaidFor
    <3>2. CASE d # c
      <4>1. KnowsCustomer(d)
        BY DEF SalesIInv
      <4> QED
        BY <1>1, <2>5, <2>6, <3>2, <4>1 DEF KnowsCustomer, CustomerOf, PaidFor
    <3> QED
      BY <3>1, <3>2
  <2>8. ASSUME NEW customer \in Customer PROVE Replaced(customer)'
    <3>1. Replaced(customer)
      BY DEF SalesIInv
    <3> QED
      BY <1>1, <2>5, <3>1 DEF Replaced, CustomerOf
  <2> QED
    BY <1>1, <2>5, <2>7, <2>8 DEF SalesIInv
<1> QED
  BY <1>5, <1>6

LEMMA StartSaleStep ==
  ASSUME SalesIInv, NEW c \in Caller,
         \/ \E w \in Workspace, k \in LicenseKey : SetLicenseKey(c, w, k)
         \/ \E ws \in SUBSET Workspace : PutLicenses(c, ws)
         \/ \E w \in Workspace : SetLicense(c, w)
         \/ PutLicense(c),
         LicenseIInv
  PROVE  SalesIInv'
<1>1. /\ setter \in [Caller -> Setting] /\ UNCHANGED <<subs, unserved>>
      /\ setter[c].step \in {"idle", "put"}
  BY DEF SalesIInv, SetLicenseKey, PutLicenses, SetLicense, PutLicense
<1>2. PICK new \in Setting :
        /\ setter' = [setter EXCEPT ![c] = new]
        /\ \/ new.step \notin Selling
           \/ new.step = "latest" /\ new.workspace \in Workspace /\ setter[c].step = "idle"
  <2>1. ASSUME NEW w \in Workspace, NEW k \in LicenseKey, SetLicenseKey(c, w, k)
        PROVE  \E new \in Setting : setter' = [setter EXCEPT ![c] = new] /\ new.step \notin Selling
    <3> DEFINE new == [Quiet EXCEPT !.step = "write", !.workspace = w,
                                    !.license = workspace[w].license, !.key = k]
    <3>1. workspace[w].license \in License
      BY <2>1 DEF SetLicenseKey, Exists, LicenseIInv, WorkspaceRow
    <3>2. new \in Setting /\ new.step = "write"
      BY <3>1, QuietTyped DEF Setting
    <3>3. setter' = [setter EXCEPT ![c] = new]
      BY <2>1 DEF SetLicenseKey
    <3> QED
      BY <3>2, <3>3 DEF Selling
  <2>2. ASSUME NEW ws \in SUBSET Workspace, PutLicenses(c, ws)
        PROVE  \E new \in Setting : setter' = [setter EXCEPT ![c] = new] /\ new.step \notin Selling
    <3> DEFINE new == [Quiet EXCEPT !.step = "put", !.todo = ws]
    <3>1. new \in Setting /\ new.step = "put"
      BY QuietTyped DEF Setting
    <3>2. setter' = [setter EXCEPT ![c] = new]
      BY <2>2 DEF PutLicenses
    <3> QED
      BY <3>1, <3>2 DEF Selling
  <2>3. ASSUME NEW w \in Workspace, SetLicense(c, w)
        PROVE  \E new \in Setting :
                 /\ setter' = [setter EXCEPT ![c] = new]
                 /\ new.step \notin Selling \/ (new.step = "latest" /\ new.workspace \in Workspace)
    <3>1. CASE mock
      <4> DEFINE new == [Quiet EXCEPT !.step = "writeMock", !.workspace = w,
                                      !.license = workspace[w].license]
      <4>1. workspace[w].license \in License
        BY <2>3 DEF SetLicense, Exists, LicenseIInv, WorkspaceRow
      <4>2. new \in Setting /\ new.step = "writeMock"
        BY <4>1, QuietTyped DEF Setting
      <4>3. setter' = [setter EXCEPT ![c] = new]
        BY <2>3, <3>1 DEF SetLicense
      <4> QED
        BY <4>2, <4>3 DEF Selling
    <3>2. CASE ~mock
      <4> DEFINE new == [Quiet EXCEPT !.step = "latest", !.workspace = w, !.license = @]
      <4>1. new \in Setting /\ new.step = "latest" /\ new.workspace = w
        BY QuietTyped DEF Setting
      <4>2. setter' = [setter EXCEPT ![c] = new]
        BY <2>3, <3>2 DEF SetLicense
      <4> QED
        BY <4>1, <4>2
    <3> QED
      BY <3>1, <3>2
  <2>4. ASSUME PutLicense(c)
        PROVE  \E new \in Setting : setter' = [setter EXCEPT ![c] = new] /\ new.step \notin Selling
    <3>1. PICK w \in setter[c].todo :
            Finish(c) \/ setter' = [setter EXCEPT ![c].todo = @ \ {w}]
      BY <2>4 DEF PutLicense
    <3>2. CASE Finish(c)
      BY <3>2, QuietTyped DEF Finish, Selling
    <3>3. CASE setter' = [setter EXCEPT ![c].todo = @ \ {w}]
      <4> DEFINE new == [setter[c] EXCEPT !.todo = @ \ {w}]
      <4>1. new \in Setting /\ new.step = "put"
        BY <1>1, <2>4 DEF Setting, PutLicense
      <4>2. setter' = [setter EXCEPT ![c] = new]
        BY <3>3
      <4> QED
        BY <4>1, <4>2 DEF Selling
    <3> QED
      BY <3>1, <3>2, <3>3
  <2>5. (\E w \in Workspace : SetLicense(c, w)) => setter[c].step = "idle"
    BY DEF SetLicense
  <2> QED
    BY <2>1, <2>2, <2>3, <2>4, <2>5
<1>3. /\ setter' \in [Caller -> Setting] /\ setter'[c] = new
      /\ \A d \in Caller : d # c => setter'[d] = setter[d]
  BY <1>1, <1>2
<1>4. \A d \in Caller : d # c => (d \in late => d \in late')
  BY DEF SetLicenseKey, PutLicenses, SetLicense, PutLicense, Late
<1> QED
  BY <1>1, <1>2, <1>3, <1>4, SaleStep

\* A call ends that does not create, or whose customer is left without a subscription.
LEMMA EndSaleStep ==
  ASSUME SalesIInv, NEW c \in Caller,
         WriteKey(c) \/ WriteMock(c) \/ CreateFails(c) \/ FinalizeInvoice(c) \/ Killed(c)
  PROVE  SalesIInv'
<1>1. /\ setter \in [Caller -> Setting] /\ UNCHANGED subs /\ unserved \subseteq unserved' /\ Finish(c)
      /\ setter[c].step = "create" => CustomerOf(c) \in unserved'
  BY DEF SalesIInv, WriteKey, WriteMock, CreateFails, FinalizeInvoice, Killed
<1>2. /\ setter' \in [Caller -> Setting] /\ setter'[c].step = "idle"
      /\ \A d \in Caller : d # c => setter'[d] = setter[d]
  BY <1>1, FinishTyped, QuietTyped
<1>3. \A d \in Caller : d # c => (d \in late => d \in late')
  BY DEF WriteKey, WriteMock, CreateFails, FinalizeInvoice, Killed, Late
<1> QED
  BY <1>1, <1>2, <1>3, SaleStep DEF Selling

\* One subscription of a customer changes its status.
LEMMA StatusChanged ==
  ASSUME subs \in [Customer -> Seq(Subscription)], NEW customer \in Customer,
         NEW i \in 1 .. Len(subs[customer]), NEW row \in Subscription,
         row.trial = subs[customer][i].trial,
         subs' = [subs EXCEPT ![customer] = [subs[customer] EXCEPT ![i] = row]]
  PROVE  /\ subs' \in [Customer -> Seq(Subscription)]
         /\ \A other \in Customer : other # customer => subs'[other] = subs[other]
         /\ Len(subs'[customer]) = Len(subs[customer])
         /\ subs'[customer][i] = row
         /\ \A j \in 1 .. Len(subs[customer]) : j # i => subs'[customer][j] = subs[customer][j]
<1> DEFINE mine == subs[customer]
           new == [mine EXCEPT ![i] = row]
<1>1. mine \in Seq(Subscription)
  OBVIOUS
<1> HIDE DEF mine
<1>2. /\ new \in Seq(Subscription) /\ Len(new) = Len(mine) /\ new[i] = row
      /\ \A j \in 1 .. Len(mine) : j # i => new[j] = mine[j]
  BY <1>1, ExceptSeq DEF mine
<1>3. subs' = [subs EXCEPT ![customer] = new]
  BY DEF mine
<1> HIDE DEF new
<1> QED
  BY <1>2, <1>3 DEF mine

LEMMA CancelSubscriptionStep ==
  ASSUME SalesIInv, NEW c \in Caller, CancelSubscription(c)
  PROVE  SalesIInv'
<1>10. PICK customer \in Customer : customer = CustomerOf(c)
  BY DEF CancelSubscription, SalesIInv, KnowsCustomer, Selling, CustomerOf, Customer
<1>11. PICK i \in 1 .. Len(subs[customer]) : i = setter[c].sub
  BY <1>10 DEF CancelSubscription, SalesIInv, KnowsCustomer
<1> DEFINE row == [subs[customer][i] EXCEPT !.status = "canceled", !.ended = "call"]
<1>1. /\ setter \in [Caller -> Setting] /\ setter[c].step = "cancel" /\ UNCHANGED <<late, unserved>>
      /\ subs \in [Customer -> Seq(Subscription)] /\ KnowsCustomer(c)
  BY DEF CancelSubscription, SalesIInv
<1>2. PICK step \in {"create"} : Go(c, step)
  BY DEF CancelSubscription
<1>3. /\ setter' \in [Caller -> Setting]
      /\ setter'[c].step = "create" /\ setter'[c].workspace = setter[c].workspace
      /\ setter'[c].blind = setter[c].blind
      /\ \A d \in Caller : d # c => setter'[d] = setter[d]
  BY <1>1, <1>2, GoTyped
<1>4. /\ subs[customer][i] \in Subscription /\ Len(subs[customer]) \in Nat
      /\ DOMAIN subs[customer] = 1 .. Len(subs[customer])
  BY <1>1, ElementOfSeq
<1>5. row \in Subscription /\ row.status = "canceled" /\ row.ended = "call"
        /\ row.trial = subs[customer][i].trial
  BY <1>4 DEF Subscription
<1>6. /\ subs' \in [Customer -> Seq(Subscription)]
      /\ \A other \in Customer : other # customer => subs'[other] = subs[other]
      /\ Len(subs'[customer]) = Len(subs[customer])
      /\ subs'[customer][i] = row \/ subs'[customer][i] = subs[customer][i]
      /\ \A j \in 1 .. Len(subs[customer]) : j # i => subs'[customer][j] = subs[customer][j]
  <2>1. CASE UNCHANGED subs
    BY <1>1, <2>1
  <2>2. CASE subs' = [subs EXCEPT ![CustomerOf(c)][setter[c].sub].status = "canceled",
                                  ![CustomerOf(c)][setter[c].sub].ended = "call"]
    <3>1. subs' = [subs EXCEPT ![customer] = [subs[customer] EXCEPT ![i] = row]]
      BY <1>1, <1>4, <1>10, <1>11, <2>2
    <3> HIDE DEF row
    <3> QED
      BY <1>1, <1>5, <3>1, StatusChanged
  <2> QED
    BY <2>1, <2>2 DEF CancelSubscription
<1> HIDE DEF row
<1>7. \A other \in Customer : PaidFor(other)' => PaidFor(other)
  <2> SUFFICES PaidFor(customer)' => PaidFor(customer)
    BY <1>6 DEF PaidFor
  <2>1. subs[customer] # <<>>
    BY <1>1
  <2> QED
    BY <1>1, <1>4, <1>5, <1>6, <2>1, SMTT(30) DEF PaidFor
<1>8. ASSUME NEW d \in Caller PROVE KnowsCustomer(d)'
  <2>1. CASE d = c
    <3>1. CustomerOf(c)' = customer
      BY <1>3, <1>10 DEF CustomerOf
    <3>2. c \notin late /\ ~setter[c].blind => i = Len(subs[customer]) /\ subs[customer][i].trial
      BY <1>1, <1>10, <1>11 DEF KnowsCustomer
    <3>3. c \notin late /\ ~setter[c].blind => ~PaidFor(customer)'
      BY <1>1, <1>5, <1>6, <3>2 DEF PaidFor
    <3> QED
      BY <1>1, <1>3, <2>1, <3>1, <3>3 DEF KnowsCustomer, Selling
  <2>2. CASE d # c
    <3>1. KnowsCustomer(d) /\ setter'[d] = setter[d] /\ CustomerOf(d)' = CustomerOf(d)
      BY <1>3, <2>2 DEF SalesIInv, CustomerOf
    <3>2. CASE setter[d].step \notin Selling
      BY <3>1, <3>2 DEF KnowsCustomer, Selling
    <3>3. CASE setter[d].step \in Selling
      <4>1. CustomerOf(d) \in Customer
        BY <3>1, <3>3 DEF KnowsCustomer, CustomerOf, Customer
      <4>2. Len(subs'[CustomerOf(d)]) = Len(subs[CustomerOf(d)])
        BY <1>6, <4>1
      <4>3. \A j \in 1 .. Len(subs[CustomerOf(d)]) :
              subs'[CustomerOf(d)][j].trial = subs[CustomerOf(d)][j].trial
        BY <1>5, <1>6, <4>1
      <4> QED
        BY <1>1, <1>7, <3>1, <4>1, <4>2, <4>3 DEF KnowsCustomer
    <3> QED
      BY <3>2, <3>3
  <2> QED
    BY <2>1, <2>2
<1>9. ASSUME NEW other \in Customer PROVE Replaced(other)'
  <2>1. CASE other = customer
    BY <1>3, <1>10, <2>1 DEF Replaced, CustomerOf
  <2>2. CASE other # customer
    <3>1. Replaced(other) /\ subs'[other] = subs[other]
      BY <1>6, <2>2 DEF SalesIInv
    <3> QED
      BY <1>1, <1>3, <1>10, <2>2, <3>1 DEF Replaced, CustomerOf
  <2> QED
    BY <2>1, <2>2
<1> QED
  BY <1>3, <1>6, <1>8, <1>9 DEF SalesIInv

LEMMA CreateSubscriptionStep ==
  ASSUME SalesIInv, NEW c \in Caller, CreateSubscription(c)
  PROVE  SalesIInv'
<1> DEFINE customer == CustomerOf(c)
           row == [status |-> "active", trial |-> FALSE, ended |-> "no"]
           new == Append(subs[customer], row)
<1>1. /\ setter \in [Caller -> Setting] /\ setter[c].step = "create" /\ UNCHANGED unserved
      /\ subs \in [Customer -> Seq(Subscription)] /\ customer \in Customer
      /\ subs' = [subs EXCEPT ![customer] = new] /\ KnowsCustomer(c)
  BY DEF CreateSubscription, SalesIInv, KnowsCustomer, Selling, CustomerOf, Customer
<1>2. PICK step \in {"finalize"} : Go(c, step)
  BY DEF CreateSubscription
<1>3. /\ setter' \in [Caller -> Setting]
      /\ setter'[c].step = "finalize" /\ setter'[c].workspace = setter[c].workspace
      /\ \A d \in Caller : d # c => setter'[d] = setter[d]
  BY <1>1, <1>2, GoTyped
<1>4. /\ row \in Subscription /\ row.ended = "no"
      /\ subs[customer] \in Seq(Subscription)
  BY <1>1 DEF Subscription
<1>5. /\ new \in Seq(Subscription) /\ Len(new) = Len(subs[customer]) + 1
      /\ new[Len(new)] = row
  <2> HIDE DEF row, customer
  <2> QED
    BY <1>4, AppendProperties
<1> HIDE DEF row, new, customer
<1>6. /\ subs' \in [Customer -> Seq(Subscription)] /\ subs'[customer] = new
      /\ \A other \in Customer : other # customer => subs'[other] = subs[other]
  BY <1>1, <1>5
<1>7. ASSUME NEW d \in Caller PROVE KnowsCustomer(d)'
  <2>1. CASE d = c
    BY <1>1, <1>3, <2>1 DEF KnowsCustomer, Selling
  <2>2. CASE d # c
    <3>1. /\ KnowsCustomer(d) /\ setter'[d] = setter[d] /\ CustomerOf(d)' = CustomerOf(d)
          /\ d \in late => d \in late'
          /\ setter[d].step # "idle" /\ CustomerOf(d) = customer => d \in late'
      BY <1>3, <2>2 DEF SalesIInv, CustomerOf, CreateSubscription, customer
    <3>2. CASE setter[d].step \notin Selling
      BY <3>1, <3>2 DEF KnowsCustomer, Selling
    <3>3. CASE setter[d].step \in Selling /\ CustomerOf(d) # customer
      <4>1. CustomerOf(d) \in Customer
        BY <3>1, <3>3 DEF KnowsCustomer, CustomerOf, Customer
      <4> QED
        BY <1>6, <3>1, <3>3, <4>1 DEF KnowsCustomer, PaidFor
    <3>4. CASE setter[d].step \in Selling /\ CustomerOf(d) = customer
      <4>1. d \in late'
        BY <3>1, <3>4 DEF Selling
      <4>2. Len(subs[customer]) \in Nat
        BY <1>4, LenProperties
      <4>3. 1 .. Len(subs[customer]) \subseteq 1 .. Len(subs'[customer])
        BY <1>5, <1>6, <4>2
      <4> QED
        BY <3>1, <3>4, <4>1, <4>3 DEF KnowsCustomer
    <3> QED
      BY <3>2, <3>3, <3>4
  <2> QED
    BY <2>1, <2>2
<1>8. ASSUME NEW other \in Customer PROVE Replaced(other)'
  <2>1. CASE other = customer
    BY <1>4, <1>5, <1>6, <2>1 DEF Replaced
  <2>2. CASE other # customer
    <3>1. Replaced(other) /\ subs'[other] = subs[other]
      BY <1>6, <2>2 DEF SalesIInv
    <3> QED
      BY <1>1, <1>3, <2>2, <3>1 DEF Replaced, CustomerOf, customer
  <2> QED
    BY <2>1, <2>2
<1> QED
  BY <1>3, <1>6, <1>7, <1>8 DEF SalesIInv

LEMMA StripeChangesStep ==
  ASSUME SalesIInv, NEW customer \in Customer, NEW i \in 1 .. MaxSubscriptions,
         NEW status \in SubStatus, StripeChanges(customer, i, status)
  PROVE  SalesIInv'
<1> DEFINE row == [subs[customer][i] EXCEPT !.status = status]
<1>1. /\ setter \in [Caller -> Setting] /\ UNCHANGED <<setter, unserved>>
      /\ subs \in [Customer -> Seq(Subscription)] /\ i \in 1 .. Len(subs[customer])
  BY LenProperties DEF StripeChanges, SalesIInv
<1>2. subs[customer][i] \in Subscription /\ DOMAIN subs[customer] = 1 .. Len(subs[customer])
  BY <1>1, ElementOfSeq
<1>3. row \in Subscription /\ row.ended = subs[customer][i].ended
        /\ row.trial = subs[customer][i].trial
  BY <1>2 DEF Subscription, SubStatus
<1>4. subs' = [subs EXCEPT ![customer] = [subs[customer] EXCEPT ![i] = row]]
  BY DEF StripeChanges
<1> HIDE DEF row
<1>5. /\ subs' \in [Customer -> Seq(Subscription)]
      /\ \A other \in Customer : other # customer => subs'[other] = subs[other]
      /\ Len(subs'[customer]) = Len(subs[customer])
      /\ subs'[customer][i] = row
      /\ \A j \in 1 .. Len(subs[customer]) : j # i => subs'[customer][j] = subs[customer][j]
  BY <1>1, <1>3, <1>4, StatusChanged
<1>6. ASSUME NEW d \in Caller PROVE KnowsCustomer(d)'
  <2>1. /\ KnowsCustomer(d) /\ setter'[d] = setter[d] /\ CustomerOf(d)' = CustomerOf(d)
        /\ d \in late => d \in late'
        /\ setter[d].step # "idle" /\ CustomerOf(d) = customer => d \in late'
    BY <1>1 DEF SalesIInv, CustomerOf, StripeChanges
  <2>2. CASE setter[d].step \notin Selling
    BY <2>1, <2>2 DEF KnowsCustomer, Selling
  <2>3. CASE setter[d].step \in Selling
    <3>1. CustomerOf(d) \in Customer
      BY <2>1, <2>3 DEF KnowsCustomer, CustomerOf, Customer
    <3> QED
      BY <1>5, <2>1, <2>3, <3>1 DEF KnowsCustomer, PaidFor, Selling
  <2> QED
    BY <2>2, <2>3
<1>7. ASSUME NEW other \in Customer PROVE Replaced(other)'
  <2>1. Replaced(other)
    BY DEF SalesIInv
  <2>2. DOMAIN subs'[customer] = 1 .. Len(subs[customer])
    BY <1>5, LenProperties
  <2>3. /\ Len(subs'[other]) = Len(subs[other]) /\ DOMAIN subs'[other] = DOMAIN subs[other]
        /\ \A j \in DOMAIN subs[other] : subs'[other][j].ended = subs[other][j].ended
    BY <1>2, <1>3, <1>5, <2>2
  <2> QED
    BY <1>1, <2>1, <2>3 DEF Replaced, CustomerOf
<1> QED
  BY <1>1, <1>5, <1>6, <1>7 DEF SalesIInv

\* What a call that sets a licence or sells a subscription has read is still so, unless
\* another overtook it.
LEMMA LicensesInvariance == LicensesSpec => [](LicenseIInv /\ SalesIInv)
<1>1. LicensesInit => LicenseIInv /\ SalesIInv
  <2> SUFFICES ASSUME LicensesInit PROVE LicenseIInv /\ SalesIInv
    OBVIOUS
  <2>1. /\ setter \in [Caller -> Setting] /\ \A c \in Caller : setter[c].step = "idle"
        /\ workspace = [w \in {} |-> {}]
    BY QuietTyped DEF LicensesInit
  <2>2. workspace \in [Existing -> WorkspaceRow]
    BY <2>1 DEF Existing
  <2>3. subs \in [Customer -> {<<>>, <<[status |-> "active", trial |-> TRUE, ended |-> "no"]>>}]
    BY DEF LicensesInit
  <2>4. \A s \in {<<>>, <<[status |-> "active", trial |-> TRUE, ended |-> "no"]>>} :
          s \in Seq(Subscription) /\ \A i \in DOMAIN s : s[i].ended = "no"
    <3> DEFINE trial == [status |-> "active", trial |-> TRUE, ended |-> "no"]
    <3>1. trial \in Subscription /\ trial.ended = "no"
      BY DEF Subscription
    <3> HIDE DEF trial
    <3>2. <<>> \in Seq(Subscription) /\ <<trial>> \in Seq(Subscription)
      BY <3>1
    <3>3. \A s \in {<<>>, <<trial>>} : \A i \in DOMAIN s : s[i] = trial
      OBVIOUS
    <3> QED
      BY <3>1, <3>2, <3>3 DEF trial
  <2> QED
    BY <2>1, <2>2, <2>3, <2>4
       DEF LicenseIInv, HoldsLicense, Writing, SalesIInv, KnowsCustomer, Selling, Replaced
<1>2. LicenseIInv /\ SalesIInv /\ [LicensesNext]_licensesVars => LicenseIInv' /\ SalesIInv'
  <2> SUFFICES ASSUME LicenseIInv, SalesIInv, [LicensesNext]_licensesVars
               PROVE  LicenseIInv' /\ SalesIInv'
    OBVIOUS
  <2>1. CASE UNCHANGED licensesVars
    BY <2>1 DEF licensesVars, LicenseIInv, HoldsLicense, Existing, SalesIInv, KnowsCustomer,
                CustomerOf, PaidFor, Replaced
  <2>2. ASSUME NEW w \in Workspace,
               CreateWorkspace(w) \/ DeleteWorkspace(w)
                 \/ \E status \in StripeStatus : UpdateWorkspace(w, status)
        PROVE  LicenseIInv' /\ SalesIInv'
    <3>1. /\ UNCHANGED <<setter, subs, unserved>> /\ late \subseteq late'
      BY <2>2 DEF CreateWorkspace, DeleteWorkspace, UpdateWorkspace
    <3>2. SalesIInv'
      BY <3>1, SaleStep DEF SalesIInv
    <3> QED
      BY <2>2, <3>2, WorkspaceStep
  <2>3. ASSUME NEW c \in Caller,
               \/ \E w \in Workspace, k \in LicenseKey : SetLicenseKey(c, w, k)
               \/ WriteKey(c)
               \/ \E ws \in SUBSET Workspace : PutLicenses(c, ws)
               \/ PutLicense(c)
               \/ \E w \in Workspace : SetLicense(c, w)
               \/ WriteMock(c)
        PROVE  LicenseIInv' /\ SalesIInv'
    BY <2>3, ReadLicenseStep, WriteKeyStep, PutLicenseStep, StartSaleStep, EndSaleStep
  <2>4. ASSUME NEW c \in Caller,
               \/ GetLatestSubscription(c) \/ CancelSubscription(c) \/ CreateSubscription(c)
               \/ CreateFails(c) \/ FinalizeInvoice(c) \/ Killed(c)
        PROVE  LicenseIInv' /\ SalesIInv'
    <3>1. SalesIInv'
      BY <2>4, GetLatestSubscriptionStep, CancelSubscriptionStep, CreateSubscriptionStep, EndSaleStep
    <3>2. /\ setter' \in [Caller -> Setting] /\ workspace' = workspace /\ Existing' = Existing
          /\ \A d \in Caller : d # c => (d \in late => d \in late')
      BY <2>4, <3>1 DEF SalesIInv, Existing, GetLatestSubscription, CancelSubscription,
         CreateSubscription, CreateFails, FinalizeInvoice, Killed
    <3>3. setter'[c].step \notin Writing /\ \A d \in Caller : d # c => setter'[d] = setter[d]
      <4>1. CASE Finish(c)
        BY <4>1, FinishTyped, QuietTyped DEF SalesIInv, Writing
      <4>2. ASSUME NEW step \in {"cancel", "create", "finalize"}, Go(c, step)
            PROVE  /\ setter'[c].step \notin Writing
                   /\ \A d \in Caller : d # c => setter'[d] = setter[d]
        BY <4>2, GoTyped DEF SalesIInv, Writing
      <4>3. ASSUME NEW next \in {"cancel", "create"}, NEW i, NEW blind,
                   setter' = [setter EXCEPT ![c].step = next, ![c].sub = i, ![c].blind = blind]
            PROVE  /\ setter'[c].step \notin Writing
                   /\ \A d \in Caller : d # c => setter'[d] = setter[d]
        BY <4>3 DEF SalesIInv, Writing, Setting
      <4>4. \A customer, i : NextStep(customer, i) \in {"cancel", "create", "idle"}
        BY DEF NextStep
      <4>5. CASE GetLatestSubscription(c)
        BY <4>1, <4>3, <4>4, <4>5 DEF GetLatestSubscription
      <4> QED
        BY <2>4, <4>1, <4>2, <4>5 DEF CancelSubscription, CreateSubscription, CreateFails,
           FinalizeInvoice, Killed
    <3> QED
      BY <3>1, <3>2, <3>3, LicenseStep DEF LicenseIInv, LicenseStays
  <2>5. ASSUME NEW customer \in Customer, NEW i \in 1 .. MaxSubscriptions, NEW status \in SubStatus,
               StripeChanges(customer, i, status)
        PROVE  LicenseIInv' /\ SalesIInv'
    <3>1. UNCHANGED <<setter, workspace>> /\ Existing' = Existing /\ late \subseteq late'
      BY <2>5 DEF StripeChanges, Existing
    <3> QED
      BY <2>5, <3>1, StripeChangesStep DEF LicenseIInv, HoldsLicense
  <2>6. ASSUME NEW customer \in Customer, PaidAlert(customer) PROVE LicenseIInv' /\ SalesIInv'
    BY <2>1, <2>6 DEF PaidAlert
  <2> QED
    BY <2>1, <2>2, <2>3, <2>4, <2>5, <2>6 DEF LicensesNext
<1> QED
  BY <1>1, <1>2, PTL DEF LicensesSpec

\* Setting a key of a licence loses the value of another only when calls overlapped.
THEOREM LicenseKeysKeptHolds == LicensesSpec => LicenseKeysKept
<1>1. LicenseIInv /\ SalesIInv /\ [LicensesNext]_licensesVars =>
        [\A w \in Existing, c \in Caller, p \in LicensePart :
           /\ setter[c].step \in {"write", "writeMock"} /\ setter'[c].step = "idle"
           /\ w \in DOMAIN workspace'
           /\ workspace'[w].license[p] # workspace[w].license[p]
           => p \in AskedParts(c) \/ c \in late]_licensesVars
  <2> SUFFICES ASSUME LicenseIInv, LicensesNext,
                      NEW w \in Existing, NEW c \in Caller, NEW p \in LicensePart,
                      setter[c].step \in {"write", "writeMock"}, setter'[c].step = "idle",
                      w \in DOMAIN workspace',
                      workspace'[w].license[p] # workspace[w].license[p],
                      c \notin late
               PROVE  p \in AskedParts(c)
    OBVIOUS
  <2>1. setter' # setter /\ workspace' # workspace
    <3>1. setter'[c] # setter[c] /\ workspace' # workspace
      OBVIOUS
    <3> QED
      BY <3>1
  <2>2. PICK d \in Caller : WriteKey(d) \/ WriteMock(d) \/ PutLicense(d)
    BY <2>1 DEF LicensesNext, CreateWorkspace, UpdateWorkspace, DeleteWorkspace, SetLicenseKey,
       PutLicenses, SetLicense, GetLatestSubscription, CancelSubscription, CreateSubscription,
       CreateFails, FinalizeInvoice, Killed, PaidAlert, StripeChanges, licensesVars
  <2>3. d = c /\ (WriteKey(c) \/ WriteMock(c))
    <3>1. d # c => setter'[c] = setter[c]
      BY <2>2 DEF WriteKey, WriteMock, PutLicense, Finish, LicenseIInv
    <3> QED
      BY <2>2, <3>1 DEF PutLicense
  <2>4. /\ setter[c].license \in License /\ setter[c].workspace \in Existing
        /\ workspace[setter[c].workspace].license = setter[c].license
    BY DEF LicenseIInv, HoldsLicense, Setting, Writing
  <2>5. CASE WriteKey(c)
    <3>1. PICK v \in KeyValues(c) :
            WriteLicense(setter[c].workspace,
                         WithParts(setter[c].license, PartsOf(setter[c].key), v))
      BY <2>5 DEF WriteKey
    <3> DEFINE license == WithParts(setter[c].license, PartsOf(setter[c].key), v)
    <3>2. v \in LicenseValue
      BY DEF KeyValues, LicenseValue
    <3>3. license \in License /\ (p \notin PartsOf(setter[c].key) => license[p] = setter[c].license[p])
      BY <2>4, <3>2, PartsTyped
    <3>4. setter[c].step = "write" /\ WriteLicense(setter[c].workspace, license)
      BY <2>5, <3>1 DEF WriteKey
    <3> HIDE DEF license
    <3>5. /\ w # setter[c].workspace => workspace'[w].license = workspace[w].license
          /\ workspace'[setter[c].workspace].license = license
      BY <2>4, <3>3, <3>4, WrittenLicense DEF LicenseStays
    <3> QED
      BY <2>4, <3>3, <3>4, <3>5 DEF AskedParts
  <2>6. CASE WriteMock(c)
    <3> DEFINE license == MockLicense(setter[c].license, c)
               row == [license |-> license, status |-> "active"]
    <3>1. p \notin {"products", "stripe_status"} => license[p] = setter[c].license[p]
      BY <2>4, MockTyped
    <3>2. row.license = license
      OBVIOUS
    <3>3. workspace' = [workspace EXCEPT ![setter[c].workspace] = row] /\ setter[c].step = "writeMock"
      BY <2>4, <2>6 DEF WriteMock, Exists
    <3> HIDE DEF license, row
    <3>4. /\ w # setter[c].workspace => workspace'[w] = workspace[w]
          /\ w = setter[c].workspace => workspace'[w] = row
      BY <3>3 DEF LicenseIInv, Existing
    <3> QED
      BY <2>4, <3>1, <3>2, <3>3, <3>4 DEF AskedParts
  <2> QED
    BY <2>3, <2>5, <2>6
<1> QED
  BY <1>1, LicensesInvariance, PTL DEF LicensesSpec, LicenseKeysKept

\* A customer is sold a second subscription only by calls that overlapped or that Stripe
\* did not show everything, and a trial that is cancelled is followed by one.
THEOREM SalesAreWholeHolds == LicensesSpec => SalesAreWhole
<1>1. LicenseIInv /\ SalesIInv /\ [LicensesNext]_licensesVars =>
        [\A c \in Caller :
           LET mine == subs[CustomerOf(c)] IN
             /\ setter[c].step = "create" /\ setter'[c].step = "finalize"
             /\ mine # <<>> /\ mine[Len(mine)].status = "active" /\ ~mine[Len(mine)].trial
             => c \in late \/ setter[c].blind]_licensesVars
  BY DEF SalesIInv, KnowsCustomer, PaidFor
<1>2. LicenseIInv /\ SalesIInv => TrialsAreReplaced
  BY DEF SalesIInv, Replaced, TrialsAreReplaced
<1> QED
  BY <1>1, <1>2, LicensesInvariance, PTL DEF LicensesSpec, SalesAreWhole, NotSoldTwice

=============================================================================
