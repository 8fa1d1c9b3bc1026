---------------------------- MODULE ExchangeProofs ----------------------------
(***************************************************************************)
(* Proofs about what a company exchanges with others: with an accounting   *)
(* system (AddSync, PastoWorkers), with the storage of documents           *)
(* (Documents), and with the handlers of events (EventBus).                *)
(***************************************************************************)
EXTENDS AddSync, PastoWorkers, Documents, EventBus, FiniteSetTheorems, FunctionTheorems,
        SequenceTheorems, WellFoundedInduction, NaturalsInduction, TLAPS

(* Requests to synchronise *)

HookCall == [step : {"none", "row", "report", "done"}, counter : Counter, req : Req \cup {NoReq},
             ok : BOOLEAN, errors : 0 .. 1, good : SUBSET Uuid, seen : ADDSyncState]

\* A webhook at work has found its request.
SyncTypes ==
  /\ request \in [Req -> Request \cup {NoReq}]
  /\ hook \in [Hook -> HookCall]
  /\ \A k \in Hook : hook[k].step = "row" =>
       hook[k].req \in Req /\ request[hook[k].req] \in Request

SyncIInv == SyncTypes /\ RemainingIsError

LEMMA NewTyped ==
  ASSUME NEW s \in ADDSyncState
  PROVE  New(s) \in Request /\ ~\E c \in Counter : New(s).pending[c] > 0
BY DEF New, Request

\* A step that writes one row.
LEMMA OneRequest ==
  ASSUME SyncIInv, NEW q \in Req, NEW row \in Request,
         request' = [request EXCEPT ![q] = row], undone \subseteq undone',
         (\E c \in Counter : row.pending[c] > 0) => row.state = "ERROR" \/ q \in undone'
  PROVE  /\ request' \in [Req -> Request \cup {NoReq}] /\ RemainingIsError'
         /\ \A p \in Req : request[p] \in Request => request'[p] \in Request
<1>1. request' \in [Req -> Request \cup {NoReq}] /\ request'[q] = row
      /\ \A p \in Req : p # q => request'[p] = request[p]
  BY DEF SyncIInv, SyncTypes
<1> QED
  BY <1>1 DEF SyncIInv, RemainingIsError, Asked

LEMMA RequestStep ==
  ASSUME SyncIInv, NEW q \in Req,
         \/ CreateSyncRequest(q) \/ NewSync(q) \/ MetadataWebhook(q)
         \/ \E isResult \in BOOLEAN : NotifyMetadataUploaded(q, isResult)
         \/ AddServiceSends(q)
  PROVE  SyncIInv'
<1>1. UNCHANGED <<hook, undone>> /\ undone \subseteq undone'
  BY DEF CreateSyncRequest, NewSync, MetadataWebhook, NotifyMetadataUploaded, AddServiceSends
<1>2. CASE CreateSyncRequest(q) \/ NewSync(q) \/ MetadataWebhook(q)
  <2>1. PICK s \in ADDSyncState : request' = [request EXCEPT ![q] = New(s)]
    BY <1>2 DEF CreateSyncRequest, NewSync, MetadataWebhook, ADDSyncState
  <2>2. /\ request' \in [Req -> Request \cup {NoReq}] /\ RemainingIsError'
        /\ \A p \in Req : request[p] \in Request => request'[p] \in Request
    BY <1>1, <2>1, NewTyped, OneRequest
  <2> QED
    BY <1>1, <2>2 DEF SyncIInv, SyncTypes
<1>3. CASE UNCHANGED request
  BY <1>1, <1>3 DEF SyncIInv, SyncTypes, RemainingIsError, Asked
<1>4. CASE \E isResult \in BOOLEAN : NotifyMetadataUploaded(q, isResult)
  <2> DEFINE row == [request[q] EXCEPT !.pending = [c \in Counter |-> 0]]
  <2>1. Asked(q) /\ request[q] \in Request
    BY <1>4 DEF NotifyMetadataUploaded, SyncIInv, SyncTypes, Asked
  <2>2. row \in Request /\ ~\E c \in Counter : row.pending[c] > 0
    BY <2>1 DEF Request
  <2>3. request' = [request EXCEPT ![q] = row] \/ UNCHANGED request
    BY <1>4 DEF NotifyMetadataUploaded
  <2> HIDE DEF row
  <2>4. CASE request' = [request EXCEPT ![q] = row]
    <3>1. /\ request' \in [Req -> Request \cup {NoReq}] /\ RemainingIsError'
          /\ \A p \in Req : request[p] \in Request => request'[p] \in Request
      BY <1>1, <2>2, <2>4, OneRequest
    <3> QED
      BY <1>1, <3>1 DEF SyncIInv, SyncTypes
  <2> QED
    BY <1>3, <2>3, <2>4
<1>5. CASE AddServiceSends(q)
  <2> DEFINE row == [request[q] EXCEPT !.state = "SENT"]
  <2>1. Asked(q) /\ request[q] \in Request /\ request[q].state # "ERROR"
    BY <1>5 DEF AddServiceSends, SyncIInv, SyncTypes, Asked
  <2>2. row \in Request /\ row.pending = request[q].pending
    BY <2>1 DEF Request, ADDSyncState
  <2>3. request' = [request EXCEPT ![q] = row]
    BY <1>5 DEF AddServiceSends
  <2> HIDE DEF row
  <2>4. (\E c \in Counter : row.pending[c] > 0) => q \in undone'
    BY <1>1, <2>1, <2>2 DEF SyncIInv, RemainingIsError
  <2>5. /\ request' \in [Req -> Request \cup {NoReq}] /\ RemainingIsError'
        /\ \A p \in Req : request[p] \in Request => request'[p] \in Request
    BY <1>1, <2>2, <2>3, <2>4, OneRequest
  <2> QED
    BY <1>1, <2>5 DEF SyncIInv, SyncTypes
<1> QED
  BY <1>2, <1>4, <1>5

LEMMA GoTyped ==
  ASSUME SyncTypes, NEW k \in Hook, NEW step \in {"report", "done"}, Go(k, step)
  PROVE  /\ hook' \in [Hook -> HookCall]
         /\ \A j \in Hook : hook'[j].step = "row" => hook'[j] = hook[j]
<1> DEFINE done == [NoHook EXCEPT !.step = "done"]
           on == [hook[k] EXCEPT !.step = step]
<1>1. done \in HookCall /\ done.step = "done"
  <2>1. NoHook \in HookCall
    BY DEF NoHook, HookCall, Counter, ADDSyncState
  <2> QED
    BY <2>1 DEF HookCall
<1>2. on \in HookCall /\ on.step = step
  BY DEF SyncTypes, HookCall
<1>3. PICK new \in {done, on} : hook' = [hook EXCEPT ![k] = new]
  BY DEF Go
<1> HIDE DEF done, on
<1> QED
  BY <1>1, <1>2, <1>3 DEF SyncTypes

LEMMA WebhookStep ==
  ASSUME SyncIInv, NEW k \in Hook,
         \/ \E c \in Counter, q \in Req, errors \in 0 .. 1, good \in SUBSET Uuid :
              Webhook(k, c, q, TRUE, errors, good)
         \/ \E c \in Counter, q \in Req : Webhook(k, c, q, FALSE, 0, {})
  PROVE  SyncIInv'
<1>1. PICK c \in Counter, q \in Req, ok \in BOOLEAN, errors \in 0 .. 1, good \in SUBSET Uuid :
        Webhook(k, c, q, ok, errors, good)
  <2>1. 0 \in 0 .. 1 /\ {} \in SUBSET Uuid
    OBVIOUS
  <2> QED
    BY <2>1
<1>2. request[q] \in Request
  BY <1>1 DEF SyncIInv, SyncTypes, Webhook, Asked
<1>3. SyncTypes'
  BY <1>1, <1>2 DEF SyncIInv, SyncTypes, Webhook, HookCall, Request
<1> QED
  BY <1>1, <1>3 DEF SyncIInv, RemainingIsError, Asked, Webhook

LEMMA WriteRequestStep ==
  ASSUME SyncIInv, NEW k \in Hook, WriteRequest(k)
  PROVE  SyncIInv'
<1>0. PICK q : q = hook[k].req
  OBVIOUS
<1> DEFINE pending == IF hook[k].ok
                      THEN [request[q].pending EXCEPT ![hook[k].counter] = hook[k].errors]
                      ELSE request[q].pending
           row == [state |-> StateAfter(k), pending |-> pending]
<1>1. /\ hook[k] \in HookCall /\ q \in Req /\ request[q] \in Request
      /\ undone' = IF request[q].state # hook[k].seen THEN undone \cup {q} ELSE undone
      /\ request' = [request EXCEPT ![q] = row]
      /\ Go(k, AfterRow(k))
  BY <1>0 DEF WriteRequest, SyncIInv, SyncTypes
<1>2. StateAfter(k) \in ADDSyncState
  BY <1>1 DEF StateAfter, HookCall, ADDSyncState
<1>3. pending \in [Counter -> 0 .. 1]
  BY <1>1 DEF HookCall, Request
<1>4. ASSUME NEW c \in Counter, pending[c] > 0, StateAfter(k) # "ERROR" PROVE q \in undone'
  <2>1. hook[k].ok /\ hook[k].errors = 0 /\ hook[k].seen # "ERROR"
    BY <1>1, <1>4 DEF StateAfter, HookCall
  <2>2. request[q].pending[c] > 0
    BY <1>1, <1>3, <1>4, <2>1 DEF HookCall, Request
  <2>3. Asked(q)
    BY <1>1, AddSyncAssumption DEF Asked
  <2>4. request[q].state = "ERROR" \/ q \in undone
    BY <1>1, <2>2, <2>3 DEF SyncIInv, RemainingIsError
  <2> QED
    BY <1>1, <2>1, <2>4
<1>5. row \in Request /\ row.state = StateAfter(k) /\ row.pending = pending
  BY <1>2, <1>3 DEF Request
<1>6. undone \subseteq undone'
  BY <1>1
<1> HIDE DEF pending, row
<1>7. /\ request' \in [Req -> Request \cup {NoReq}] /\ RemainingIsError'
      /\ \A p \in Req : request[p] \in Request => request'[p] \in Request
  BY <1>1, <1>4, <1>5, <1>6, OneRequest
<1>8. hook' \in [Hook -> HookCall] /\ \A j \in Hook : hook'[j].step = "row" => hook'[j] = hook[j]
  BY <1>1, GoTyped DEF SyncIInv, AfterRow
<1> QED
  BY <1>7, <1>8 DEF SyncIInv, SyncTypes

LEMMA QuietHookStep ==
  ASSUME SyncIInv, NEW k \in Hook,
         WriteRequestFails(k) \/ WriteReports(k) \/ WebhookDies(k)
  PROVE  SyncIInv'
<1>1. UNCHANGED <<request, undone>> /\ \E step \in {"report", "done"} : Go(k, step)
  BY DEF WriteRequestFails, WriteReports, WebhookDies, AfterRow
<1>2. SyncTypes'
  BY <1>1, GoTyped DEF SyncIInv, SyncTypes
<1> QED
  BY <1>1, <1>2 DEF SyncIInv, RemainingIsError, Asked

\* What remains to be sent or cancelled shows as an error, unless a state was
\* overwritten with an older one (RemainingIsError).
THEOREM RemainingIsErrorHolds == SyncSpec => []RemainingIsError
<1>1. SyncInit => SyncIInv
  BY DEF SyncInit, SyncIInv, SyncTypes, RemainingIsError, Asked, NoHook, HookCall, Counter,
         ADDSyncState
<1>2. SyncIInv /\ [SyncNext]_syncVars => SyncIInv'
  <2> SUFFICES ASSUME SyncIInv, [SyncNext]_syncVars PROVE SyncIInv'
    OBVIOUS
  <2>1. CASE \E q \in Req :
               \/ CreateSyncRequest(q) \/ NewSync(q) \/ MetadataWebhook(q)
               \/ \E isResult \in BOOLEAN : NotifyMetadataUploaded(q, isResult)
               \/ AddServiceSends(q)
    BY <2>1, RequestStep
  <2>2. CASE \E k \in Hook :
               \/ \E c \in Counter, q \in Req, errors \in 0 .. 1, good \in SUBSET Uuid :
                    Webhook(k, c, q, TRUE, errors, good)
               \/ \E c \in Counter, q \in Req : Webhook(k, c, q, FALSE, 0, {})
    BY <2>2, WebhookStep
  <2>3. CASE \E k \in Hook : WriteRequest(k)
    BY <2>3, WriteRequestStep
  <2>4. CASE \E k \in Hook : WriteRequestFails(k) \/ WriteReports(k) \/ WebhookDies(k)
    BY <2>4, QuietHookStep
  <2>5. CASE UNCHANGED syncVars
    BY <2>5 DEF syncVars, SyncIInv, SyncTypes, RemainingIsError, Asked
  <2> QED
    BY <2>1, <2>2, <2>3, <2>4, <2>5 DEF SyncNext
<1>3. SyncIInv => RemainingIsError
  BY DEF SyncIInv
<1> QED
  BY <1>1, <1>2, <1>3, PTL DEF SyncSpec
-----------------------------------------------------------------------------
(* Workers of the ADD *)

Buying == [step : {"none", "buy", "store", "done"}, site : Site \cup {NoPurchase.site},
           worker : Nat, missed : BOOLEAN]

WorkerTypes ==
  /\ made \in [Site -> Nat]
  /\ site \in [Site -> [worker : Nat, installed : BOOLEAN]]
  /\ purchase \in [Purchase -> Buying]
  /\ connector \in [Site -> BOOLEAN]
  /\ reset \in [done : SUBSET Site, announced : SUBSET Site]

\* A call about to buy for a workspace that has had a worker knows, or the workspace
\* never got that one.
BuyerKnows(k) ==
  /\ purchase[k].step \in {"buy", "store"} => purchase[k].site \in Site
  /\ purchase[k].step = "buy" =>
       made[purchase[k].site] = 0 \/ purchase[k].missed \/ purchase[k].site \in orphaned
  /\ purchase[k].step = "store" => purchase[k].worker > 0

\* A worker that was made is stored, about to be, or lost.
MadeIsKnown(w) ==
  made[w] > 0 => site[w].worker > 0 \/ BeingStored(w) \/ w \in orphaned

WorkersIInv ==
  /\ WorkerTypes
  /\ \A k \in Purchase : BuyerKnows(k)
  /\ \A w \in Site : MadeIsKnown(w)
  /\ PastoDidIt

LEMMA NoPurchaseTyped == NoPurchase \in Buying
BY DEF NoPurchase, Buying

LEMMA CreateWorkerStep ==
  ASSUME WorkersIInv, NEW k \in Purchase, NEW w \in Site, CreateWorker(k, w)
  PROVE  WorkersIInv'
<1> DEFINE new == [NoPurchase EXCEPT !.step = "buy", !.site = w, !.missed = BeingStored(w)]
<1>1. /\ UNCHANGED <<made, site, orphaned, connector, refused, reset>>
      /\ purchase' = [purchase EXCEPT ![k] = new]
      /\ purchase[k].step = "none" /\ site[w].worker = 0
  BY DEF CreateWorker, configVars
<1>2. BeingStored(w) \in BOOLEAN
  BY DEF BeingStored
<1>3. new \in Buying /\ new.step = "buy" /\ new.site = w /\ new.missed = BeingStored(w)
  BY <1>2, NoPurchaseTyped DEF Buying
<1> HIDE DEF new
<1>4. /\ purchase' \in [Purchase -> Buying] /\ purchase'[k] = new
      /\ \A j \in Purchase : j # k => purchase'[j] = purchase[j]
  BY <1>1, <1>3 DEF WorkersIInv, WorkerTypes
<1>5. \A v \in Site : BeingStored(v) => BeingStored(v)'
  BY <1>1, <1>4 DEF BeingStored
<1>6. BuyerKnows(k)'
  <2>1. made[w] > 0 => BeingStored(w) \/ w \in orphaned
    BY <1>1 DEF WorkersIInv, MadeIsKnown
  <2> QED
    BY <1>1, <1>3, <1>4, <2>1 DEF BuyerKnows, WorkersIInv, WorkerTypes
<1> QED
  BY <1>1, <1>4, <1>5, <1>6 DEF WorkersIInv, WorkerTypes, BuyerKnows, MadeIsKnown, PastoDidIt

LEMMA BuyStep ==
  ASSUME WorkersIInv, NEW k \in Purchase, BuyWorker(k) \/ BuyWorkerUnheard(k)
  PROVE  WorkersIInv'
<1>0. PICK w : w = purchase[k].site
  OBVIOUS
<1>1. /\ UNCHANGED <<site, connector, refused, reset>> /\ orphaned \subseteq orphaned'
      /\ purchase[k].step = "buy" /\ made' = [made EXCEPT ![w] = @ + 1]
  BY <1>0 DEF BuyWorker, BuyWorkerUnheard, configVars
<1>2. w \in Site /\ made[w] \in Nat /\ made'[w] = made[w] + 1 /\ made' \in [Site -> Nat]
      /\ \A v \in Site : v # w => made'[v] = made[v]
  BY <1>0, <1>1 DEF WorkersIInv, WorkerTypes, BuyerKnows
<1>3. PICK n \in Nat, step \in {"store", "done"} :
        /\ purchase' = Bought(k, n, step)
        /\ step = "store" => n > 0
        /\ step = "done" => w \in orphaned'
  <2>1. CASE BuyWorker(k)
    <3>1. purchase' = Bought(k, made[w] + 1, "store")
      BY <1>0, <2>1 DEF BuyWorker
    <3>2. made[w] + 1 \in Nat /\ made[w] + 1 > 0
      BY <1>2
    <3> QED
      BY <3>1, <3>2
  <2>2. CASE BuyWorkerUnheard(k)
    BY <1>0, <2>2 DEF BuyWorkerUnheard
  <2> QED
    BY <2>1, <2>2
<1>4. ASSUME NEW j \in Purchase
      PROVE  /\ purchase'[j] \in Buying
             /\ j = k => /\ purchase'[j].step = step /\ purchase'[j].worker = n
                         /\ purchase'[j].site = w
             /\ j # k => /\ purchase'[j].step = purchase[j].step
                         /\ purchase'[j].worker = purchase[j].worker
                         /\ purchase'[j].site = purchase[j].site
                         /\ (purchase[j].missed => purchase'[j].missed)
                         /\ (purchase[j].step = "buy" /\ purchase[j].site = w => purchase'[j].missed)
  <2>1. purchase[j] \in Buying /\ purchase[k] \in Buying
    BY DEF WorkersIInv, WorkerTypes
  <2>2. CASE j = k
    <3>1. purchase'[j] = [purchase[k] EXCEPT !.step = step, !.worker = n]
      BY <1>3, <2>2 DEF Bought
    <3> QED
      BY <1>0, <2>1, <2>2, <3>1 DEF Buying
  <2>3. CASE j # k /\ purchase[j].step = "buy" /\ purchase[j].site = w
    <3>1. purchase'[j] = [purchase[j] EXCEPT !.missed = TRUE]
      BY <1>0, <1>3, <2>3 DEF Bought
    <3> QED
      BY <2>1, <2>3, <3>1 DEF Buying
  <2>4. CASE j # k /\ ~(purchase[j].step = "buy" /\ purchase[j].site = w)
    BY <1>0, <1>3, <2>1, <2>4 DEF Bought
  <2> QED
    BY <2>2, <2>3, <2>4
<1>5. WorkerTypes'
  <2>1. purchase' = [j \in Purchase |-> purchase'[j]]
    BY <1>3 DEF Bought
  <2>2. purchase' \in [Purchase -> Buying]
    BY <1>4, <2>1
  <2> QED
    BY <1>1, <1>2, <2>2 DEF WorkersIInv, WorkerTypes
<1>6. ASSUME NEW j \in Purchase PROVE BuyerKnows(j)'
  <2>1. BuyerKnows(j)
    BY DEF WorkersIInv
  <2>2. CASE j = k
    BY <1>2, <1>3, <1>4, <2>2 DEF BuyerKnows
  <2>3. CASE j # k
    BY <1>1, <1>2, <1>4, <2>1, <2>3 DEF BuyerKnows
  <2> QED
    BY <2>2, <2>3
<1>7. ASSUME NEW v \in Site PROVE MadeIsKnown(v)'
  <2>1. MadeIsKnown(v)
    BY DEF WorkersIInv
  <2>2. CASE v = w
    <3>1. step = "store" => BeingStored(v)'
      BY <1>4, <2>2 DEF BeingStored
    <3> QED
      BY <1>3, <2>2, <3>1 DEF MadeIsKnown
  <2>3. CASE v # w
    <3>1. BeingStored(v) => BeingStored(v)'
      BY <1>1, <1>4, <2>3 DEF BeingStored
    <3> QED
      BY <1>1, <1>2, <2>1, <2>3, <3>1 DEF MadeIsKnown
  <2> QED
    BY <2>2, <2>3
<1> QED
  BY <1>1, <1>5, <1>6, <1>7 DEF WorkersIInv, PastoDidIt

\* A call ends: what it was about to store is stored, or lost.
LEMMA EndPurchaseStep ==
  ASSUME WorkersIInv, NEW k \in Purchase,
         BuyWorkerRefused(k) \/ StoreWorker(k) \/ StoreWorkerFails(k)
  PROVE  WorkersIInv'
<1>0. PICK w : w = purchase[k].site
  OBVIOUS
<1> DEFINE new == [purchase[k] EXCEPT !.step = "done"]
<1>1. /\ UNCHANGED <<made, connector, refused, reset>> /\ orphaned \subseteq orphaned'
      /\ purchase' = [purchase EXCEPT ![k] = new]
      /\ purchase[k].step \in {"buy", "store"}
      /\ \/ site' = site /\ (purchase[k].step = "buy" \/ w \in orphaned')
         \/ site' = [site EXCEPT ![w].worker = purchase[k].worker] /\ purchase[k].step = "store"
  BY <1>0 DEF BuyWorkerRefused, StoreWorker, StoreWorkerFails, configVars
<1>2. w \in Site /\ purchase[k] \in Buying /\ (purchase[k].step = "store" => purchase[k].worker > 0)
  BY <1>0, <1>1 DEF WorkersIInv, WorkerTypes, BuyerKnows
<1>3. new \in Buying /\ new.step = "done"
  BY <1>2 DEF Buying
<1> HIDE DEF new
<1>4. /\ purchase' \in [Purchase -> Buying] /\ purchase'[k] = new
      /\ \A j \in Purchase : j # k => purchase'[j] = purchase[j]
  BY <1>1, <1>3 DEF WorkersIInv, WorkerTypes
<1>5. /\ site' \in [Site -> [worker : Nat, installed : BOOLEAN]]
      /\ \A v \in Site : site'[v].installed = site[v].installed
      /\ \A v \in Site : v # w => site'[v] = site[v]
  <2>1. site \in [Site -> [worker : Nat, installed : BOOLEAN]]
    BY DEF WorkersIInv, WorkerTypes
  <2>2. CASE site' = [site EXCEPT ![w].worker = purchase[k].worker]
    <3> DEFINE stored == [site[w] EXCEPT !.worker = purchase[k].worker]
    <3>1. stored \in [worker : Nat, installed : BOOLEAN] /\ stored.installed = site[w].installed
      BY <1>2, <2>1 DEF Buying
    <3>2. site' = [site EXCEPT ![w] = stored]
      BY <2>2
    <3> HIDE DEF stored
    <3> QED
      BY <1>2, <2>1, <3>1, <3>2
  <2> QED
    BY <1>1, <2>1, <2>2
<1>6. ASSUME NEW j \in Purchase PROVE BuyerKnows(j)'
  BY <1>1, <1>3, <1>4, <1>6 DEF WorkersIInv, BuyerKnows
<1>7. ASSUME NEW v \in Site PROVE MadeIsKnown(v)'
  <2>1. MadeIsKnown(v)
    BY DEF WorkersIInv
  <2>2. CASE v = w /\ purchase[k].step = "store"
    <3>1. w \in orphaned' \/ site'[w].worker = purchase[k].worker
      BY <1>1, <1>2, <2>2 DEF WorkersIInv, WorkerTypes
    <3> QED
      BY <1>2, <2>2, <3>1 DEF MadeIsKnown
  <2>3. CASE v # w \/ purchase[k].step # "store"
    <3>1. BeingStored(v) => BeingStored(v)'
      BY <1>0, <1>4, <2>3 DEF BeingStored
    <3>2. site[v].worker > 0 => site'[v].worker > 0
      BY <1>1, <1>2, <1>5, <2>3 DEF WorkersIInv, WorkerTypes
    <3> QED
      BY <1>1, <2>1, <3>1, <3>2 DEF MadeIsKnown
  <2> QED
    BY <2>2, <2>3
<1>8. PastoDidIt'
  BY <1>1, <1>5 DEF WorkersIInv, PastoDidIt
<1> QED
  BY <1>1, <1>4, <1>5, <1>6, <1>7, <1>8 DEF WorkersIInv, WorkerTypes

LEMMA ConfigStep ==
  ASSUME WorkersIInv, NEW w \in Site, ConfigWebhook(w) \/ ResetLicense(w)
  PROVE  WorkersIInv'
<1>1. UNCHANGED <<made, purchase, orphaned>>
  BY DEF ConfigWebhook, ResetLicense, workerVars
<1>2. CASE ConfigWebhook(w)
  <2> DEFINE installed == [site[w] EXCEPT !.installed = TRUE]
  <2>1. site[w] \in [worker : Nat, installed : BOOLEAN]
    BY DEF WorkersIInv, WorkerTypes
  <2>2. /\ installed \in [worker : Nat, installed : BOOLEAN]
        /\ installed.worker = site[w].worker
    BY <2>1
  <2>3. site' = site \/ site' = [site EXCEPT ![w] = installed]
    BY <1>2 DEF ConfigWebhook
  <2> HIDE DEF installed
  <2>4. /\ site' \in [Site -> [worker : Nat, installed : BOOLEAN]]
        /\ \A v \in Site : site'[v].worker = site[v].worker
        /\ \A v \in Site : v # w => site'[v] = site[v]
    BY <2>2, <2>3 DEF WorkersIInv, WorkerTypes
  <2>5. /\ connector' \in [Site -> BOOLEAN] /\ reset' = reset
        /\ \A v \in Site : connector[v] \/ v \in refused => connector'[v] \/ v \in refused'
        /\ connector'[w] \/ w \in refused'
    BY <1>2 DEF ConfigWebhook, WorkersIInv, WorkerTypes
  <2>6. PastoDidIt'
    BY <2>4, <2>5 DEF WorkersIInv, PastoDidIt
  <2> QED
    BY <1>1, <2>4, <2>5, <2>6 DEF WorkersIInv, WorkerTypes, BuyerKnows, MadeIsKnown, BeingStored
<1>3. CASE ResetLicense(w)
  <2>1. UNCHANGED <<site, connector, refused>>
    BY <1>3 DEF ResetLicense, workerVars
  <2>2. /\ reset'.done = reset.done \cup {w}
        /\ reset'.announced \in {reset.announced, reset.announced \cup {w}}
        /\ reset' \in [done : SUBSET Site, announced : SUBSET Site]
    <3>1. reset \in [done : SUBSET Site, announced : SUBSET Site]
      BY DEF WorkersIInv, WorkerTypes
    <3> QED
      BY <1>3, <3>1 DEF ResetLicense
  <2>3. PastoDidIt'
    BY <2>1, <2>2 DEF WorkersIInv, PastoDidIt
  <2> QED
    BY <1>1, <2>1, <2>2, <2>3 DEF WorkersIInv, WorkerTypes, BuyerKnows, MadeIsKnown, BeingStored
<1> QED
  BY <1>2, <1>3
LEMMA WorkersInit == PastoInit => WorkersIInv
<1> SUFFICES ASSUME PastoInit PROVE WorkersIInv
  OBVIOUS
<1>1. WorkerTypes
  BY NoPurchaseTyped DEF PastoInit, WorkerTypes
<1>2. \A k \in Purchase : purchase[k].step = "none"
  BY DEF PastoInit, NoPurchase
<1>3. \A w \in Site : made[w] = 0 /\ ~site[w].installed
  BY DEF PastoInit
<1>4. reset.announced = {}
  BY DEF PastoInit
<1> QED
  BY <1>1, <1>2, <1>3, <1>4 DEF WorkersIInv, BuyerKnows, MadeIsKnown, PastoDidIt

LEMMA WorkersStep ==
  ASSUME WorkersIInv, [PastoNext]_pastoVars PROVE WorkersIInv'
<1>1. CASE WorkersNext
  <2>1. CASE \E k \in Purchase, w \in Site : CreateWorker(k, w)
    BY <2>1, CreateWorkerStep
  <2>2. CASE \E k \in Purchase : BuyWorker(k) \/ BuyWorkerUnheard(k)
    BY <2>2, BuyStep
  <2>3. CASE \E k \in Purchase : BuyWorkerRefused(k) \/ StoreWorker(k) \/ StoreWorkerFails(k)
    BY <2>3, EndPurchaseStep
  <2> QED
    BY <1>1, <2>1, <2>2, <2>3 DEF WorkersNext
<1>2. CASE ConfigNext
  BY <1>2, ConfigStep DEF ConfigNext
<1>3. CASE ListNext \/ UNCHANGED pastoVars
  <2>1. UNCHANGED <<made, site, purchase, orphaned, connector, refused, reset>>
    BY <1>3 DEF pastoVars, workerVars, configVars, ListNext, CompanyWebhook, DeleteMissing, Upsert,
                StatementFails, ReportEnds, ReportDies, Link
  <2> QED
    BY <2>1 DEF WorkersIInv, WorkerTypes, BuyerKnows, MadeIsKnown, BeingStored, PastoDidIt
<1> QED
  BY <1>1, <1>2, <1>3 DEF PastoNext

\* A workspace gets a second worker only by calls that overlap or a worker it never
\* stored; what it has installed or announced, Pasto has done (WorkersAgree).
THEOREM WorkersAgreeHolds == PastoSpec => WorkersAgree
<1> DEFINE Second ==
      \A k \in Purchase, w \in Site :
        made'[w] > made[w] /\ made[w] > 0 /\ purchase[k].site = w
          /\ purchase[k].step = "buy" /\ purchase'[k].step # "buy" =>
            purchase[k].missed \/ w \in orphaned
<1>1. WorkersIInv /\ [PastoNext]_pastoVars => WorkersIInv'
  BY WorkersStep
<1>2. WorkersIInv => PastoDidIt
  BY DEF WorkersIInv
<1>3. WorkersIInv => Second
  BY DEF WorkersIInv, WorkerTypes, BuyerKnows
<1>4. WorkersIInv /\ [PastoNext]_pastoVars => [Second]_pastoVars
  BY <1>3
<1> QED
  BY WorkersInit, <1>1, <1>2, <1>4, PTL DEF PastoSpec, WorkersAgree, SecondWorkerNeedsOverlap

-----------------------------------------------------------------------------
(* The list of companies *)

Listing == [step : {"none", "delete", "upsert", "done", "died"}, site : Site \cup {NoReport.site},
            listed : SUBSET PastoId, existing : SUBSET PastoId, todo : SUBSET PastoId,
            alone : BOOLEAN]

ListTypes ==
  /\ owner \in [PastoId -> SUBSET Site]
  /\ link \subseteq Firm \X PastoId
  /\ report \in [Report -> Listing]
  /\ \A d \in Report : Running(d) => report[d].site \in Site

\* The rows of a workspace while a list that nobody overlaps is applied: those that were
\* there, then those of them that are listed and what was inserted.
AppliesWell(d) ==
  Running(d) /\ report[d].alone =>
    LET w == report[d].site IN
    /\ \A e \in Report : e # d => ~Running(e)
    /\ report[d].step = "delete" => /\ report[d].existing = RowsOf(w)
                                    /\ report[d].todo = report[d].listed
    /\ report[d].step = "upsert" =>
         /\ RowsOf(w) \subseteq report[d].listed
         /\ report[d].existing \cap report[d].listed \subseteq RowsOf(w)
         /\ \A p \in report[d].listed \ report[d].todo : owner[p] # {}

\* Primary key of the table, and the one column of a company with its link.
OneOwner == \A p \in PastoId : \A v, w \in owner[p] : v = w

OneLink == \A l, m \in link : l[1] = m[1] => l = m

ListIInv ==
  /\ ListTypes
  /\ OneOwner /\ OneLink
  /\ \A d \in Report : AppliesWell(d) /\ (Running(d) => report[d].todo \subseteq report[d].listed)

LEMMA LowerIds ==
  /\ \A i \in RawId : Lower[i] \in PastoId
  /\ \A p \in PastoId : p \in RawId /\ Lower[p] = p
BY PastoWorkersAssumption DEF PastoId

LEMMA NoReportTyped == NoReport \in Listing
BY DEF NoReport, Listing

\* A list is delivered.
LEMMA CompanyWebhookStep ==
  ASSUME ListIInv, NEW d \in Report, NEW w \in Site, NEW ids \in SUBSET RawId,
         CompanyWebhook(d, w, ids)
  PROVE  ListIInv'
<1>1. UNCHANGED <<owner, link>>
  BY DEF CompanyWebhook
<1>2. Listed(ids) \subseteq PastoId /\ RowsOf(w) \subseteq PastoId
  BY DEF Listed, PastoId, RowsOf
<1> DEFINE quiet == \A f \in Report \ {d} : ~Running(f)
           new == [step |-> "delete", site |-> w, listed |-> Listed(ids), existing |-> RowsOf(w),
                   todo |-> Listed(ids), alone |-> quiet]
<1>3. quiet \in BOOLEAN
  OBVIOUS
<1> HIDE DEF quiet
<1>4. /\ new \in Listing /\ new.step = "delete" /\ new.site = w /\ new.listed = Listed(ids)
      /\ new.existing = RowsOf(w) /\ new.todo = Listed(ids) /\ (new.alone <=> quiet)
  BY <1>2, <1>3 DEF Listing
<1>5. /\ report' = [e \in Report |->
           IF e = d THEN new ELSE IF Running(e) THEN [report[e] EXCEPT !.alone = FALSE] ELSE report[e]]
      /\ ~Running(d)
  BY DEF CompanyWebhook, Running, quiet
<1> HIDE DEF new
<1>6. ASSUME NEW e \in Report, e # d
      PROVE  /\ report'[e] \in Listing
             /\ report'[e].step = report[e].step /\ report'[e].site = report[e].site
             /\ report'[e].todo = report[e].todo /\ report'[e].listed = report[e].listed
             /\ Running(e) => ~report'[e].alone
  <2>1. report[e] \in Listing
    BY DEF ListIInv, ListTypes
  <2>2. CASE Running(e)
    <3>1. report'[e] = [report[e] EXCEPT !.alone = FALSE]
      BY <1>5, <1>6, <2>2
    <3> QED
      BY <2>1, <3>1 DEF Listing
  <2>3. CASE ~Running(e)
    BY <1>5, <1>6, <2>1, <2>3
  <2> QED
    BY <2>2, <2>3
<1>7. report'[d] = new /\ report' \in [Report -> Listing]
  BY <1>4, <1>5, <1>6
<1>8. ListTypes'
  BY <1>1, <1>4, <1>6, <1>7 DEF ListIInv, ListTypes, Running
<1>9. AppliesWell(d)' /\ (Running(d)' => report'[d].todo \subseteq report'[d].listed)
  <2>1. RowsOf(w)' = RowsOf(w)
    BY <1>1 DEF RowsOf
  <2>2. quiet => \A e \in Report : e # d => ~Running(e)'
    BY <1>6 DEF Running, quiet
  <2> QED
    BY <1>4, <1>7, <2>1, <2>2 DEF AppliesWell
<1>10. ASSUME NEW e \in Report, e # d
       PROVE  AppliesWell(e)' /\ (Running(e)' => report'[e].todo \subseteq report'[e].listed)
  BY <1>6, <1>10 DEF ListIInv, AppliesWell, Running
<1> QED
  BY <1>1, <1>8, <1>9, <1>10 DEF ListIInv, OneOwner, OneLink

\* A step of one call: the calls that it overlaps are not alone.
LEMMA OneReportStep ==
  ASSUME ListIInv, NEW d \in Report, NEW new \in Listing, Running(d),
         report' = [report EXCEPT ![d] = new],
         owner' \in [PastoId -> SUBSET Site], link' \subseteq Firm \X PastoId,
         OneOwner', OneLink',
         new.step \in {"delete", "upsert"} =>
           new.site = report[d].site /\ new.todo \subseteq new.listed,
         new.step \in {"delete", "upsert"} /\ new.alone => report[d].alone,
         new.step \in {"delete", "upsert"} /\ new.alone => new.step = "upsert" /\
           LET w == new.site IN
           /\ \A p \in PastoId : w \in owner'[p] => p \in new.listed
           /\ \A p \in new.existing \cap new.listed : w \in owner'[p]
           /\ \A p \in new.listed \ new.todo : owner'[p] # {}
  PROVE  ListIInv'
<1>1. /\ report'[d] = new /\ report' \in [Report -> Listing]
      /\ \A e \in Report : e # d => report'[e] = report[e]
  BY DEF ListIInv, ListTypes
<1>2. ListTypes'
  BY <1>1 DEF ListIInv, ListTypes, Running
<1>3. ASSUME NEW e \in Report, e # d PROVE AppliesWell(e)'
  BY <1>1, <1>3 DEF ListIInv, AppliesWell, Running
<1>4. AppliesWell(d)'
  <2> SUFFICES ASSUME new.step \in {"delete", "upsert"}, new.alone
               PROVE  AppliesWell(d)'
    BY <1>1 DEF AppliesWell, Running
  <2>1. \A e \in Report : e # d => ~Running(e)'
    BY <1>1 DEF ListIInv, AppliesWell, Running
  <2>2. new.existing \subseteq PastoId
    BY DEF Listing
  <2> QED
    BY <1>1, <2>1, <2>2 DEF AppliesWell, RowsOf
<1> QED
  BY <1>1, <1>2, <1>3, <1>4 DEF ListIInv, Running

LEMMA DeleteMissingStep ==
  ASSUME ListIInv, NEW d \in Report, DeleteMissing(d)
  PROVE  ListIInv'
<1>1. PICK w \in Site, gone \in SUBSET PastoId :
        /\ w = report[d].site
        /\ gone = {p \in ToDelete(d) : w \in owner[p]}
        /\ owner' = [p \in PastoId |-> IF p \in gone THEN {} ELSE owner[p]]
        /\ link' = {l \in link : l[2] \notin gone}
  <2>1. report[d].site \in Site /\ ToDelete(d) \subseteq PastoId
    BY DEF DeleteMissing, ListIInv, ListTypes, Running, ToDelete, Listing
  <2> QED
    BY <2>1 DEF DeleteMissing
<1> DEFINE new == [report[d] EXCEPT !.step = "upsert"]
<1>2. report[d] \in Listing /\ Running(d) /\ report[d].step = "delete" /\ report' = [report EXCEPT ![d] = new]
  BY DEF DeleteMissing, ListIInv, ListTypes, Running
<1>3. /\ new \in Listing /\ new.step = "upsert" /\ new.site = w /\ new.listed = report[d].listed
      /\ new.existing = report[d].existing /\ new.todo = report[d].todo
      /\ new.alone = report[d].alone
  BY <1>1, <1>2 DEF Listing
<1> HIDE DEF new
<1>4. owner' \in [PastoId -> SUBSET Site] /\ link' \subseteq Firm \X PastoId
  BY <1>1 DEF ListIInv, ListTypes
<1>5. OneOwner' /\ OneLink'
  BY <1>1 DEF ListIInv, OneOwner, OneLink
<1>6. ASSUME new.alone
      PROVE  /\ \A p \in PastoId : w \in owner'[p] => p \in new.listed
             /\ \A p \in new.existing \cap new.listed : w \in owner'[p]
             /\ new.listed \ new.todo = {}
  <2>1. report[d].existing = RowsOf(w) /\ report[d].todo = report[d].listed
    BY <1>1, <1>2, <1>3, <1>6 DEF ListIInv, AppliesWell
  <2> QED
    BY <1>1, <1>3, <2>1 DEF ToDelete, RowsOf
<1> QED
  BY <1>1, <1>2, <1>3, <1>4, <1>5, <1>6, OneReportStep DEF ListIInv

LEMMA UpsertStep ==
  ASSUME ListIInv, NEW d \in Report, NEW p \in RawId, Upsert(d, p)
  PROVE  ListIInv'
<1>1. /\ report[d] \in Listing /\ Running(d) /\ report[d].step = "upsert" /\ p \in report[d].todo
      /\ report[d].site \in Site
  BY DEF Upsert, ListIInv, ListTypes, Running
<1>2. p \in PastoId /\ Lower[p] = p /\ p \in report[d].listed
  BY <1>1, LowerIds DEF ListIInv, Listing
<1> DEFINE new == [report[d] EXCEPT !.todo = @ \ {p}]
<1>3. report' = [report EXCEPT ![d] = new] /\ UNCHANGED link
  BY DEF Upsert
<1>4. /\ new \in Listing /\ new.step = "upsert" /\ new.site = report[d].site
      /\ new.listed = report[d].listed /\ new.existing = report[d].existing
      /\ new.todo = report[d].todo \ {p} /\ new.alone = report[d].alone
  BY <1>1 DEF Listing
<1> HIDE DEF new
<1>5. owner' = IF p \notin report[d].existing /\ owner[p] = {}
               THEN [owner EXCEPT ![p] = {report[d].site}] ELSE owner
  BY <1>2 DEF Upsert
<1>6. /\ owner' \in [PastoId -> SUBSET Site] /\ OneOwner'
      /\ \A q \in PastoId : owner[q] \subseteq owner'[q] /\ (q # p => owner'[q] = owner[q])
  BY <1>1, <1>2, <1>5 DEF ListIInv, ListTypes, OneOwner
<1>7. ASSUME new.alone
      PROVE  /\ \A q \in PastoId : new.site \in owner'[q] => q \in new.listed
             /\ \A q \in new.existing \cap new.listed : new.site \in owner'[q]
             /\ \A q \in new.listed \ new.todo : owner'[q] # {}
  <2>1. /\ RowsOf(report[d].site) \subseteq report[d].listed
        /\ report[d].existing \cap report[d].listed \subseteq RowsOf(report[d].site)
        /\ \A q \in report[d].listed \ report[d].todo : owner[q] # {}
    BY <1>1, <1>4, <1>7 DEF ListIInv, AppliesWell
  <2>2. owner'[p] # {}
    BY <1>1, <1>2, <1>5, <2>1 DEF RowsOf, ListIInv, ListTypes
  <2>3. \A q \in PastoId : new.site \in owner'[q] => q \in new.listed
    BY <1>2, <1>4, <1>6, <2>1 DEF RowsOf
  <2>4. \A q \in new.existing \cap new.listed : new.site \in owner'[q]
    BY <1>1, <1>4, <1>6, <2>1 DEF RowsOf, Listing
  <2>5. \A q \in new.listed \ new.todo : owner'[q] # {}
    BY <1>1, <1>4, <1>6, <2>1, <2>2 DEF Listing
  <2> QED
    BY <2>3, <2>4, <2>5
<1>8. link' \subseteq Firm \X PastoId /\ OneLink'
  BY <1>3 DEF ListIInv, ListTypes, OneLink
<1>9. new.todo \subseteq new.listed
  BY <1>1, <1>4 DEF ListIInv
<1> QED
  BY <1>1, <1>3, <1>4, <1>6, <1>7, <1>8, <1>9, OneReportStep

\* A statement fails, the list ends, or the process dies.
LEMMA ListEndsStep ==
  ASSUME ListIInv, NEW d \in Report, StatementFails(d) \/ ReportEnds(d) \/ ReportDies(d)
  PROVE  ListIInv'
<1>1. /\ report[d] \in Listing /\ Running(d) /\ report[d].todo \subseteq report[d].listed
      /\ UNCHANGED <<owner, link>>
  BY DEF StatementFails, ReportEnds, ReportDies, ListIInv, ListTypes, Running
<1>2. /\ owner' \in [PastoId -> SUBSET Site] /\ link' \subseteq Firm \X PastoId
      /\ OneOwner' /\ OneLink'
  BY <1>1 DEF ListIInv, ListTypes, OneOwner, OneLink
<1>3. PICK new \in Listing :
        /\ report' = [report EXCEPT ![d] = new]
        /\ \/ new.step \in {"done", "died"}
           \/ ~new.alone /\ new.site = report[d].site /\ new.todo \subseteq new.listed
  <2>1. CASE ReportEnds(d) \/ ReportDies(d)
    <3> DEFINE done == [NoReport EXCEPT !.step = "done"]
               died == [NoReport EXCEPT !.step = "died"]
    <3>1. /\ done \in Listing /\ done.step = "done"
          /\ died \in Listing /\ died.step = "died"
      BY NoReportTyped DEF Listing
    <3> QED
      BY <2>1, <3>1 DEF ReportEnds, ReportDies
  <2>2. CASE StatementFails(d) /\ report[d].step = "delete"
    <3> DEFINE new == [report[d] EXCEPT !.step = "upsert", !.alone = FALSE]
    <3>1. /\ new \in Listing /\ ~new.alone /\ new.site = report[d].site
          /\ new.todo = report[d].todo /\ new.listed = report[d].listed
      BY <1>1 DEF Listing
    <3>2. report' = [report EXCEPT ![d] = new]
      BY <1>1, <2>2 DEF StatementFails, ListIInv, ListTypes, Listing
    <3> HIDE DEF new
    <3> QED
      BY <1>1, <3>1, <3>2
  <2>3. CASE StatementFails(d) /\ report[d].step # "delete"
    <3>1. PICK p : report' = [report EXCEPT ![d].todo = @ \ {p}, ![d].alone = FALSE]
      BY <2>3 DEF StatementFails
    <3> DEFINE new == [report[d] EXCEPT !.todo = @ \ {p}, !.alone = FALSE]
    <3>2. /\ new \in Listing /\ ~new.alone /\ new.site = report[d].site
          /\ new.todo = report[d].todo \ {p} /\ new.listed = report[d].listed
      BY <1>1 DEF Listing
    <3>3. report' = [report EXCEPT ![d] = new]
      BY <1>1, <3>1 DEF ListIInv, ListTypes, Listing
    <3> HIDE DEF new
    <3> QED
      BY <1>1, <3>2, <3>3
  <2> QED
    BY <2>1, <2>2, <2>3
<1> QED
  BY <1>1, <1>2, <1>3, OneReportStep

LEMMA LinkStep ==
  ASSUME ListIInv, NEW f \in Firm, NEW p \in PastoId, Link(f, p)
  PROVE  ListIInv'
<1>1. UNCHANGED <<owner, report>> /\ link' = {l \in link : l[1] # f} \cup {<<f, p>>}
  BY DEF Link
<1>2. link' \subseteq Firm \X PastoId /\ OneLink'
  BY <1>1 DEF ListIInv, ListTypes, OneLink
<1> QED
  BY <1>1, <1>2 DEF ListIInv, ListTypes, OneOwner, AppliesWell, Running, RowsOf

LEMMA ListInit == PastoInit => ListIInv
<1> SUFFICES ASSUME PastoInit PROVE ListIInv
  OBVIOUS
<1>1. /\ owner = [p \in PastoId |-> {}] /\ link = {}
      /\ report = [d \in Report |-> NoReport] /\ NoReport.step = "none"
  BY DEF PastoInit, NoReport
<1>2. \A d \in Report : ~Running(d)
  BY <1>1 DEF Running
<1> QED
  BY <1>1, <1>2, NoReportTyped DEF ListIInv, ListTypes, OneOwner, OneLink, AppliesWell

LEMMA ListStep ==
  ASSUME ListIInv, [PastoNext]_pastoVars PROVE ListIInv'
<1>1. CASE \E d \in Report, w \in Site, ids \in SUBSET RawId : CompanyWebhook(d, w, ids)
  BY <1>1, CompanyWebhookStep
<1>2. CASE \E d \in Report : DeleteMissing(d)
  BY <1>2, DeleteMissingStep
<1>3. CASE \E d \in Report, p \in RawId : Upsert(d, p)
  BY <1>3, UpsertStep
<1>4. CASE \E d \in Report : StatementFails(d) \/ ReportEnds(d) \/ ReportDies(d)
  BY <1>4, ListEndsStep
<1>5. CASE \E f \in Firm, p \in PastoId : Link(f, p)
  BY <1>5, LinkStep
<1>6. CASE WorkersNext \/ ConfigNext \/ UNCHANGED pastoVars
  <2>1. UNCHANGED <<owner, link, report>>
    BY <1>6 DEF pastoVars, listVars, WorkersNext, ConfigNext, CreateWorker, BuyWorker,
                BuyWorkerUnheard, BuyWorkerRefused, StoreWorker, StoreWorkerFails, ConfigWebhook,
                ResetLicense
  <2> QED
    BY <2>1 DEF ListIInv, ListTypes, OneOwner, OneLink, AppliesWell, Running, RowsOf
<1> QED
  BY <1>1, <1>2, <1>3, <1>4, <1>5, <1>6 DEF PastoNext, ListNext

\* What a running report will still delete and write, and what the rows and links hold:
\* enough for its end to leave the list it carries.
LEMMA ListInvariance == PastoSpec => []ListIInv
<1>1. ListIInv /\ [PastoNext]_pastoVars => ListIInv'
  BY ListStep
<1> QED
  BY ListInit, <1>1, PTL DEF PastoSpec

LEMMA NamedIsListed ==
  ASSUME ListIInv, NEW d \in Report
  PROVE  Named(d) = report[d].listed
<1>1. report[d].listed \subseteq PastoId
  BY DEF ListIInv, ListTypes, Listing
<1>2. \A i \in report[d].listed : Lower[i] = i
  BY <1>1, LowerIds
<1> QED
  BY <1>2 DEF Named

\* What a list leaves when it ends, and how a link is cut.
LEMMA ListEnds ==
  ASSUME ListIInv, [PastoNext]_pastoVars, NEW d \in Report,
         report[d].step = "upsert", report'[d].step = "done", report[d].alone
  PROVE  RowsOf(report[d].site) = {p \in Named(d) : owner[p] \subseteq {report[d].site}}
<1>1. ReportEnds(d)
  <2>1. \A e : ReportEnds(e) => e = d
    <3> SUFFICES ASSUME NEW e, ReportEnds(e), e # d PROVE FALSE
      OBVIOUS
    <3> QED
      BY DEF ReportEnds, ListIInv, ListTypes
  <2>2. ~\E e \in Report, w \in Site, ids \in SUBSET RawId : CompanyWebhook(e, w, ids)
    <3> SUFFICES ASSUME NEW e \in Report, NEW w \in Site, NEW ids \in SUBSET RawId,
                        CompanyWebhook(e, w, ids)
                 PROVE  FALSE
      OBVIOUS
    <3>1. e # d /\ Running(d)
      BY DEF CompanyWebhook, Running
    <3>2. report'[d] = [report[d] EXCEPT !.alone = FALSE] /\ report[d] \in Listing
      BY <3>1 DEF CompanyWebhook, ListIInv, ListTypes
    <3> QED
      BY <3>2 DEF Listing
  <2>3. ASSUME NEW e \in Report, DeleteMissing(e) \/ ReportDies(e) \/ StatementFails(e)
        PROVE  FALSE
    <3>1. report[d] \in Listing /\ report[e] \in Listing
      BY DEF ListIInv, ListTypes
    <3>2. report \in [Report -> Listing]
      BY DEF ListIInv, ListTypes
    <3>3. CASE DeleteMissing(e)
      BY <3>1, <3>2, <3>3 DEF DeleteMissing, Listing
    <3>4. CASE ReportDies(e)
      <4>1. [NoReport EXCEPT !.step = "died"].step = "died"
        BY DEF NoReport
      <4> QED
        BY <3>2, <3>4, <4>1 DEF ReportDies
    <3>5. CASE StatementFails(e) /\ report[e].step = "delete"
      BY <3>1, <3>2, <3>5 DEF StatementFails, Listing
    <3>6. CASE StatementFails(e) /\ report[e].step # "delete"
      <4>1. PICK p : report' = [report EXCEPT ![e].todo = @ \ {p}, ![e].alone = FALSE]
        BY <3>6 DEF StatementFails
      <4> QED
        BY <3>1, <3>2, <4>1 DEF Listing
    <3> QED
      BY <2>3, <3>3, <3>4, <3>5, <3>6
  <2>4. ASSUME NEW e \in Report, NEW p \in RawId, Upsert(e, p)
        PROVE  FALSE
    <3>1. report[d] \in Listing /\ report[e] \in Listing
      BY DEF ListIInv, ListTypes
    <3> QED
      BY <2>4, <3>1 DEF Upsert, ListIInv, ListTypes, Listing
  <2>5. report' # report
    OBVIOUS
  <2>6. ListNext /\ ~\E f \in Firm, p \in PastoId : Link(f, p)
    BY <2>5 DEF PastoNext, pastoVars, listVars, WorkersNext, ConfigNext, CreateWorker, BuyWorker,
                BuyWorkerUnheard, BuyWorkerRefused, StoreWorker, StoreWorkerFails, ConfigWebhook,
                ResetLicense, Link
  <2> QED
    BY <2>1, <2>2, <2>3, <2>4, <2>6 DEF ListNext
<1>2. PICK w \in Site : w = report[d].site
  BY DEF ListIInv, ListTypes, Running
<1>3. /\ RowsOf(w) \subseteq report[d].listed
      /\ \A p \in report[d].listed : owner[p] # {}
      /\ report[d].listed \subseteq PastoId
  BY <1>1, <1>2 DEF ReportEnds, ListIInv, ListTypes, Listing, AppliesWell, Running
<1>4. ASSUME NEW p \in PastoId
      PROVE  p \in RowsOf(w) <=> p \in report[d].listed /\ owner[p] \subseteq {w}
  BY <1>3 DEF RowsOf, ListIInv, OneOwner
<1> QED
  BY <1>2, <1>3, <1>4, NamedIsListed DEF RowsOf

LEMMA LinkCut ==
  ASSUME ListIInv, [PastoNext]_pastoVars, NEW l \in link, l \notin link'
  PROVE  \/ \E p \in PastoId : <<l[1], p>> \in link' \ link
         \/ \E d \in Report : /\ report[d].step = "delete" /\ report'[d].step = "upsert"
                              /\ l[2] \notin Named(d)
<1>1. l \in Firm \X PastoId /\ l = <<l[1], l[2]>>
  BY DEF ListIInv, ListTypes
<1>2. CASE \E f \in Firm, p \in PastoId : Link(f, p)
  <2>1. PICK f \in Firm, p \in PastoId : link' = {m \in link : m[1] # f} \cup {<<f, p>>}
    BY <1>2 DEF Link
  <2>2. l[1] = f
    BY <2>1
  <2>3. <<f, p>> \notin link
    BY <2>1, <2>2 DEF ListIInv, OneLink
  <2> QED
    BY <2>1, <2>2, <2>3
<1>3. CASE \E d \in Report : DeleteMissing(d)
  <2>1. PICK d \in Report : DeleteMissing(d)
    BY <1>3
  <2>2. l[2] \in ToDelete(d)
    BY <2>1 DEF DeleteMissing
  <2>3. report[d].step = "delete" /\ report'[d].step = "upsert"
    BY <2>1 DEF DeleteMissing, ListIInv, ListTypes, Listing
  <2> QED
    BY <2>2, <2>3, NamedIsListed DEF ToDelete
<1>4. CASE UNCHANGED link
  BY <1>4
<1> QED
  BY <1>2, <1>3, <1>4 DEF PastoNext, pastoVars, listVars, WorkersNext, ConfigNext, CreateWorker,
     BuyWorker, BuyWorkerUnheard, BuyWorkerRefused, StoreWorker, StoreWorkerFails, ConfigWebhook,
     ResetLicense, ListNext, CompanyWebhook, Upsert, StatementFails, ReportEnds, ReportDies

\* A list that nothing overlaps and no failure interrupts is applied as it is, and the
\* links of the companies on it survive any list (ListsAreApplied).
THEOREM ListsAreAppliedHolds == PastoSpec => ListsAreApplied
<1> DEFINE Applied ==
      \A d \in Report :
        report[d].step = "upsert" /\ report'[d].step = "done" /\ report[d].alone =>
          RowsOf(report[d].site) = {p \in Named(d) : owner[p] \subseteq {report[d].site}}
    Cut ==
      \A l \in link : l \notin link' =>
        \/ \E p \in PastoId : <<l[1], p>> \in link' \ link
        \/ \E d \in Report : /\ report[d].step = "delete" /\ report'[d].step = "upsert"
                             /\ l[2] \notin Named(d)
<1>1. ListIInv /\ [PastoNext]_pastoVars => Applied /\ Cut
  BY ListEnds, LinkCut
<1>2. ListIInv /\ [PastoNext]_pastoVars => [Applied]_pastoVars /\ [Cut]_pastoVars
  BY <1>1
<1> QED
  BY ListInvariance, <1>2, PTL DEF PastoSpec, ListsAreApplied, ListIsKept, LinkIsKept

-----------------------------------------------------------------------------
(* Attachments *)

AttachingCall == [step : {"none", "insert", "object", "row", "done"}, todo : SUBSET File,
                  row : AttachmentId \cup {None},
                  missed : BOOLEAN, blind : BOOLEAN, wild : BOOLEAN]

AttachmentTypes ==
  /\ attachment \in [AttachmentId -> [file : File, live : BOOLEAN] \cup {None}]
  /\ attaching \in [Attaching -> AttachingCall]

\* A row is marked, never removed.
Kept(a) == a \in AttachmentId /\ attachment[a] \in [file : File, live : BOOLEAN]

\* The object is deleted before the row is marked, by every call.
OwnsObject(k) ==
  attaching[k].step = "object" =>
    \/ attaching[k].row \in Live
    \/ \E j \in Attaching \ {k} : attaching[j].step = "done" /\ attaching[j].row = attaching[k].row

AttachmentsIInv ==
  /\ AttachmentTypes
  /\ \A k \in Attaching :
       /\ attaching[k].step \in {"object", "row"} => Kept(attaching[k].row)
       /\ OwnsObject(k)

LEMMA NoAttachingTyped == NoAttaching \in AttachingCall /\ AttachingDone \in AttachingCall
<1>1. NoAttaching \in AttachingCall
  BY DEF NoAttaching, AttachingCall
<1> QED
  BY <1>1 DEF AttachingDone, AttachingCall

\* A call that creates, once it has read the rows.
Creating(existing, names) ==
  [NoAttaching EXCEPT !.step = "insert", !.todo = names,
     !.blind = existing # LiveNames, !.wild = IsWild(existing, names)]

LEMMA CreatingTyped ==
  ASSUME NEW existing, NEW names \in SUBSET File
  PROVE  /\ Creating(existing, names) \in AttachingCall
         /\ Creating(existing, names).step = "insert"
         /\ Creating(existing, names).todo = names
         /\ Creating(existing, names).blind = (existing # LiveNames)
         /\ Creating(existing, names).wild = IsWild(existing, names)
<1> DEFINE blind == existing # LiveNames
           wild == IsWild(existing, names)
<1>1. blind \in BOOLEAN /\ wild \in BOOLEAN
  BY DEF IsWild
<1>2. Creating(existing, names) = [NoAttaching EXCEPT !.step = "insert", !.todo = names,
                                      !.blind = blind, !.wild = wild]
  BY DEF Creating
<1> HIDE DEF blind, wild
<1>3. /\ Creating(existing, names) \in AttachingCall
      /\ Creating(existing, names).step = "insert" /\ Creating(existing, names).todo = names
      /\ Creating(existing, names).blind = blind /\ Creating(existing, names).wild = wild
  BY <1>1, <1>2 DEF NoAttaching, AttachingCall
<1> QED
  BY <1>3 DEF blind, wild

\* A step of one call that marks no row.
LEMMA OneAttachingStep ==
  ASSUME AttachmentsIInv, NEW k \in Attaching, NEW new \in AttachingCall,
         attaching' = [attaching EXCEPT ![k] = new], UNCHANGED attachment,
         attaching[k].step # "done",
         new.step = "object" => new.row \in Live,
         new.step \in {"object", "row"} => Kept(new.row)
  PROVE  AttachmentsIInv'
<1>1. /\ attaching' \in [Attaching -> AttachingCall] /\ attaching'[k] = new
      /\ \A j \in Attaching : j # k => attaching'[j] = attaching[j]
  BY DEF AttachmentsIInv, AttachmentTypes
<1>2. Live' = Live
  BY DEF Live, HasRow
<1>3. ASSUME NEW j \in Attaching PROVE OwnsObject(j)'
  <2>1. OwnsObject(j)
    BY DEF AttachmentsIInv
  <2> QED
    BY <1>1, <1>2, <2>1 DEF OwnsObject
<1> QED
  BY <1>1, <1>3 DEF AttachmentsIInv, AttachmentTypes, Kept

LEMMA InsertAttachmentStep ==
  ASSUME AttachmentsIInv, NEW k \in Attaching, NEW f \in File, InsertAttachment(k, f)
  PROVE  AttachmentsIInv'
<1>1. NewIdentifier \in Unused
  BY DEF InsertAttachment, NewIdentifier
<1>2. PICK a \in AttachmentId : /\ ~HasRow(a)
                                /\ attachment' = [attachment EXCEPT ![a] = [file |-> f, live |-> TRUE]]
  BY <1>1 DEF InsertAttachment, Unused
<1>3. /\ attachment' \in [AttachmentId -> [file : File, live : BOOLEAN] \cup {None}]
      /\ \A b \in AttachmentId : b # a => attachment'[b] = attachment[b]
  BY <1>2 DEF AttachmentsIInv, AttachmentTypes
<1>4. Live \subseteq Live'
  BY <1>2, <1>3 DEF Live, HasRow
<1>5. ASSUME NEW j \in Attaching
      PROVE  /\ attaching'[j] \in AttachingCall
             /\ \/ /\ attaching'[j].step = attaching[j].step /\ attaching'[j].row = attaching[j].row
                \/ attaching[j].step = "insert" /\ attaching'[j].step = "done"
  <2>1. attaching[j] \in AttachingCall /\ attaching[k] \in AttachingCall
    BY DEF AttachmentsIInv, AttachmentTypes
  <2>2. CASE j = k /\ attaching[k].todo = {f}
    <3>1. attaching'[j] = AttachingDone /\ attaching[j].step = "insert"
      BY <2>2 DEF InsertAttachment
    <3> QED
      BY <3>1, NoAttachingTyped DEF AttachingDone, NoAttaching
  <2>3. CASE j = k /\ attaching[k].todo # {f}
    <3>1. attaching'[j] = [attaching[k] EXCEPT !.todo = @ \ {f}]
      BY <2>3 DEF InsertAttachment
    <3> QED
      BY <2>1, <2>3, <3>1 DEF AttachingCall
  <2>4. CASE j # k /\ attaching[j].step = "insert"
    <3>1. attaching'[j] = [attaching[j] EXCEPT !.missed = TRUE]
      BY <2>4 DEF InsertAttachment
    <3> QED
      BY <2>1, <3>1 DEF AttachingCall
  <2>5. CASE j # k /\ attaching[j].step # "insert"
    BY <2>1, <2>5 DEF InsertAttachment
  <2> QED
    BY <2>2, <2>3, <2>4, <2>5
<1>6. attaching' \in [Attaching -> AttachingCall]
  <2>1. attaching' = [j \in Attaching |-> attaching'[j]]
    BY DEF InsertAttachment
  <2> QED
    BY <1>5, <2>1
<1>8. \A b \in AttachmentId : attachment[b] \in [file : File, live : BOOLEAN]
                                 => attachment'[b] = attachment[b]
  BY <1>2, <1>3, DocumentsAssumption DEF HasRow
<1>7. ASSUME NEW j \in Attaching
      PROVE  /\ attaching'[j].step \in {"object", "row"} => Kept(attaching[j].row)'
             /\ OwnsObject(j)'
  <2>1. /\ attaching[j].step \in {"object", "row"} => Kept(attaching[j].row)
        /\ OwnsObject(j)
    BY DEF AttachmentsIInv
  <2>2. \A i \in Attaching : attaching[i].step = "done" =>
          attaching'[i].step = "done" /\ attaching'[i].row = attaching[i].row
    BY <1>5
  <2> QED
    BY <1>4, <1>5, <1>8, <2>1, <2>2 DEF OwnsObject, Kept
<1> QED
  BY <1>3, <1>6, <1>7 DEF AttachmentsIInv, AttachmentTypes

LEMMA DeletionStep ==
  ASSUME AttachmentsIInv, NEW k \in Attaching,
         (\E a \in AttachmentId : DeleteAttachment(k, a)) \/ DeleteObject(k) \/ DeletionFails(k)
  PROVE  AttachmentsIInv'
<1>1. attaching[k] \in AttachingCall /\ UNCHANGED attachment
  BY DEF AttachmentsIInv, AttachmentTypes, DeleteAttachment, DeleteObject, DeletionFails
<1>2. ASSUME NEW a \in AttachmentId, DeleteAttachment(k, a) PROVE AttachmentsIInv'
  <2> DEFINE new == [NoAttaching EXCEPT !.step = "object", !.row = a]
  <2>1. new \in AttachingCall /\ new.step = "object" /\ new.row = a
    BY NoAttachingTyped DEF AttachingCall
  <2>2. attaching' = [attaching EXCEPT ![k] = new] /\ a \in Live /\ attaching[k].step = "none"
    BY <1>2 DEF DeleteAttachment, FirstDeletion
  <2>3. Kept(a)
    BY <2>2 DEF Kept, Live, HasRow, AttachmentsIInv, AttachmentTypes
  <2> HIDE DEF new
  <2> QED
    BY <1>1, <2>1, <2>2, <2>3, OneAttachingStep
<1>3. CASE DeleteObject(k)
  <2> DEFINE new == [attaching[k] EXCEPT !.step = "row"]
  <2>1. new \in AttachingCall /\ new.step = "row" /\ new.row = attaching[k].row
    BY <1>1 DEF AttachingCall
  <2>2. attaching' = [attaching EXCEPT ![k] = new] /\ attaching[k].step = "object"
    BY <1>3 DEF DeleteObject, AfterDeletion, FirstDeletion
  <2>3. Kept(attaching[k].row)
    BY <2>2 DEF AttachmentsIInv
  <2> HIDE DEF new
  <2> QED
    BY <1>1, <2>1, <2>2, <2>3, OneAttachingStep
<1>4. CASE DeletionFails(k)
  <2>1. AttachingDone.step = "done"
    BY DEF AttachingDone, NoAttaching
  <2>2. attaching' = [attaching EXCEPT ![k] = AttachingDone] /\ attaching[k].step # "done"
    BY <1>4 DEF DeletionFails
  <2> QED
    BY <1>1, <2>1, <2>2, NoAttachingTyped, OneAttachingStep
<1> QED
  BY <1>2, <1>3, <1>4

LEMMA CreateAttachmentsStep ==
  ASSUME AttachmentsIInv, NEW k \in Attaching,
         (\E names \in SUBSET File : CreateAttachments(k, names)) \/ AttachmentsFail(k)
  PROVE  AttachmentsIInv'
<1>1. PICK new \in AttachingCall :
        /\ attaching' = [attaching EXCEPT ![k] = new] /\ new.step \in {"insert", "done"}
        /\ attaching[k].step \in {"none", "insert"}
  <2>1. ASSUME NEW names \in SUBSET File, CreateAttachments(k, names)
        PROVE  \E new \in AttachingCall :
                 /\ attaching' = [attaching EXCEPT ![k] = new] /\ new.step = "insert"
                 /\ attaching[k].step = "none"
    <3>1. PICK existing :
            /\ attaching' = [attaching EXCEPT ![k] = Creating(existing, names)]
            /\ attaching[k].step = "none"
      BY <2>1 DEF CreateAttachments, Creating
    <3> QED
      BY <3>1, CreatingTyped
  <2>2. AttachingDone.step = "done"
    BY DEF AttachingDone, NoAttaching
  <2> QED
    BY <2>1, <2>2, NoAttachingTyped DEF AttachmentsFail
<1>2. UNCHANGED attachment
  BY DEF CreateAttachments, AttachmentsFail
<1> QED
  BY <1>1, <1>2, OneAttachingStep

LEMMA MarkDeletedStep ==
  ASSUME AttachmentsIInv, NEW k \in Attaching, MarkDeleted(k)
  PROVE  AttachmentsIInv'
<1> DEFINE new == [attaching[k] EXCEPT !.step = "done"]
<1>1. PICK a \in AttachmentId :
        /\ a = attaching[k].row /\ attachment' = [attachment EXCEPT ![a].live = FALSE]
        /\ attachment[a] \in [file : File, live : BOOLEAN]
  BY DEF MarkDeleted, AttachmentsIInv, Kept
<1>2. /\ attaching[k].step = "row" /\ attaching[k] \in AttachingCall
      /\ attaching' = [attaching EXCEPT ![k] = new]
  BY DEF MarkDeleted, AfterDeletion, FirstDeletion, AttachmentsIInv, AttachmentTypes
<1>3. new \in AttachingCall /\ new.step = "done" /\ new.row = a
  BY <1>1, <1>2 DEF AttachingCall
<1> HIDE DEF new
<1>4. /\ attaching' \in [Attaching -> AttachingCall] /\ attaching'[k] = new
      /\ \A j \in Attaching : j # k => attaching'[j] = attaching[j]
  BY <1>2, <1>3 DEF AttachmentsIInv, AttachmentTypes
<1>5. /\ attachment'[a] \in [file : File, live : BOOLEAN]
      /\ \A b \in AttachmentId : b # a => attachment'[b] = attachment[b]
      /\ attachment' \in [AttachmentId -> [file : File, live : BOOLEAN] \cup {None}]
  <2> DEFINE row == [attachment[a] EXCEPT !.live = FALSE]
  <2>1. row \in [file : File, live : BOOLEAN]
    BY <1>1
  <2>2. attachment' = [attachment EXCEPT ![a] = row]
    BY <1>1
  <2> HIDE DEF row
  <2> QED
    BY <2>1, <2>2 DEF AttachmentsIInv, AttachmentTypes
<1>6. ASSUME NEW j \in Attaching PROVE OwnsObject(j)'
  <2>1. OwnsObject(j)
    BY DEF AttachmentsIInv
  <2>2. CASE attaching[j].row = a /\ j # k
    BY <1>3, <1>4, <2>2 DEF OwnsObject
  <2>3. CASE j = k
    BY <1>3, <1>4, <2>3 DEF OwnsObject
  <2>4. CASE attaching[j].row # a /\ j # k
    BY <1>2, <1>3, <1>4, <1>5, <2>1, <2>4 DEF OwnsObject, Live, HasRow
  <2> QED
    BY <2>2, <2>3, <2>4
<1>7. ASSUME NEW j \in Attaching, attaching'[j].step \in {"object", "row"}
      PROVE  Kept(attaching[j].row)'
  <2>1. j # k /\ attaching'[j] = attaching[j] /\ Kept(attaching[j].row)
    BY <1>3, <1>4, <1>7 DEF AttachmentsIInv
  <2> QED
    BY <1>5, <2>1 DEF Kept
<1> QED
  BY <1>4, <1>5, <1>6, <1>7 DEF AttachmentsIInv, AttachmentTypes

\* A call that deletes has a row that is kept; its object belongs to it until another
\* call that deletes the same row is done.
LEMMA AttachmentsInvariance == DocumentsSpec => []AttachmentsIInv
<1>1. DocumentsInit => AttachmentsIInv
  <2> SUFFICES ASSUME DocumentsInit PROVE AttachmentsIInv
    OBVIOUS
  <2>1. /\ attachment \in [AttachmentId -> [file : File, live : BOOLEAN] \cup {None}]
        /\ attaching = [k \in Attaching |-> NoAttaching]
    BY DEF DocumentsInit
  <2>2. NoAttaching.step = "none"
    BY DEF NoAttaching
  <2> QED
    BY <2>1, <2>2, NoAttachingTyped DEF AttachmentsIInv, AttachmentTypes, OwnsObject
<1>2. AttachmentsIInv /\ [DocumentsNext]_documentVars => AttachmentsIInv'
  <2> SUFFICES ASSUME AttachmentsIInv, [DocumentsNext]_documentVars PROVE AttachmentsIInv'
    OBVIOUS
  <2>1. CASE UNCHANGED <<attachment, attaching>>
    BY <2>1 DEF AttachmentsIInv, AttachmentTypes, OwnsObject, Kept, Live, HasRow
  <2>2. ASSUME NEW a \in AttachmentId, ClientUploads(a) PROVE AttachmentsIInv'
    BY <2>1, <2>2 DEF ClientUploads
  <2>3. CASE AttachmentsNext
    BY <2>2, <2>3, InsertAttachmentStep, DeletionStep, CreateAttachmentsStep, MarkDeletedStep
       DEF AttachmentsNext
  <2>4. CASE PolizasNext
    BY <2>1, <2>4 DEF PolizasNext, CreatePolizas, InsertPolizas, RollbackPolizas, attachmentVars
  <2>5. CASE ExportsNext
    BY <2>1, <2>5 DEF ExportsNext, Export, UploadExport, PresignExport, ExportFails, PublishExport,
       CreateExportRecord, SaveExport, MarkToDownload, attachmentVars
  <2>6. CASE UNCHANGED documentVars
    BY <2>1, <2>6 DEF documentVars, attachmentVars
  <2> QED
    BY <2>3, <2>4, <2>5, <2>6 DEF DocumentsNext
<1> QED
  BY <1>1, <1>2, PTL DEF DocumentsSpec

-----------------------------------------------------------------------------
(* Exports *)

ExportingCall == [step : {"none", "upload", "presign", "served", "done", "asked", "store", "mark"},
                  name : Name \cup {None}, ext : Extension \cup {None}, lost : BOOLEAN]

FileKey == (Name \X Extension) \cup (Exporting \X {"xlsx"})

ExportTypes ==
  /\ export \in [Exporting -> {None, "SENT", "TO_DOWNLOAD"}]
  /\ file \in [FileKey -> Exporting \cup {None}]
  /\ exporting \in [Exporting -> ExportingCall]

\* The file of an export that PublishExport or CreateExportRecord began.
Stored(k) == file[<<k, "xlsx">>] = k \/ exporting[k].lost

\* What a call has stored is under its key, or another call's that had the same key.
ExportIsWhole(k) ==
  /\ exporting[k].step \in {"upload", "presign", "served"} =>
       exporting[k].name \in Name /\ exporting[k].ext \in Extension
  /\ exporting[k].step \in {"presign", "served"} => file[KeyOf(k)] # None
  /\ exporting[k].step = "mark" => Stored(k)
  /\ export[k] = "TO_DOWNLOAD" => exporting[k].step = "done" /\ Stored(k)

ExportsIInv ==
  /\ ExportTypes
  /\ \A k \in Exporting : ExportIsWhole(k)
  /\ \A n \in Name, e \in Extension, j \in Exporting : file[<<n, e>>] = j => j \in StoredUnder(n, e)

LEMMA NoExportingTyped == NoExporting \in ExportingCall
BY DEF NoExporting, ExportingCall

LEMMA KeysApart ==
  ASSUME NEW k \in Exporting
  PROVE  /\ <<k, "xlsx">> \in FileKey
         /\ \A n \in Name, e \in Extension : <<n, e>> \in FileKey /\ <<n, e>> # <<k, "xlsx">>
BY DocumentsAssumption DEF FileKey

\* A step of a call that stores nothing and writes no TO_DOWNLOAD.
LEMMA OneExportingStep ==
  ASSUME ExportsIInv, NEW k \in Exporting, NEW new \in ExportingCall,
         exporting' = [exporting EXCEPT ![k] = new], UNCHANGED file,
         \/ UNCHANGED export
         \/ export' = [export EXCEPT ![k] = "SENT"],
         exporting[k].step \in {"none", "upload", "store"},
         new.step \notin {"presign", "served", "mark"},
         new.step = "upload" => new.name \in Name /\ new.ext \in Extension
  PROVE  ExportsIInv'
<1>1. /\ exporting' \in [Exporting -> ExportingCall] /\ exporting'[k] = new
      /\ \A j \in Exporting : j # k => exporting'[j] = exporting[j]
  BY DEF ExportsIInv, ExportTypes
<1>2. /\ export' \in [Exporting -> {None, "SENT", "TO_DOWNLOAD"}]
      /\ \A j \in Exporting : j # k => export'[j] = export[j]
      /\ export'[k] # "TO_DOWNLOAD"
  BY DEF ExportsIInv, ExportTypes, ExportIsWhole
<1>3. ASSUME NEW j \in Exporting PROVE ExportIsWhole(j)'
  <2>1. ExportIsWhole(j)
    BY DEF ExportsIInv
  <2> QED
    BY <1>1, <1>2, <2>1 DEF ExportIsWhole, Stored, KeyOf
<1>4. ASSUME NEW n \in Name, NEW e \in Extension, NEW j \in Exporting, file'[<<n, e>>] = j
      PROVE  j \in StoredUnder(n, e)'
  <2>1. j \in StoredUnder(n, e)
    BY <1>4 DEF ExportsIInv
  <2> QED
    BY <1>1, <2>1 DEF StoredUnder
<1> QED
  BY <1>1, <1>2, <1>3, <1>4 DEF ExportsIInv, ExportTypes

LEMMA BeginExportStep ==
  ASSUME ExportsIInv, NEW k \in Exporting,
         \/ \E name \in Name, ext \in Extension : Export(k, name, ext)
         \/ exporting[k].step = "upload" /\ ExportFails(k)
         \/ PublishExport(k)
         \/ CreateExportRecord(k)
  PROVE  ExportsIInv'
<1>1. ASSUME NEW name \in Name, NEW ext \in Extension, Export(k, name, ext) PROVE ExportsIInv'
  <2> DEFINE new == [NoExporting EXCEPT !.step = "upload", !.name = name, !.ext = ext]
  <2>1. new \in ExportingCall /\ new.step = "upload" /\ new.name = name /\ new.ext = ext
    BY NoExportingTyped DEF ExportingCall
  <2>2. /\ exporting' = [exporting EXCEPT ![k] = new] /\ exporting[k].step = "none"
        /\ UNCHANGED <<file, export>>
    BY <1>1 DEF Export
  <2> HIDE DEF new
  <2> QED
    BY <2>1, <2>2, OneExportingStep
<1>2. ASSUME NEW step \in {"asked", "done", "store"},
             exporting' = [exporting EXCEPT ![k] = [NoExporting EXCEPT !.step = step]],
             UNCHANGED file, UNCHANGED export \/ export' = [export EXCEPT ![k] = "SENT"],
             exporting[k].step \in {"none", "upload"}
      PROVE  ExportsIInv'
  <2> DEFINE new == [NoExporting EXCEPT !.step = step]
  <2>1. new \in ExportingCall /\ new.step = step
    BY NoExportingTyped DEF ExportingCall
  <2>2. exporting' = [exporting EXCEPT ![k] = new]
    BY <1>2
  <2> HIDE DEF new
  <2> QED
    BY <1>2, <2>1, <2>2, OneExportingStep
<1>3. CASE exporting[k].step = "upload" /\ ExportFails(k)
  BY <1>2, <1>3 DEF ExportFails
<1>4. CASE PublishExport(k)
  BY <1>2, <1>4 DEF PublishExport
<1>5. CASE CreateExportRecord(k)
  BY <1>2, <1>5 DEF CreateExportRecord
<1> QED
  BY <1>1, <1>3, <1>4, <1>5

LEMMA UploadExportStep ==
  ASSUME ExportsIInv, NEW k \in Exporting, UploadExport(k)
  PROVE  ExportsIInv'
<1> DEFINE new == [exporting[k] EXCEPT !.step = "presign"]
<1>1. PICK n \in Name, e \in Extension : n = exporting[k].name /\ e = exporting[k].ext
  BY DEF UploadExport, ExportsIInv, ExportIsWhole
<1>2. file' = [file EXCEPT ![<<n, e>>] = k]
  BY <1>1 DEF UploadExport, KeyOf
<1>3. new \in ExportingCall /\ new.step = "presign" /\ new.name = n /\ new.ext = e
        /\ new.lost = exporting[k].lost
  BY <1>1 DEF ExportsIInv, ExportTypes, ExportingCall
<1>4. exporting' = [exporting EXCEPT ![k] = new] /\ exporting[k].step = "upload" /\ UNCHANGED export
  BY DEF UploadExport
<1> HIDE DEF new
<1>5. /\ exporting' \in [Exporting -> ExportingCall] /\ exporting'[k] = new
      /\ \A j \in Exporting : j # k => exporting'[j] = exporting[j]
  BY <1>3, <1>4 DEF ExportsIInv, ExportTypes
<1>6. /\ file' \in [FileKey -> Exporting \cup {None}]
      /\ file'[<<n, e>>] = k
      /\ \A key \in FileKey : key # <<n, e>> => file'[key] = file[key]
  BY <1>2, KeysApart DEF ExportsIInv, ExportTypes
<1>7. \A j \in Exporting : file'[<<j, "xlsx">>] = file[<<j, "xlsx">>]
  BY <1>6, KeysApart
<1>8. ASSUME NEW j \in Exporting PROVE ExportIsWhole(j)'
  <2>1. ExportIsWhole(j)
    BY DEF ExportsIInv
  <2>2. CASE j = k
    BY <1>3, <1>4, <1>5, <1>6, <2>1, <2>2, DocumentsAssumption DEF ExportIsWhole, KeyOf
  <2>3. CASE j # k
    <3>1. exporting'[j] = exporting[j] /\ export'[j] = export[j]
      BY <1>4, <1>5, <2>3
    <3>2. ASSUME exporting[j].step \in {"presign", "served"} PROVE file'[KeyOf(j)] # None
      <4>1. KeyOf(j) \in FileKey /\ file[KeyOf(j)] # None
        BY <2>1, <3>2 DEF ExportIsWhole, KeyOf, FileKey
      <4> QED
        BY <1>6, <4>1, DocumentsAssumption
    <3> QED
      BY <1>7, <2>1, <3>1, <3>2 DEF ExportIsWhole, Stored, KeyOf
  <2> QED
    BY <2>2, <2>3
<1>9. ASSUME NEW m \in Name, NEW x \in Extension, NEW j \in Exporting, file'[<<m, x>>] = j
      PROVE  j \in StoredUnder(m, x)'
  <2>1. CASE m = n /\ x = e
    BY <1>3, <1>5, <1>6, <1>9, <2>1 DEF StoredUnder
  <2>2. CASE ~(m = n /\ x = e)
    <3>1. <<m, x>> \in FileKey /\ <<m, x>> # <<n, e>>
      BY <2>2 DEF FileKey
    <3>2. j \in StoredUnder(m, x)
      BY <1>6, <1>9, <3>1 DEF ExportsIInv
    <3> QED
      BY <1>4, <1>5, <3>2 DEF StoredUnder
  <2> QED
    BY <2>1, <2>2
<1> QED
  BY <1>4, <1>5, <1>6, <1>8, <1>9 DEF ExportsIInv, ExportTypes

\* The call has stored its object: the answer, or a failure, leaves it.
LEMMA AfterUploadStep ==
  ASSUME ExportsIInv, NEW k \in Exporting, exporting[k].step = "presign",
         PresignExport(k) \/ ExportFails(k)
  PROVE  ExportsIInv'
<1>1. PICK step \in {"served", "done"} : exporting' = [exporting EXCEPT ![k].step = step]
  BY DEF PresignExport, ExportFails
<1> DEFINE new == [exporting[k] EXCEPT !.step = step]
<1>2. /\ new \in ExportingCall /\ new.step = step /\ new.lost = exporting[k].lost
      /\ new.name = exporting[k].name /\ new.ext = exporting[k].ext
  BY DEF ExportsIInv, ExportTypes, ExportingCall
<1>3. exporting' = [exporting EXCEPT ![k] = new] /\ UNCHANGED <<file, export>>
  BY <1>1 DEF PresignExport, ExportFails
<1> HIDE DEF new
<1>4. /\ exporting' \in [Exporting -> ExportingCall] /\ exporting'[k] = new
      /\ \A j \in Exporting : j # k => exporting'[j] = exporting[j]
  BY <1>2, <1>3 DEF ExportsIInv, ExportTypes
<1>5. ASSUME NEW j \in Exporting PROVE ExportIsWhole(j)'
  <2>1. ExportIsWhole(j)
    BY DEF ExportsIInv
  <2>2. CASE j = k
    BY <1>2, <1>3, <1>4, <2>1, <2>2 DEF ExportIsWhole, Stored, KeyOf
  <2>3. CASE j # k
    BY <1>3, <1>4, <2>1, <2>3 DEF ExportIsWhole, Stored, KeyOf
  <2> QED
    BY <2>2, <2>3
<1>6. ASSUME NEW n \in Name, NEW e \in Extension, NEW j \in Exporting, file'[<<n, e>>] = j
      PROVE  j \in StoredUnder(n, e)'
  <2>1. j \in StoredUnder(n, e)
    BY <1>3, <1>6 DEF ExportsIInv
  <2> QED
    BY <1>2, <1>4, <2>1 DEF StoredUnder
<1> QED
  BY <1>3, <1>4, <1>5, <1>6 DEF ExportsIInv, ExportTypes

LEMMA SaveExportStep ==
  ASSUME ExportsIInv, NEW k \in Exporting, SaveExport(k)
  PROVE  ExportsIInv'
<1>1. exporting[k].step = "store" /\ exporting[k] \in ExportingCall /\ UNCHANGED export
  BY DEF SaveExport, ExportsIInv, ExportTypes
<1>2. CASE exporting' = [exporting EXCEPT ![k].step = "done"] /\ UNCHANGED file
  <2> DEFINE new == [exporting[k] EXCEPT !.step = "done"]
  <2>1. new \in ExportingCall /\ new.step = "done"
    BY <1>1 DEF ExportingCall
  <2>2. exporting' = [exporting EXCEPT ![k] = new]
    BY <1>2
  <2> HIDE DEF new
  <2> QED
    BY <1>1, <1>2, <2>1, <2>2, OneExportingStep
<1>3. ASSUME NEW new \in ExportingCall, exporting' = [exporting EXCEPT ![k] = new],
             new.step = "mark", \/ file' = [file EXCEPT ![<<k, "xlsx">>] = k]
                                \/ new.lost /\ UNCHANGED file
      PROVE  ExportsIInv'
  <2>1. /\ exporting' \in [Exporting -> ExportingCall] /\ exporting'[k] = new
        /\ \A j \in Exporting : j # k => exporting'[j] = exporting[j]
    BY <1>3 DEF ExportsIInv, ExportTypes
  <2>2. /\ file' \in [FileKey -> Exporting \cup {None}]
        /\ \A key \in FileKey : key # <<k, "xlsx">> => file'[key] = file[key]
        /\ file'[<<k, "xlsx">>] = k \/ new.lost
    BY <1>3, KeysApart DEF ExportsIInv, ExportTypes
  <2>3. \A n \in Name, e \in Extension : file'[<<n, e>>] = file[<<n, e>>]
    BY <2>2, KeysApart
  <2>4. ASSUME NEW j \in Exporting PROVE ExportIsWhole(j)'
    <3>1. ExportIsWhole(j)
      BY DEF ExportsIInv
    <3>2. CASE j = k
      BY <1>1, <1>3, <2>1, <2>2, <3>1, <3>2 DEF ExportIsWhole, Stored
    <3>3. CASE j # k
      <4>1. exporting'[j] = exporting[j] /\ export'[j] = export[j]
        BY <1>1, <2>1, <3>3
      <4>2. file'[<<j, "xlsx">>] = file[<<j, "xlsx">>]
        BY <2>2, <3>3, KeysApart
      <4> QED
        BY <2>3, <3>1, <4>1, <4>2 DEF ExportIsWhole, Stored, KeyOf
    <3> QED
      BY <3>2, <3>3
  <2>5. ASSUME NEW n \in Name, NEW e \in Extension, NEW j \in Exporting, file'[<<n, e>>] = j
        PROVE  j \in StoredUnder(n, e)'
    <3>1. j \in StoredUnder(n, e)
      BY <2>3, <2>5 DEF ExportsIInv
    <3> QED
      BY <1>1, <2>1, <3>1 DEF StoredUnder
  <2> QED
    BY <1>1, <2>1, <2>2, <2>4, <2>5 DEF ExportsIInv, ExportTypes
<1>4. CASE /\ file' = [file EXCEPT ![<<k, "xlsx">>] = k]
           /\ exporting' = [exporting EXCEPT ![k].step = "mark"]
  <2> DEFINE new == [exporting[k] EXCEPT !.step = "mark"]
  <2>1. new \in ExportingCall /\ new.step = "mark"
    BY <1>1 DEF ExportingCall
  <2>2. exporting' = [exporting EXCEPT ![k] = new]
    BY <1>4
  <2> HIDE DEF new
  <2> QED
    BY <1>3, <1>4, <2>1, <2>2
<1>5. CASE /\ exporting' = [exporting EXCEPT ![k].step = "mark", ![k].lost = TRUE]
           /\ UNCHANGED file
  <2> DEFINE new == [exporting[k] EXCEPT !.step = "mark", !.lost = TRUE]
  <2>1. new \in ExportingCall /\ new.step = "mark" /\ new.lost
    BY <1>1 DEF ExportingCall
  <2>2. exporting' = [exporting EXCEPT ![k] = new]
    BY <1>1, <1>5 DEF ExportsIInv, ExportTypes
  <2> HIDE DEF new
  <2> QED
    BY <1>3, <1>5, <2>1, <2>2
<1> QED
  BY <1>2, <1>4, <1>5 DEF SaveExport

LEMMA MarkToDownloadStep ==
  ASSUME ExportsIInv, NEW k \in Exporting, MarkToDownload(k)
  PROVE  ExportsIInv'
<1> DEFINE new == [exporting[k] EXCEPT !.step = "done"]
<1>1. /\ new \in ExportingCall /\ new.step = "done" /\ new.lost = exporting[k].lost
      /\ exporting[k].step = "mark" /\ UNCHANGED file
  BY DEF MarkToDownload, ExportsIInv, ExportTypes, ExportingCall
<1>2. exporting' = [exporting EXCEPT ![k] = new]
  BY DEF MarkToDownload
<1> HIDE DEF new
<1>3. /\ exporting' \in [Exporting -> ExportingCall] /\ exporting'[k] = new
      /\ \A j \in Exporting : j # k => exporting'[j] = exporting[j]
  BY <1>1, <1>2 DEF ExportsIInv, ExportTypes
<1>4. /\ export' \in [Exporting -> {None, "SENT", "TO_DOWNLOAD"}]
      /\ \A j \in Exporting : j # k => export'[j] = export[j]
  BY DEF MarkToDownload, ExportsIInv, ExportTypes
<1>5. ASSUME NEW j \in Exporting PROVE ExportIsWhole(j)'
  <2>1. ExportIsWhole(j)
    BY DEF ExportsIInv
  <2> QED
    BY <1>1, <1>3, <1>4, <2>1 DEF ExportIsWhole, Stored, KeyOf
<1>6. ASSUME NEW n \in Name, NEW e \in Extension, NEW j \in Exporting, file'[<<n, e>>] = j
      PROVE  j \in StoredUnder(n, e)'
  <2>1. j \in StoredUnder(n, e)
    BY <1>1, <1>6 DEF ExportsIInv
  <2> QED
    BY <1>1, <1>3, <2>1 DEF StoredUnder
<1> QED
  BY <1>1, <1>3, <1>4, <1>5, <1>6 DEF ExportsIInv, ExportTypes

\* A key of a client's name holds the bytes of a call that serves that name, and the
\* folder of an export holds that export's file before its row can be downloaded.
LEMMA ExportsInvariance == DocumentsSpec => []ExportsIInv
<1>1. DocumentsInit => ExportsIInv
  <2> SUFFICES ASSUME DocumentsInit PROVE ExportsIInv
    OBVIOUS
  <2>1. /\ export = [k \in Exporting |-> None]
        /\ file = [key \in FileKey |-> None]
        /\ exporting = [k \in Exporting |-> NoExporting]
    BY DEF DocumentsInit, FileKey
  <2>2. NoExporting.step = "none"
    BY DEF NoExporting
  <2>3. ExportTypes
    BY <2>1, NoExportingTyped DEF ExportTypes
  <2>4. ASSUME NEW k \in Exporting PROVE ExportIsWhole(k)
    BY <2>1, <2>2, DocumentsAssumption DEF ExportIsWhole
  <2>5. \A n \in Name, e \in Extension : file[<<n, e>>] = None
    BY <2>1 DEF FileKey
  <2> QED
    BY <2>3, <2>4, <2>5, DocumentsAssumption DEF ExportsIInv
<1>2. ExportsIInv /\ [DocumentsNext]_documentVars => ExportsIInv'
  <2> SUFFICES ASSUME ExportsIInv, [DocumentsNext]_documentVars PROVE ExportsIInv'
    OBVIOUS
  <2>1. CASE UNCHANGED exportVars
    BY <2>1 DEF exportVars, ExportsIInv, ExportTypes, ExportIsWhole, Stored, KeyOf, StoredUnder
  <2>2. CASE AttachmentsNext
    BY <2>1, <2>2 DEF AttachmentsNext, CreateAttachments, InsertAttachment, AttachmentsFail,
       DeleteAttachment, DeleteObject, MarkDeleted, DeletionFails, ClientUploads
  <2>3. CASE PolizasNext
    BY <2>1, <2>3 DEF PolizasNext, CreatePolizas, InsertPolizas, RollbackPolizas
  <2>4. CASE ExportsNext
    <3>1. ASSUME NEW k \in Exporting, ExportFails(k) PROVE ExportsIInv'
      BY <3>1, BeginExportStep, AfterUploadStep DEF ExportFails
    <3>2. ASSUME NEW k \in Exporting, PresignExport(k) PROVE ExportsIInv'
      BY <3>2, AfterUploadStep DEF PresignExport
    <3> QED
      BY <2>4, <3>1, <3>2, BeginExportStep, UploadExportStep, SaveExportStep, MarkToDownloadStep
         DEF ExportsNext
  <2>5. CASE UNCHANGED documentVars
    BY <2>1, <2>5 DEF documentVars
  <2> QED
    BY <2>2, <2>3, <2>4, <2>5 DEF DocumentsNext
<1> QED
  BY <1>1, <1>2, PTL DEF DocumentsSpec

\* A deletion takes the object of its own row unless deletions of that row overlapped,
\* and a URL serves its own export unless another call, answered or not, has stored one of
\* the same name and format; a row that can be downloaded has its file.
THEOREM ObjectsAreTheirOwnHolds == DocumentsSpec => ObjectsAreTheirOwn
<1>1. AttachmentsIInv /\ [DocumentsNext]_documentVars =>
        [\A k \in Attaching :
           attaching[k].step = "object" /\ attached' # attached /\ attaching'[k] # attaching[k] =>
             \/ attaching[k].row \in Live
             \/ \E j \in Attaching \ {k} : /\ attaching[j].step = "done"
                                           /\ attaching[j].row = attaching[k].row]_documentVars
  BY DEF AttachmentsIInv, OwnsObject
<1>2. ExportsIInv => UrlServesItsExport
  <2> SUFFICES ASSUME ExportsIInv, NEW k \in Exporting
               PROVE  /\ exporting[k].step = "served" =>
                           \/ file[KeyOf(k)] = k
                           \/ StoredUnder(exporting[k].name, exporting[k].ext) \ {k} # {}
                      /\ export[k] = "TO_DOWNLOAD" => file[<<k, "xlsx">>] = k \/ exporting[k].lost
    BY DEF UrlServesItsExport
  <2>1. ExportIsWhole(k)
    BY DEF ExportsIInv
  <2>2. ASSUME exporting[k].step = "served", file[KeyOf(k)] # k
        PROVE  \E j \in Exporting \ {k} : j \in StoredUnder(exporting[k].name, exporting[k].ext)
    <3>1. /\ exporting[k].name \in Name /\ exporting[k].ext \in Extension
          /\ KeyOf(k) = <<exporting[k].name, exporting[k].ext>> /\ file[KeyOf(k)] # None
      BY <2>1, <2>2 DEF ExportIsWhole, KeyOf
    <3>2. file[KeyOf(k)] \in Exporting
      BY <3>1 DEF ExportsIInv, ExportTypes, FileKey
    <3> QED
      BY <2>2, <3>1, <3>2 DEF ExportsIInv
  <2> QED
    BY <2>1, <2>2 DEF ExportIsWhole, Stored, StoredUnder
<1> QED
  BY <1>1, <1>2, AttachmentsInvariance, ExportsInvariance, PTL
     DEF DocumentsSpec, ObjectsAreTheirOwn, ObjectIsItsOwn

-----------------------------------------------------------------------------
(* Policies *)

PolizaTable == [PolizaId -> PolizaRow \cup {None}]

Brought == [PolizaId -> PolizaItem \cup {None}]

PostingCall == [step : {"none", "insert", "done"}, new : Brought, missed : SUBSET PolizaId]

\* What the check for pseudo keys found holds until another request commits rows.
PolizasIInv ==
  /\ poliza \in PolizaTable
  /\ posting \in [Posting -> PostingCall]
  /\ \A k \in Posting : posting[k].step = "insert" /\ posting[k].missed = {} =>
       Taken(posting[k].new) = {}

LEMMA NoPostingTyped ==
  /\ NoPosting \in PostingCall /\ NoPosting.missed = {}
  /\ [NoPosting EXCEPT !.step = "done"] \in PostingCall
<1>1. NoPosting \in PostingCall /\ NoPosting.missed = {}
  BY DEF NoPosting, PostingCall, Brought
<1> QED
  BY <1>1 DEF PostingCall

LEMMA OnePostingStep ==
  ASSUME PolizasIInv, NEW k \in Posting, NEW new \in PostingCall,
         posting' = [posting EXCEPT ![k] = new], UNCHANGED poliza,
         new.step = "insert" /\ new.missed = {} => Taken(new.new) = {}
  PROVE  PolizasIInv'
<1>1. /\ posting' \in [Posting -> PostingCall] /\ posting'[k] = new
      /\ \A j \in Posting : j # k => posting'[j] = posting[j]
  BY DEF PolizasIInv
<1> QED
  BY <1>1 DEF PolizasIInv, Taken

LEMMA InsertPolizasStep ==
  ASSUME PolizasIInv, NEW k \in Posting, InsertPolizas(k)
  PROVE  PolizasIInv'
<1>1. posting[k] \in PostingCall /\ Given(k) \subseteq PolizaId
  BY DEF PolizasIInv, Given
<1>2. poliza' = [i \in PolizaId |->
                   IF i \in Given(k) THEN RowOf(posting[k].new[i]) ELSE poliza[i]]
  BY DEF InsertPolizas
<1>3. poliza' \in PolizaTable
  <2>1. \A i \in Given(k) : RowOf(posting[k].new[i]) \in PolizaRow
    BY <1>1 DEF PostingCall, Brought, Given, PolizaItem, PolizaRow, RowOf
  <2> QED
    BY <1>2, <2>1 DEF PolizasIInv, PolizaTable
<1>4. ASSUME NEW j \in Posting
      PROVE  /\ posting'[j] \in PostingCall
             /\ posting'[j].step = "insert" /\ posting'[j].missed = {} =>
                  /\ posting[j].step = "insert" /\ posting[j].missed = {} /\ Given(k) = {}
                  /\ posting'[j].new = posting[j].new
  <2>1. posting[j] \in PostingCall
    BY DEF PolizasIInv
  <2>2. CASE j = k
    <3>1. posting'[j] = [NoPosting EXCEPT !.step = "done"]
      BY <2>2 DEF InsertPolizas
    <3>2. posting'[j].step = "done"
      BY <3>1 DEF NoPosting
    <3> QED
      BY <3>1, <3>2, NoPostingTyped
  <2>3. CASE j # k /\ posting[j].step = "insert"
    <3>1. posting'[j] = [posting[j] EXCEPT !.missed = @ \cup Given(k)]
      BY <2>3 DEF InsertPolizas
    <3> QED
      BY <1>1, <2>1, <2>3, <3>1 DEF PostingCall
  <2>4. CASE j # k /\ posting[j].step # "insert"
    BY <2>1, <2>4 DEF InsertPolizas
  <2> QED
    BY <2>2, <2>3, <2>4
<1>5. posting' \in [Posting -> PostingCall]
  <2>1. posting' = [j \in Posting |-> posting'[j]]
    BY DEF InsertPolizas
  <2> QED
    BY <1>4, <2>1
<1>6. Given(k) = {} => poliza' = poliza
  BY <1>2 DEF PolizasIInv, PolizaTable
<1> QED
  BY <1>3, <1>4, <1>5, <1>6 DEF PolizasIInv, Taken

\* A request that nobody overlapped brings no policy with the day and the number of one
\* that stays, if its client is in a zone where the day is that of UTC.
LEMMA NumberTwiceNeedsOverlapHolds == DocumentsSpec => NumberTwiceNeedsOverlap
<1>1. DocumentsInit => PolizasIInv
  <2>1. NoPosting.step = "none"
    BY DEF NoPosting
  <2> QED
    BY <2>1, NoPostingTyped DEF DocumentsInit, PolizasIInv, PolizaTable
<1>2. PolizasIInv /\ [DocumentsNext]_documentVars => PolizasIInv'
  <2> SUFFICES ASSUME PolizasIInv, [DocumentsNext]_documentVars PROVE PolizasIInv'
    OBVIOUS
  <2>1. CASE UNCHANGED polizaVars
    BY <2>1 DEF polizaVars, PolizasIInv, Taken
  <2>2. CASE AttachmentsNext
    BY <2>1, <2>2 DEF AttachmentsNext, CreateAttachments, InsertAttachment, AttachmentsFail,
       DeleteAttachment, DeleteObject, MarkDeleted, DeletionFails, ClientUploads
  <2>3. ASSUME NEW k \in Posting, NEW new \in Brought, CreatePolizas(k, new)
        PROVE  PolizasIInv'
    <3>1. UNCHANGED poliza
      BY <2>3 DEF CreatePolizas
    <3>2. CASE Taken(new) = {}
      <4> DEFINE call == [NoPosting EXCEPT !.step = "insert", !.new = new]
      <4>1. call \in PostingCall /\ call.new = new
        BY NoPostingTyped DEF PostingCall
      <4>2. posting' = [posting EXCEPT ![k] = call]
        BY <2>3, <3>2 DEF CreatePolizas
      <4> HIDE DEF call
      <4> QED
        BY <3>1, <3>2, <4>1, <4>2, OnePostingStep
    <3>3. CASE Taken(new) # {}
      <4> DEFINE call == [NoPosting EXCEPT !.step = "done"]
      <4>1. call \in PostingCall /\ call.step = "done"
        BY NoPostingTyped DEF NoPosting
      <4>2. posting' = [posting EXCEPT ![k] = call]
        BY <2>3, <3>3 DEF CreatePolizas
      <4> HIDE DEF call
      <4> QED
        BY <3>1, <4>1, <4>2, OnePostingStep
    <3> QED
      BY <3>2, <3>3
  <2>4. ASSUME NEW k \in Posting, RollbackPolizas(k) PROVE PolizasIInv'
    <3> DEFINE call == [NoPosting EXCEPT !.step = "done"]
    <3>1. call \in PostingCall /\ call.step = "done"
      BY NoPostingTyped DEF NoPosting
    <3>2. posting' = [posting EXCEPT ![k] = call] /\ UNCHANGED poliza
      BY <2>4 DEF RollbackPolizas
    <3> HIDE DEF call
    <3> QED
      BY <3>1, <3>2, OnePostingStep
  <2>5. CASE PolizasNext
    BY <2>3, <2>4, <2>5, InsertPolizasStep DEF PolizasNext, Brought
  <2>6. CASE ExportsNext
    BY <2>1, <2>6 DEF ExportsNext, Export, UploadExport, PresignExport, ExportFails, PublishExport,
       CreateExportRecord, SaveExport, MarkToDownload
  <2>7. CASE UNCHANGED documentVars
    BY <2>1, <2>7 DEF documentVars
  <2> QED
    BY <2>2, <2>5, <2>6, <2>7 DEF DocumentsNext
<1>3. PolizasIInv /\ [DocumentsNext]_documentVars =>
        [\A k \in Posting :
           posting[k].step = "insert" /\ poliza' # poliza /\ posting[k].missed = {} /\ Given(k) # {}
             /\ posting'[k].step = "done" =>
               \A i \in Given(k), j \in PolizaId \ Given(k) :
                 SameDay(posting[k].new[i]) /\ poliza[j] # None =>
                   StoredPK(RowOf(posting[k].new[i])) # StoredPK(poliza[j])]_documentVars
  BY DEF PolizasIInv, Taken, Given, SameDay
<1> QED
  BY <1>1, <1>2, <1>3, PTL DEF DocumentsSpec, NumberTwiceNeedsOverlap

-----------------------------------------------------------------------------
(* Sums over a finite set, as FiniteSetsExt computes them: one element after the
   other, in an order that CHOOSE fixes.  They exist, and do not depend on the order.
   No induction over data: a least counterexample is refuted instead. *)

\* A set of numbers has a least one.
LEMMA Least ==
  ASSUME NEW T \in SUBSET Nat, T # {}
  PROVE  \E m \in T : \A k \in T : ~(k < m)
<1>1. PICK m \in T : \A k \in T : <<k, m>> \notin OpToRel(<, Nat)
  BY WFMin, NatLessThanWellFounded, Zenon
<1> QED
  BY <1>1, Zenon DEF OpToRel

\* Among sets of parts of a finite set, one is such that no part of it with one element
\* less is among them.
LEMMA LeastPart ==
  ASSUME NEW S, IsFiniteSet(S), NEW B \in SUBSET (SUBSET S), B # {}
  PROVE  \E b \in B : \A x \in b : b \ {x} \notin B
<1> DEFINE T == {n \in Nat : \E b \in B : Cardinality(b) = n}
<1>1. ASSUME NEW b \in B PROVE IsFiniteSet(b) /\ Cardinality(b) \in Nat
  BY FS_Subset, FS_CardinalityType
<1>2. T \in SUBSET Nat /\ T # {}
  BY <1>1
<1>3. PICK m \in T : \A k \in T : ~(k < m)
  <2> HIDE DEF T
  <2> QED
    BY <1>2, Least
<1>4. PICK b \in B : Cardinality(b) = m
  OBVIOUS
<1>5. ASSUME NEW x \in b, b \ {x} \in B PROVE FALSE
  <2>1. Cardinality(b \ {x}) = Cardinality(b) - 1
    BY <1>1, FS_RemoveElement
  <2>2. Cardinality(b \ {x}) \in T
    BY <1>1, <1>5
  <2> HIDE DEF T
  <2> QED
    BY <1>1, <1>3, <1>4, <2>1, <2>2
<1> QED
  BY <1>5

Some(s) == CHOOSE x \in s : TRUE

\* f gives each part of S its sum.
IsSum(v, f, S) == f = [s \in SUBSET S |-> IF s = {} THEN 0 ELSE v[Some(s)] + f[s \ {Some(s)}]]

Sum(v, S) == MapThenSumSet(LAMBDA x : v[x], S)

LEMMA SomeElement == ASSUME NEW s, s # {} PROVE Some(s) \in s
BY DEF Some

\* There is such a function, for every finite set.
LEMMA SumExists ==
  ASSUME NEW S, IsFiniteSet(S), NEW v \in [S -> Nat]
  PROVE  \E f : IsSum(v, f, S)
<1> DEFINE Level(n) == {s \in SUBSET S : Cardinality(s) <= n}
           Next(f, s) == IF s = {} THEN 0 ELSE v[Some(s)] + f[s \ {Some(s)}]
           UpTo(n, f) == f = [s \in Level(n) |-> Next(f, s)]
           T == {n \in Nat : ~\E f : UpTo(n, f)}
<1>1. ASSUME NEW s \in SUBSET S
      PROVE  /\ IsFiniteSet(s) /\ Cardinality(s) \in Nat /\ Cardinality(s) <= Cardinality(S)
             /\ Cardinality(s) = 0 <=> s = {}
             /\ s # {} => /\ Some(s) \in s /\ s \ {Some(s)} \in SUBSET S
                          /\ Cardinality(s \ {Some(s)}) = Cardinality(s) - 1
  BY FS_Subset, FS_CardinalityType, FS_EmptySet, FS_RemoveElement, SomeElement
<1>2. T = {}
  <2> SUFFICES ASSUME T # {} PROVE FALSE
    OBVIOUS
  <2>1. PICK m \in T : \A k \in T : ~(k < m)
    <3>1. T \in SUBSET Nat
      OBVIOUS
    <3> HIDE DEF T
    <3> QED
      BY <3>1, Least
  <2>2. CASE m = 0
    <3> DEFINE f == [s \in Level(0) |-> 0]
    <3>1. ASSUME NEW s \in Level(0) PROVE s = {}
      <4>1. s \in SUBSET S /\ Cardinality(s) <= 0
        OBVIOUS
      <4>2. Cardinality(s) \in Nat /\ (Cardinality(s) = 0 <=> s = {})
        BY <1>1
      <4> HIDE DEF Level
      <4> QED
        BY <4>1, <4>2
    <3>2. UpTo(0, f)
      BY <3>1
    <3> QED
      BY <2>2, <3>2
  <2>3. CASE m # 0
    <3>1. m - 1 \in Nat /\ m - 1 \notin T
      <4>1. m \in Nat
        OBVIOUS
      <4> HIDE DEF T
      <4> QED
        BY <2>1, <2>3, <4>1
    <3>2. PICK f : UpTo(m - 1, f)
      BY <3>1
    <3> DEFINE g == [s \in Level(m) |-> Next(f, s)]
    <3>3. ASSUME NEW s \in Level(m), s # {} PROVE s \ {Some(s)} \in Level(m - 1)
      BY <1>1, <3>1, <3>3
    <3>4. ASSUME NEW s \in Level(m - 1) PROVE s \in Level(m) /\ f[s] = g[s]
      <4>1. s \in Level(m)
        <5>1. s \in SUBSET S /\ Cardinality(s) <= m - 1 /\ m \in Nat
          OBVIOUS
        <5>2. Cardinality(s) \in Nat
          BY <1>1
        <5>3. Cardinality(s) <= m
          BY <5>1, <5>2, SMT
        <5> QED
          BY <5>1, <5>3
      <4>2. f[s] = Next(f, s)
        <5> HIDE DEF Next, Level
        <5> QED
        BY <3>2
      <4> QED
        BY <4>1, <4>2
    <3>5. ASSUME NEW s \in Level(m) PROVE Next(f, s) = Next(g, s)
      <4> HIDE DEF g, Level
      <4> QED
        BY <3>3, <3>4
    <3>6. UpTo(m, g)
      <4> HIDE DEF Level, Next
      <4> QED
        BY <3>5
    <3> QED
      BY <3>6
  <2> QED
    BY <2>2, <2>3
<1>3. Cardinality(S) \in Nat /\ Level(Cardinality(S)) = SUBSET S
  BY <1>1
<1>4. PICK f : UpTo(Cardinality(S), f)
  BY <1>2, <1>3
<1>5. f = [s \in SUBSET S |-> Next(f, s)]
  <2> HIDE DEF Next, Level
  <2> QED
    BY <1>3, <1>4
<1> QED
  BY <1>5 DEF IsSum

\* Its values are numbers.
LEMMA SumOfPart ==
  ASSUME NEW S, IsFiniteSet(S), NEW v \in [S -> Nat], NEW f, IsSum(v, f, S)
  PROVE  \A s \in SUBSET S : f[s] \in Nat
<1> DEFINE B == {s \in SUBSET S : f[s] \notin Nat}
<1>1. ASSUME NEW s \in SUBSET S
      PROVE  f[s] = IF s = {} THEN 0 ELSE v[Some(s)] + f[s \ {Some(s)}]
  BY Zenon DEF IsSum
<1>2. ASSUME B # {} PROVE FALSE
  <2>1. PICK b \in B : \A x \in b : b \ {x} \notin B
    BY <1>2, LeastPart
  <2>2. b # {}
    <3>1. f[{}] = 0
      BY <1>1
    <3> QED
      BY <3>1
  <2>3. Some(b) \in b /\ b \ {Some(b)} \in SUBSET S /\ f[b \ {Some(b)}] \in Nat
    BY <2>1, <2>2, SomeElement
  <2> QED
    BY <1>1, <2>2, <2>3
<1> QED
  BY <1>2

\* A part has one sum, in whatever set it is.
LEMMA SumUnique ==
  ASSUME NEW S, IsFiniteSet(S), NEW v, NEW f, IsSum(v, f, S),
         NEW T, NEW w, NEW g, IsSum(w, g, T),
         NEW R \in SUBSET S, R \subseteq T, \A x \in R : v[x] = w[x]
  PROVE  \A s \in SUBSET R : f[s] = g[s]
<1> DEFINE B == {s \in SUBSET R : f[s] # g[s]}
<1>1. ASSUME NEW s \in SUBSET S
      PROVE  f[s] = IF s = {} THEN 0 ELSE v[Some(s)] + f[s \ {Some(s)}]
  BY Zenon DEF IsSum
<1>2. ASSUME NEW s \in SUBSET T
      PROVE  g[s] = IF s = {} THEN 0 ELSE w[Some(s)] + g[s \ {Some(s)}]
  BY Zenon DEF IsSum
<1>3. ASSUME B # {} PROVE FALSE
  <2>1. B \in SUBSET (SUBSET S)
    OBVIOUS
  <2>2. PICK b \in B : \A x \in b : b \ {x} \notin B
    BY <1>3, <2>1, LeastPart
  <2>3. b \in SUBSET S /\ b # {}
    BY <1>1, <1>2
  <2>4. Some(b) \in b /\ b \ {Some(b)} \in SUBSET R /\ f[b \ {Some(b)}] = g[b \ {Some(b)}]
    BY <2>2, <2>3, SomeElement
  <2> QED
    BY <1>1, <1>2, <2>3, <2>4
<1> QED
  BY <1>3

\* The sum of the community module is that function.
LEMMA SumIs ==
  ASSUME NEW S, IsFiniteSet(S), NEW v \in [S -> Nat]
  PROVE  \E f : IsSum(v, f, S) /\ \A R \in SUBSET S : Sum(v, R) = f[R] /\ f[R] \in Nat
<1>1. PICK f : IsSum(v, f, S)
  BY SumExists
<1>2. ASSUME NEW R \in SUBSET S PROVE Sum(v, R) = f[R]
  <2> DEFINE w == [x \in R |-> v[x]]
             g == CHOOSE h : IsSum(v, h, R)
  <2>1. IsFiniteSet(R) /\ w \in [R -> Nat]
    BY FS_Subset
  <2>2. PICK h : IsSum(w, h, R)
    <3> HIDE DEF w
    <3> QED
      BY <2>1, SumExists
  <2>3. IsSum(v, h, R)
    BY <2>2, SomeElement DEF IsSum
  <2>4. IsSum(v, g, R) /\ Sum(v, R) = g[R]
    <3>1. Sum(v, R) = g[R]
      BY Zenon DEF Sum, MapThenSumSet, MapThenFoldSet, IsSum, Some
    <3>2. IsSum(v, g, R)
      BY <2>3, Zenon
    <3> QED
      BY <3>1, <3>2
  <2> HIDE DEF g
  <2> QED
    BY <1>1, <2>4, SumUnique
<1> QED
  BY <1>1, <1>2, SumOfPart

\* What a sum has without one of its elements.
LEMMA SumRemove ==
  ASSUME NEW S, IsFiniteSet(S), NEW v \in [S -> Nat], NEW R \in SUBSET S, NEW a \in R
  PROVE  Sum(v, R) \in Nat /\ Sum(v, R \ {a}) \in Nat /\ Sum(v, R) = v[a] + Sum(v, R \ {a})
<1>1. PICK f : IsSum(v, f, S) /\ \A s \in SUBSET S : Sum(v, s) = f[s] /\ f[s] \in Nat
  BY SumIs
<1> DEFINE B == {s \in SUBSET S : \E x \in s : f[s] # v[x] + f[s \ {x}]}
<1>2. ASSUME NEW s \in SUBSET S
      PROVE  f[s] = IF s = {} THEN 0 ELSE v[Some(s)] + f[s \ {Some(s)}]
  BY <1>1, Zenon DEF IsSum
<1>3. ASSUME B # {} PROVE FALSE
  <2>1. PICK b \in B : \A x \in b : b \ {x} \notin B
    BY <1>3, LeastPart
  <2>2. PICK x \in b : f[b] # v[x] + f[b \ {x}]
    OBVIOUS
  <2> DEFINE c == Some(b)
  <2>3. c \in b /\ x # c /\ f[b] = v[c] + f[b \ {c}]
    BY <1>2, <2>2, SomeElement
  <2> HIDE DEF c
  <2>4. f[b \ {c}] = v[x] + f[(b \ {c}) \ {x}]
    BY <2>1, <2>3
  <2>5. f[b \ {x}] = v[c] + f[(b \ {x}) \ {c}]
    BY <2>1, <2>3
  <2>6. (b \ {c}) \ {x} = (b \ {x}) \ {c}
    OBVIOUS
  <2> DEFINE rest == f[(b \ {x}) \ {c}]
  <2>7. rest \in Nat /\ v[x] \in Nat /\ v[c] \in Nat
    BY <1>1, <2>3
  <2>8. f[b \ {c}] = v[x] + rest /\ f[b \ {x}] = v[c] + rest
    BY <2>4, <2>5, <2>6, Zenon
  <2> HIDE DEF B, rest
  <2> QED
    BY <2>2, <2>3, <2>7, <2>8
<1>4. f[R] = v[a] + f[R \ {a}]
  BY <1>3
<1> QED
  BY <1>1, <1>4

\* One number that grows.
LEMMA SumGrows ==
  ASSUME NEW S, IsFiniteSet(S), NEW v \in [S -> Nat], NEW w \in [S -> Nat],
         NEW a \in S, NEW n \in Nat, w[a] = v[a] + n, \A x \in S \ {a} : w[x] = v[x]
  PROVE  Sum(w, S) = Sum(v, S) + n
<1> DEFINE R == S \ {a}
<1>1. PICK f : IsSum(v, f, S) /\ \A s \in SUBSET S : Sum(v, s) = f[s] /\ f[s] \in Nat
  BY SumIs, ZenonT(40)
<1>2. PICK g : IsSum(w, g, S) /\ \A s \in SUBSET S : Sum(w, s) = g[s] /\ g[s] \in Nat
  BY SumIs
<1>3. f[R] = g[R]
  BY <1>1, <1>2, SumUnique, SMTT(30)
<1>4. Sum(w, R) = Sum(v, R)
  BY <1>1, <1>2, <1>3
<1>5. /\ Sum(v, S) = v[a] + Sum(v, R) /\ Sum(w, S) = w[a] + Sum(w, R) /\ Sum(v, R) \in Nat
      /\ v[a] \in Nat
  <2>1. S \in SUBSET S /\ v[a] \in Nat
    OBVIOUS
  <2>2. Sum(v, S) = v[a] + Sum(v, R) /\ Sum(v, R) \in Nat
    BY <2>1, SumRemove
  <2>3. Sum(w, S) = w[a] + Sum(w, R)
    BY <2>1, SumRemove
  <2> QED
    BY <2>1, <2>2, <2>3
<1> QED
  BY <1>4, <1>5

LEMMA SumEmpty == ASSUME NEW v PROVE Sum(v, {}) = 0
<1> DEFINE f == [s \in SUBSET {} |-> 0]
           g == CHOOSE h : IsSum(v, h, {})
<1>1. IsSum(v, f, {})
  BY DEF IsSum
<1>2. Sum(v, {}) = g[{}] /\ IsSum(v, g, {})
  <2>1. Sum(v, {}) = g[{}]
    BY Zenon DEF Sum, MapThenSumSet, MapThenFoldSet, IsSum, Some
  <2>2. IsSum(v, g, {})
    BY <1>1, Zenon
  <2> QED
    BY <2>1, <2>2
<1> HIDE DEF g
<1> QED
  BY <1>2 DEF IsSum

\* Numbers that are all zero.
LEMMA SumOfZeros ==
  ASSUME NEW S, IsFiniteSet(S), NEW v \in [S -> Nat], \A x \in S : v[x] = 0
  PROVE  Sum(v, S) = 0
<1>1. PICK f : IsSum(v, f, S) /\ \A s \in SUBSET S : Sum(v, s) = f[s] /\ f[s] \in Nat
  BY SumIs
<1> DEFINE B == {s \in SUBSET S : f[s] # 0}
<1>2. ASSUME NEW s \in SUBSET S
      PROVE  f[s] = IF s = {} THEN 0 ELSE v[Some(s)] + f[s \ {Some(s)}]
  BY <1>1, Zenon DEF IsSum
<1>3. ASSUME B # {} PROVE FALSE
  <2>1. PICK b \in B : \A x \in b : b \ {x} \notin B
    BY <1>3, LeastPart
  <2>2. b # {}
    BY <1>2
  <2>3. Some(b) \in b /\ b \ {Some(b)} \in SUBSET S /\ f[b \ {Some(b)}] = 0
    BY <2>1, <2>2, SomeElement
  <2>4. b \in SUBSET S /\ f[b] # 0 /\ v[Some(b)] = 0
    BY <2>3
  <2>5. f[b] = v[Some(b)] + f[b \ {Some(b)}]
    BY <1>2, <2>2, <2>4
  <2> QED
    BY <2>3, <2>4, <2>5
<1> QED
  BY <1>1, <1>3

-----------------------------------------------------------------------------
(* The size of attachments *)

LEMMA TotalIs ==
  ASSUME NEW names \in SUBSET File
  PROVE  /\ Total(names) \in Nat
         /\ \A f \in names : /\ Total(names) = Size[f] + Total(names \ {f})
                             /\ Total(names \ {f}) \in Nat /\ Size[f] \in Nat
<1>1. IsFiniteSet(File) /\ Size \in [File -> Nat]
  <2>1. 0 .. (SizeRange - 1) \subseteq Nat
    OBVIOUS
  <2> QED
    BY <2>1, DocumentsAssumption
<1>2. ASSUME NEW R PROVE Total(R) = Sum(Size, R)
  BY Zenon DEF Total, Sum, MapThenSumSet, MapThenFoldSet
<1>3. Sum(Size, names) \in Nat
  BY <1>1, SumIs
<1> QED
  BY <1>1, <1>2, <1>3, SumRemove

\* A call that saw all rows, and sizes that are what they say.
Knows(k) == ~attaching[k].missed /\ ~attaching[k].blind /\ ~attaching[k].wild

\* It finds room for what it has still to insert.
HasRoom(k) ==
  attaching[k].step = "insert" /\ Knows(k) =>
    Total(LiveNames) + Total(attaching[k].todo) <= MaxAttachmentSize

SizeIInv == \A k \in Attaching : HasRoom(k)

LEMMA LiveNamesAreFiles ==
  ASSUME AttachmentTypes
  PROVE  LiveNames \in SUBSET File
BY DocumentsAssumption DEF AttachmentTypes, LiveNames, Live, HasRow, NameOf

\* The sum that is checked is that of the sizes, unless it is wild.
LEMMA CheckedIsTrue ==
  ASSUME AttachmentTypes, NEW names \in SUBSET File,
         WithinSize(LiveNames, names), ~IsWild(LiveNames, names)
  PROVE  Total(LiveNames) + Total(names) <= MaxAttachmentSize
<1> DEFINE n == Total(LiveNames) + Total(names)
<1>1. n \in Nat /\ SizeRange \in Nat \ {0}
  BY LiveNamesAreFiles, TotalIs, DocumentsAssumption
<1>2. 2 * n < SizeRange
  BY <1>1 DEF IsWild
<1>3. Signed(n, SizeRange) <= MaxAttachmentSize
  BY DEF WithinSize
<1> HIDE DEF n
<1>4. n % SizeRange = n
  BY <1>1, <1>2
<1>5. Signed(n, SizeRange) = n
  BY <1>1, <1>2, <1>4 DEF Signed
<1>6. n <= MaxAttachmentSize
  BY <1>3, <1>5
<1> QED
  BY <1>6 DEF n

LEMMA InsertKeepsRoom ==
  ASSUME AttachmentTypes, SizeIInv, NEW k \in Attaching, NEW f \in File, InsertAttachment(k, f)
  PROVE  /\ SizeIInv'
         /\ Knows(k) => Total(LiveNames') <= MaxAttachmentSize
         /\ \A j \in Attaching \ {k} : attaching'[j].todo = attaching[j].todo
<1>1. PICK a \in AttachmentId : /\ ~HasRow(a)
                                /\ attachment' = [attachment EXCEPT ![a] = [file |-> f, live |-> TRUE]]
  <2>1. NewIdentifier \in Unused
    BY DEF InsertAttachment, NewIdentifier
  <2> QED
    BY <2>1 DEF InsertAttachment, Unused
<1>2. LiveNames' = LiveNames \cup {f} /\ f \notin LiveNames
  <2>1. /\ attachment'[a] = [file |-> f, live |-> TRUE]
        /\ \A b \in AttachmentId : b # a => attachment'[b] = attachment[b]
    BY <1>1 DEF AttachmentTypes
  <2>2. [file |-> f, live |-> TRUE] # None
    <3>1. [file |-> f, live |-> TRUE] \in [file : File, live : BOOLEAN]
      OBVIOUS
    <3> QED
      BY <3>1, DocumentsAssumption
  <2>3. Live' = Live \cup {a} /\ a \notin Live
    BY <1>1, <2>1, <2>2 DEF Live, HasRow
  <2>4. NameOf(a)' = f /\ \A b \in Live : NameOf(b)' = NameOf(b)
    BY <2>1, <2>3 DEF NameOf, Live
  <2>5. f \notin LiveNames
    BY DEF InsertAttachment, Refuses
  <2>6. LiveNames' = {NameOf(b)' : b \in Live'}
    BY DEF LiveNames
  <2> HIDE DEF NameOf
  <2> QED
    BY <2>3, <2>4, <2>5, <2>6 DEF LiveNames
<1>3. /\ attaching[k].step = "insert" /\ f \in attaching[k].todo
      /\ attaching[k].todo \in SUBSET File
  BY DEF InsertAttachment, AttachmentTypes, AttachingCall
<1>4. /\ Total(LiveNames') = Size[f] + Total(LiveNames) /\ Total(LiveNames) \in Nat
      /\ Size[f] \in Nat
  <2>1. LiveNames' \in SUBSET File /\ f \in LiveNames' /\ LiveNames' \ {f} = LiveNames
    BY <1>2, LiveNamesAreFiles
  <2> QED
    BY <2>1, TotalIs
<1>5. /\ Total(attaching[k].todo) = Size[f] + Total(attaching[k].todo \ {f})
      /\ Total(attaching[k].todo \ {f}) \in Nat
  BY <1>3, TotalIs
<1>6. Knows(k) =>
        Total(LiveNames') + Total(attaching[k].todo \ {f}) <= MaxAttachmentSize
  BY <1>3, <1>4, <1>5, DocumentsAssumption DEF SizeIInv, HasRoom
<1>7. \/ attaching'[k] = AttachingDone
      \/ attaching'[k] = [attaching[k] EXCEPT !.todo = @ \ {f}]
  BY DEF InsertAttachment
<1>8. ASSUME NEW j \in Attaching, j # k
      PROVE  /\ attaching'[j].todo = attaching[j].todo
             /\ attaching'[j].step = "insert" => attaching'[j].missed
  BY <1>8 DEF InsertAttachment, AttachmentTypes, AttachingCall
<1>9. HasRoom(k)'
  <2>1. CASE attaching'[k] = AttachingDone
    BY <2>1 DEF HasRoom, AttachingDone, NoAttaching
  <2>2. CASE attaching'[k] = [attaching[k] EXCEPT !.todo = @ \ {f}]
    <3>1. /\ attaching'[k].todo = attaching[k].todo \ {f}
          /\ Knows(k)' = Knows(k)
      BY <2>2 DEF AttachmentTypes, AttachingCall, Knows
    <3> QED
      BY <1>6, <3>1 DEF HasRoom
  <2> QED
    BY <1>7, <2>1, <2>2
<1> QED
  BY <1>4, <1>5, <1>6, <1>8, <1>9, DocumentsAssumption DEF SizeIInv, HasRoom, Knows

\* A step that makes no file live, of a call that then inserts only what it has found
\* room for.
LEMMA OtherStepsKeepRoom ==
  ASSUME AttachmentTypes, SizeIInv, NEW k \in Attaching, NEW new \in AttachingCall,
         attaching' = [attaching EXCEPT ![k] = new],
         \/ LiveNames' = LiveNames
         \/ \E f \in LiveNames : LiveNames' = LiveNames \ {f},
         new.step = "insert" /\ ~new.blind /\ ~new.wild =>
           /\ LiveNames' = LiveNames
           /\ Total(LiveNames) + Total(new.todo) <= MaxAttachmentSize
  PROVE  SizeIInv'
<1>1. attaching'[k] = new /\ \A j \in Attaching \ {k} : attaching'[j] = attaching[j]
  BY DEF AttachmentTypes
<1>2. /\ Total(LiveNames') <= Total(LiveNames)
      /\ Total(LiveNames) \in Nat /\ Total(LiveNames') \in Nat
  BY LiveNamesAreFiles, TotalIs
<1>3. HasRoom(k)'
  BY <1>1 DEF HasRoom, Knows
<1>4. ASSUME NEW j \in Attaching \ {k} PROVE HasRoom(j)'
  <2>1. Total(attaching[j].todo) \in Nat
    BY TotalIs DEF AttachmentTypes, AttachingCall
  <2> QED
    BY <1>1, <1>2, <2>1, DocumentsAssumption DEF SizeIInv, HasRoom, Knows
<1> QED
  BY <1>3, <1>4 DEF SizeIInv

CallOfSize(k) ==
  /\ attaching[k].step = "insert" /\ attachment' # attachment
  /\ attaching'[k].todo # attaching[k].todo
  /\ Knows(k)
  => Total(LiveNames') <= MaxAttachmentSize

LEMMA MarkKeepsRoom ==
  ASSUME AttachmentsIInv, SizeIInv, NEW k \in Attaching, MarkDeleted(k)
  PROVE  SizeIInv' /\ \A j \in Attaching : CallOfSize(j)
<1> DEFINE new == [attaching[k] EXCEPT !.step = "done"]
<1>1. PICK a \in AttachmentId :
        /\ attachment' = [attachment EXCEPT ![a].live = FALSE]
        /\ attachment[a] \in [file : File, live : BOOLEAN]
  BY DEF MarkDeleted, AttachmentsIInv, Kept
<1>2. /\ attaching[k].step = "row" /\ attaching[k] \in AttachingCall
      /\ attaching' = [attaching EXCEPT ![k] = new]
  BY DEF MarkDeleted, AfterDeletion, FirstDeletion, AttachmentsIInv, AttachmentTypes
<1>3. new \in AttachingCall /\ new.step = "done"
  BY <1>2 DEF AttachingCall
<1> HIDE DEF new
<1>4. LiveNames' = LiveNames \/ \E f \in LiveNames : LiveNames' = LiveNames \ {f}
  <2>1. /\ ~attachment'[a].live /\ attachment'[a].file = attachment[a].file
        /\ \A b \in AttachmentId : b # a => attachment'[b] = attachment[b]
    BY <1>1 DEF AttachmentsIInv, AttachmentTypes
  <2>2. /\ \A b \in Live' : b \in Live /\ NameOf(b)' = NameOf(b)
        /\ \A b \in Live \ {a} : b \in Live' /\ NameOf(b)' = NameOf(b)
    BY <1>1, <2>1, DocumentsAssumption DEF Live, HasRow, NameOf
  <2>3. LiveNames' = {NameOf(b)' : b \in Live'} /\ LiveNames = {NameOf(b) : b \in Live}
    BY DEF LiveNames
  <2>4. LiveNames' \subseteq LiveNames /\ LiveNames \ {NameOf(a)} \subseteq LiveNames'
    <3> HIDE DEF NameOf, Live
    <3> QED
      BY <2>2, <2>3
  <2> QED
    BY <2>4
<1>5. SizeIInv'
  BY <1>2, <1>3, <1>4, OtherStepsKeepRoom DEF AttachmentsIInv
<1>6. \A j \in Attaching : CallOfSize(j)
  BY <1>2 DEF CallOfSize, AttachmentsIInv, AttachmentTypes
<1> QED
  BY <1>5, <1>6

LEMMA SizeStep ==
  ASSUME AttachmentsIInv, SizeIInv, [DocumentsNext]_documentVars
  PROVE  SizeIInv' /\ \A j \in Attaching : CallOfSize(j)
<1>1. ASSUME UNCHANGED <<attachment, attaching>> PROVE SizeIInv' /\ \A j \in Attaching : CallOfSize(j)
  BY <1>1 DEF SizeIInv, HasRoom, Knows, LiveNames, Live, HasRow, NameOf, CallOfSize
<1>2. ASSUME NEW k \in Attaching, NEW new \in AttachingCall, UNCHANGED attachment,
             attaching' = [attaching EXCEPT ![k] = new],
             new.step = "insert" /\ ~new.blind /\ ~new.wild =>
               Total(LiveNames) + Total(new.todo) <= MaxAttachmentSize
      PROVE  SizeIInv' /\ \A j \in Attaching : CallOfSize(j)
  <2>1. LiveNames' = LiveNames
    BY <1>2 DEF LiveNames, Live, HasRow, NameOf
  <2>2. SizeIInv'
    BY <1>2, <2>1, OtherStepsKeepRoom DEF AttachmentsIInv
  <2> QED
    BY <1>2, <2>2 DEF CallOfSize
<1>3. ASSUME NEW k \in Attaching, NEW names \in SUBSET File, CreateAttachments(k, names)
      PROVE  SizeIInv' /\ \A j \in Attaching : CallOfSize(j)
  <2>1. PICK existing : /\ attaching' = [attaching EXCEPT ![k] = Creating(existing, names)]
                        /\ WithinSize(existing, names)
    BY <1>3 DEF CreateAttachments, Creating
  <2> DEFINE new == Creating(existing, names)
  <2>2. /\ new \in AttachingCall /\ new.todo = names
        /\ new.blind = (existing # LiveNames) /\ new.wild = IsWild(existing, names)
    BY CreatingTyped
  <2> HIDE DEF new
  <2>3. ~new.blind /\ ~new.wild => Total(LiveNames) + Total(new.todo) <= MaxAttachmentSize
    BY <2>1, <2>2, CheckedIsTrue DEF AttachmentsIInv
  <2>4. attaching' = [attaching EXCEPT ![k] = new] /\ UNCHANGED attachment
    BY <1>3, <2>1 DEF CreateAttachments, new
  <2> QED
    BY <1>2, <2>2, <2>3, <2>4
<1>4. ASSUME NEW k \in Attaching, NEW f \in File, InsertAttachment(k, f)
      PROVE  SizeIInv' /\ \A j \in Attaching : CallOfSize(j)
  BY <1>4, InsertKeepsRoom DEF AttachmentsIInv, CallOfSize
<1>5. ASSUME NEW k \in Attaching, AttachmentsFail(k) \/ DeletionFails(k)
      PROVE  SizeIInv' /\ \A j \in Attaching : CallOfSize(j)
  <2>1. AttachingDone.step = "done"
    BY DEF AttachingDone, NoAttaching
  <2> QED
    BY <1>2, <1>5, <2>1, NoAttachingTyped DEF AttachmentsFail, DeletionFails
<1>6. ASSUME NEW k \in Attaching, NEW a \in AttachmentId, DeleteAttachment(k, a)
      PROVE  SizeIInv' /\ \A j \in Attaching : CallOfSize(j)
  <2> DEFINE new == [NoAttaching EXCEPT !.step = "object", !.row = a]
  <2>1. new \in AttachingCall /\ new.step = "object"
    BY NoAttachingTyped DEF AttachingCall
  <2>2. attaching' = [attaching EXCEPT ![k] = new] /\ UNCHANGED attachment
    BY <1>6 DEF DeleteAttachment, FirstDeletion
  <2> HIDE DEF new
  <2> QED
    BY <1>2, <2>1, <2>2
<1>7. ASSUME NEW k \in Attaching, DeleteObject(k)
      PROVE  SizeIInv' /\ \A j \in Attaching : CallOfSize(j)
  <2> DEFINE new == [attaching[k] EXCEPT !.step = "row"]
  <2>1. new \in AttachingCall /\ new.step = "row"
    BY DEF AttachmentsIInv, AttachmentTypes, AttachingCall
  <2>2. attaching' = [attaching EXCEPT ![k] = new] /\ UNCHANGED attachment
    BY <1>7 DEF DeleteObject, AfterDeletion, FirstDeletion
  <2> HIDE DEF new
  <2> QED
    BY <1>2, <2>1, <2>2
<1>8. CASE AttachmentsNext
  <2>1. ASSUME NEW a \in AttachmentId, ClientUploads(a)
        PROVE  SizeIInv' /\ \A j \in Attaching : CallOfSize(j)
    BY <1>1, <2>1 DEF ClientUploads
  <2> QED
    BY <1>3, <1>4, <1>5, <1>6, <1>7, <1>8, <2>1, MarkKeepsRoom DEF AttachmentsNext
<1>9. CASE PolizasNext
  BY <1>1, <1>9 DEF PolizasNext, CreatePolizas, InsertPolizas, RollbackPolizas, attachmentVars
<1>10. CASE ExportsNext
  BY <1>1, <1>10 DEF ExportsNext, Export, UploadExport, PresignExport, ExportFails, PublishExport,
     CreateExportRecord, SaveExport, MarkToDownload, attachmentVars
<1>11. CASE UNCHANGED documentVars
  BY <1>1, <1>11 DEF documentVars, attachmentVars
<1> QED
  BY <1>8, <1>9, <1>10, <1>11 DEF DocumentsNext

\* A call that nobody overlapped, that could read the rows and was given sizes that can be
\* added, leaves the attachments of a CFDI within their size; and one that nobody overlapped
\* brings no policy with the day and the number of another, unless its client's day is not
\* that of UTC (ChecksNeedOverlap).
THEOREM ChecksNeedOverlapHolds == DocumentsSpec => ChecksNeedOverlap
<1>1. DocumentsInit => SizeIInv
  <2> SUFFICES ASSUME DocumentsInit, NEW k \in Attaching PROVE HasRoom(k)
    BY DEF SizeIInv
  <2>1. attaching[k].step = "none"
    BY DEF DocumentsInit, NoAttaching
  <2> QED
    BY <2>1 DEF HasRoom
<1>2. AttachmentsIInv /\ SizeIInv /\ [DocumentsNext]_documentVars => SizeIInv'
  BY SizeStep
<1>3. AttachmentsIInv /\ SizeIInv /\ [DocumentsNext]_documentVars =>
        [\A k \in Attaching :
           /\ attaching[k].step = "insert" /\ attachment' # attachment
           /\ attaching'[k].todo # attaching[k].todo
           /\ ~attaching[k].missed /\ ~attaching[k].blind /\ ~attaching[k].wild
           => Total(LiveNames') <= MaxAttachmentSize]_documentVars
  BY SizeStep DEF CallOfSize, Knows
<1>4. DocumentsSpec => SizeNeedsOverlap
  BY <1>1, <1>2, <1>3, AttachmentsInvariance, PTL DEF DocumentsSpec, SizeNeedsOverlap
<1> QED
  BY <1>4, NumberTwiceNeedsOverlapHolds DEF ChecksNeedOverlap

-----------------------------------------------------------------------------
(* Events: what was asked for is published, and what was published is handled *)

TaskRow == [do : {"publish", "copy", "handle"}, event : EventType]

\* The tasks of a list that are one of do, of an event of type e.
Matching(list, do, e) == {i \in DOMAIN list : list[i].do \in do /\ list[i].event = e}

Count(list, do, e) == Cardinality(Matching(list, do, e))

\* The same of all threads.  A task has a place that stays its own while tasks before it
\* come and go: how many are after it.
Left(w, do, e) ==
  {p \in Thread \X Nat : /\ p[2] < Len(w[p[1]])
                         /\ w[p[1]][Len(w[p[1]]) - p[2]].do \in do
                         /\ w[p[1]][Len(w[p[1]]) - p[2]].event = e}

Put(w, t, list) == [w EXCEPT ![t] = list]

LEMMA CountIsFinite ==
  ASSUME NEW list \in Seq(TaskRow), NEW do, NEW e
  PROVE  IsFiniteSet(Matching(list, do, e)) /\ Count(list, do, e) \in Nat
<1>1. DOMAIN list = 1 .. Len(list) /\ Len(list) \in Nat
  OBVIOUS
<1>2. IsFiniteSet(DOMAIN list)
  BY <1>1, FS_Interval
<1> QED
  BY <1>2, FS_Subset, FS_CardinalityType DEF Matching, Count

LEMMA InLeft ==
  ASSUME NEW w, NEW do, NEW e, NEW q \in Thread, NEW n \in Nat
  PROVE  <<q, n>> \in Left(w, do, e) <=>
           /\ n < Len(w[q])
           /\ w[q][Len(w[q]) - n].do \in do /\ w[q][Len(w[q]) - n].event = e
BY DEF Left

\* What a thread has to do before the rest of its list is counted apart.
LEMMA LeftOfFront ==
  ASSUME NEW w \in [Thread -> Seq(TaskRow)], NEW t \in Thread,
         NEW front \in Seq(TaskRow), NEW rest \in Seq(TaskRow), NEW do, NEW e,
         \/ IsFiniteSet(Left(Put(w, t, rest), do, e))
         \/ IsFiniteSet(Left(Put(w, t, front \o rest), do, e))
  PROVE  LET after == Put(w, t, front \o rest)
         IN  /\ IsFiniteSet(Left(after, do, e))
             /\ IsFiniteSet(Left(Put(w, t, rest), do, e))
             /\ Cardinality(Left(after, do, e)) =
                  Cardinality(Left(Put(w, t, rest), do, e)) + Count(front, do, e)
<1> DEFINE without == Put(w, t, rest)
           after == Put(w, t, front \o rest)
           place == [i \in Matching(front, do, e) |-> <<t, Len(rest) + Len(front) - i>>]
           top == {p \in Left(after, do, e) : p[1] = t /\ p[2] >= Len(rest)}
<1>1. /\ front \o rest \in Seq(TaskRow) /\ Len(front \o rest) = Len(front) + Len(rest)
      /\ Len(front) \in Nat /\ Len(rest) \in Nat /\ DOMAIN front = 1 .. Len(front)
      /\ \A i \in 1 .. Len(front) : (front \o rest)[i] = front[i]
      /\ \A i \in Len(front) + 1 .. Len(front) + Len(rest) :
           (front \o rest)[i] = rest[i - Len(front)]
  BY ConcatProperties
<1>2. /\ without[t] = rest /\ after[t] = front \o rest
      /\ \A q \in Thread : q # t => without[q] = w[q] /\ after[q] = w[q]
  BY DEF Put
<1>3. Left(after, do, e) = Left(without, do, e) \cup top /\ Left(without, do, e) \cap top = {}
  <2> HIDE DEF after, without
  <2>1. ASSUME NEW n \in Nat, n < Len(rest)
        PROVE  /\ n < Len(front \o rest)
               /\ (front \o rest)[Len(front \o rest) - n] = rest[Len(rest) - n]
    <3>1. Len(front \o rest) - n \in Len(front) + 1 .. Len(front) + Len(rest)
      BY <1>1, <2>1
    <3>2. (Len(front \o rest) - n) - Len(front) = Len(rest) - n
      BY <1>1, <2>1
    <3> QED
      BY <1>1, <2>1, <3>1, <3>2
  <2>2. ASSUME NEW q \in Thread, NEW n \in Nat, q # t \/ n < Len(rest)
        PROVE  <<q, n>> \in Left(after, do, e) <=> <<q, n>> \in Left(without, do, e)
    <3>1. <<q, n>> \in Left(after, do, e) <=>
            /\ n < Len(after[q])
            /\ after[q][Len(after[q]) - n].do \in do /\ after[q][Len(after[q]) - n].event = e
      BY InLeft
    <3>2. <<q, n>> \in Left(without, do, e) <=>
            /\ n < Len(without[q])
            /\ without[q][Len(without[q]) - n].do \in do /\ without[q][Len(without[q]) - n].event = e
      BY InLeft
    <3>3. CASE q # t
      BY <1>2, <3>1, <3>2, <3>3, Zenon
    <3>4. CASE q = t
      <4>1. n < Len(rest)
        BY <2>2, <3>4
      <4>2. /\ n < Len(front \o rest)
            /\ (front \o rest)[Len(front \o rest) - n] = rest[Len(rest) - n]
        BY <2>1, <4>1
      <4>3. /\ after[q] = front \o rest /\ without[q] = rest
        BY <1>2, <3>4
      <4> QED
        BY <3>1, <3>2, <4>1, <4>2, <4>3, Zenon
    <3> QED
      BY <3>3, <3>4
  <2>3. ASSUME NEW n \in Nat, <<t, n>> \in Left(without, do, e) PROVE n < Len(rest)
    BY <1>2, <2>3 DEF Left
  <2>4. /\ Left(after, do, e) \subseteq Thread \X Nat /\ Left(without, do, e) \subseteq Thread \X Nat
    BY DEF Left
  <2> QED
    BY <1>1, <2>2, <2>3, <2>4
<1>4. place \in Bijection(Matching(front, do, e), top)
  <2> HIDE DEF after, without
  <2>1. ASSUME NEW i \in Matching(front, do, e) PROVE place[i] \in top
    <3>1. i \in 1 .. Len(front) /\ front[i].do \in do /\ front[i].event = e
      BY <1>1 DEF Matching
    <3>2. /\ Len(rest) + Len(front) - i \in Nat
          /\ Len(rest) + Len(front) - i >= Len(rest)
          /\ Len(rest) + Len(front) - i < Len(front \o rest)
          /\ Len(front \o rest) - (Len(rest) + Len(front) - i) = i
      BY <1>1, <3>1
    <3> QED
      BY <1>1, <1>2, <3>1, <3>2 DEF Left
  <2>2. ASSUME NEW i \in Matching(front, do, e), NEW j \in Matching(front, do, e), place[i] = place[j]
        PROVE  i = j
    <3>1. i \in 1 .. Len(front) /\ j \in 1 .. Len(front)
      BY <1>1 DEF Matching
    <3> QED
      BY <1>1, <2>2, <3>1
  <2>3. ASSUME NEW p \in top PROVE \E i \in Matching(front, do, e) : place[i] = p
    <3>1. /\ p = <<t, p[2]>> /\ p[2] \in Nat /\ p[2] >= Len(rest)
          /\ p[2] < Len(front \o rest)
          /\ (front \o rest)[Len(front \o rest) - p[2]].do \in do
          /\ (front \o rest)[Len(front \o rest) - p[2]].event = e
      <4>1. p \in Left(after, do, e) /\ p[1] = t /\ p[2] >= Len(rest)
        OBVIOUS
      <4>2. p = <<p[1], p[2]>> /\ p[2] \in Nat
        BY <4>1 DEF Left
      <4>3. /\ p[2] < Len(after[t])
            /\ after[t][Len(after[t]) - p[2]].do \in do /\ after[t][Len(after[t]) - p[2]].event = e
        BY <4>1, <4>2, InLeft
      <4> QED
        BY <1>2, <4>1, <4>2, <4>3, Zenon
    <3> DEFINE i == Len(front \o rest) - p[2]
    <3>2. i \in 1 .. Len(front) /\ Len(rest) + Len(front) - i = p[2]
      BY <1>1, <3>1
    <3>3. i \in Matching(front, do, e)
      BY <1>1, <3>1, <3>2 DEF Matching
    <3> QED
      BY <3>1, <3>2, <3>3
  <2>4. place \in [Matching(front, do, e) -> top]
    BY <2>1
  <2> HIDE DEF place, top
  <2> QED
    BY <2>2, <2>3, <2>4, Fun_IsBij
<1>5. IsFiniteSet(top) /\ Cardinality(top) = Count(front, do, e)
  <2>1. ExistsBijection(Matching(front, do, e), top)
    BY <1>4 DEF ExistsBijection
  <2> QED
    BY <2>1, CountIsFinite, FS_Bijection DEF Count
<1>6. IsFiniteSet(Left(without, do, e))
  <2>1. IsFiniteSet(Left(without, do, e)) \/ IsFiniteSet(Left(after, do, e))
    OBVIOUS
  <2>2. Left(without, do, e) \in SUBSET Left(after, do, e)
    BY <1>3
  <2> QED
    BY <2>1, <2>2, FS_Subset, Zenon
<1>7. /\ IsFiniteSet(Left(after, do, e))
      /\ Cardinality(Left(after, do, e)) = Cardinality(Left(without, do, e)) + Count(front, do, e)
  <2> HIDE DEF after, without, top
  <2>1. LET both == Left(without, do, e) \cup top
        IN  /\ IsFiniteSet(both)
            /\ Cardinality(both) = Cardinality(Left(without, do, e)) + Cardinality(top)
                                     - Cardinality(Left(without, do, e) \cap top)
    BY <1>5, <1>6, FS_Union
  <2>2. Cardinality({}) = 0 /\ Cardinality(Left(without, do, e)) \in Nat /\ Count(front, do, e) \in Nat
    BY <1>6, FS_EmptySet, FS_CardinalityType, CountIsFinite
  <2>3. /\ IsFiniteSet(Left(after, do, e))
        /\ Cardinality(Left(after, do, e)) =
             Cardinality(Left(without, do, e)) + Cardinality(top) - Cardinality({})
    BY <1>3, <2>1
  <2> QED
    BY <1>5, <2>2, <2>3
<1> QED
  BY <1>6, <1>7

\* A thread changes the front of its list.
Rewrites(w, after, t, old, front, rest) ==
  /\ w \in [Thread -> Seq(TaskRow)] /\ t \in Thread
  /\ old \in Seq(TaskRow) /\ front \in Seq(TaskRow) /\ rest \in Seq(TaskRow)
  /\ w[t] = old \o rest
  /\ after = Put(w, t, front \o rest)

LEMMA RewriteFront ==
  ASSUME NEW w, NEW after, NEW t, NEW old, NEW front, NEW rest,
         Rewrites(w, after, t, old, front, rest),
         NEW do, NEW e, IsFiniteSet(Left(w, do, e))
  PROVE  /\ after \in [Thread -> Seq(TaskRow)]
         /\ IsFiniteSet(Left(after, do, e)) /\ Cardinality(Left(after, do, e)) \in Nat
         /\ Cardinality(Left(w, do, e)) \in Nat
         /\ Cardinality(Left(after, do, e)) + Count(old, do, e) =
              Cardinality(Left(w, do, e)) + Count(front, do, e)
<1> USE DEF Rewrites
<1> DEFINE without == Put(w, t, rest)
<1>1. w = Put(w, t, old \o rest)
  BY DEF Put
<1>2. front \o rest \in Seq(TaskRow)
  BY ConcatProperties
<1>3. after \in [Thread -> Seq(TaskRow)]
  BY <1>2 DEF Put
<1>4. /\ IsFiniteSet(Left(without, do, e))
      /\ Cardinality(Left(w, do, e)) = Cardinality(Left(without, do, e)) + Count(old, do, e)
  <2>1. IsFiniteSet(Left(Put(w, t, old \o rest), do, e))
    BY <1>1
  <2>2. /\ IsFiniteSet(Left(without, do, e))
        /\ Cardinality(Left(Put(w, t, old \o rest), do, e)) =
             Cardinality(Left(without, do, e)) + Count(old, do, e)
    BY <2>1, LeftOfFront
  <2> QED
    BY <1>1, <2>2
<1>5. /\ IsFiniteSet(Left(after, do, e))
      /\ Cardinality(Left(after, do, e)) = Cardinality(Left(without, do, e)) + Count(front, do, e)
  BY <1>4, LeftOfFront
<1>6. /\ Cardinality(Left(w, do, e)) \in Nat /\ Cardinality(Left(after, do, e)) \in Nat
      /\ Cardinality(Left(without, do, e)) \in Nat
      /\ Count(old, do, e) \in Nat /\ Count(front, do, e) \in Nat
  BY <1>4, <1>5, FS_CardinalityType, CountIsFinite
<1> HIDE DEF without
<1>7. Cardinality(Left(after, do, e)) + Count(old, do, e) =
        Cardinality(Left(w, do, e)) + Count(front, do, e)
  BY <1>4, <1>5, <1>6
<1> QED
  BY <1>3, <1>5, <1>6, <1>7

LEMMA CountEmpty == ASSUME NEW do, NEW e PROVE Count(<<>>, do, e) = 0
BY FS_EmptySet DEF Count, Matching

LEMMA CountOne ==
  ASSUME NEW task, NEW do, NEW e
  PROVE  Count(<<task>>, do, e) = IF task.do \in do /\ task.event = e THEN 1 ELSE 0
<1>1. CASE task.do \in do /\ task.event = e
  <2>1. Matching(<<task>>, do, e) = {1}
    BY <1>1 DEF Matching
  <2> QED
    BY <1>1, <2>1, FS_Singleton DEF Count
<1>2. CASE ~(task.do \in do /\ task.event = e)
  <2>1. Matching(<<task>>, do, e) = {}
    BY <1>2 DEF Matching
  <2> QED
    BY <1>2, <2>1, FS_EmptySet DEF Count
<1> QED
  BY <1>1, <1>2

Asking == {"publish", "copy"}

\* What the handlers that ran have published, or have still to publish.
Owed(e) == Sum([p \in Domain |-> handled[p] * Times(p, e)], Domain)

BusTypes ==
  /\ localInfra \in BOOLEAN
  /\ work \in [Thread -> Seq(TaskRow)]
  /\ eventCount \in [EventType -> Nat]
  /\ handled \in [EventType -> Nat]
  /\ external \in [EventType -> Nat]

\* Where an event is while somebody is at work.
Balanced(e) ==
  /\ IsFiniteSet(Left(work, Asking, e)) /\ IsFiniteSet(Left(work, {"handle"}, e))
  /\ eventCount[e] = handled[e] + Cardinality(Left(work, {"handle"}, e))
  /\ external[e] + Owed(e) = eventCount[e] + Cardinality(Left(work, Asking, e))

BusIInv == BusTypes /\ \A e \in EventType : Balanced(e)

LEMMA ChildrenTyped ==
  ASSUME localInfra \in BOOLEAN, NEW p
  PROVE  Children(p) \in Seq(Queued \cup Domain)
<1>1. CASE p \in Domain
  <2>1. CASE p = "CompanyCreated"
    <3> DEFINE first == <<"MetadataRequested", "CreateQuery", "CreateQuery", "CompleteNeeded",
                          "CompleteNeeded">>
               last == IF localInfra THEN <<>> ELSE <<"RequestScrap">>
    <3>1. first \in Seq(Queued \cup Domain) /\ last \in Seq(Queued \cup Domain)
      <4> DEFINE all == Queued \cup Domain
      <4>1. /\ "MetadataRequested" \in all /\ "CreateQuery" \in all /\ "CompleteNeeded" \in all
            /\ "RequestScrap" \in all
        BY DEF Queued, Domain
      <4> HIDE DEF all
      <4>2. first \in Seq(all)
        BY <4>1
      <4>3. last \in Seq(all)
        BY <4>1
      <4> QED
        BY <4>2, <4>3 DEF all
    <3>2. Children(p) = first \o last
      BY <1>1, <2>1 DEF Children, Publishes
    <3> HIDE DEF first, last
    <3> QED
      BY <3>1, <3>2
  <2>2. CASE p = "RequestScrap"
    BY <1>1, <2>2 DEF Children, Publishes, Queued
  <2>3. CASE p = "MetadataQueryDownloaded"
    BY <1>1, <2>3 DEF Children, Publishes, Queued
  <2>4. CASE p = "CFDIQueryDownloaded"
    BY <1>1, <2>4 DEF Children, Publishes, Queued
  <2> QED
    BY <1>1, <2>1, <2>2, <2>3, <2>4 DEF Domain
<1>2. CASE p \notin Domain
  BY <1>2 DEF Children
<1> QED
  BY <1>1, <1>2

LEMMA TimesTyped ==
  ASSUME localInfra \in BOOLEAN, NEW p, NEW e
  PROVE  Times(p, e) \in Nat
<1>1. DOMAIN Children(p) = 1 .. Len(Children(p)) /\ Len(Children(p)) \in Nat
  BY ChildrenTyped
<1>2. IsFiniteSet(DOMAIN Children(p))
  BY <1>1, FS_Interval
<1> QED
  BY <1>2, FS_Subset, FS_CardinalityType DEF Times

LEMMA DomainIsFinite == IsFiniteSet(Domain) /\ Domain \subseteq EventType
<1>1. IsFiniteSet({}) /\ Domain = ((({} \cup {"CompanyCreated"}) \cup {"RequestScrap"})
        \cup {"MetadataQueryDownloaded"}) \cup {"CFDIQueryDownloaded"}
  BY FS_EmptySet DEF Domain
<1> QED
  BY <1>1, FS_AddElement DEF EventType

LEMMA OwedTyped ==
  ASSUME BusTypes, NEW e
  PROVE  /\ [p \in Domain |-> handled[p] * Times(p, e)] \in [Domain -> Nat]
         /\ Owed(e) \in Nat
<1>1. ASSUME NEW p \in Domain PROVE handled[p] * Times(p, e) \in Nat
  <2>1. handled[p] \in Nat /\ Times(p, e) \in Nat
    BY DomainIsFinite, TimesTyped DEF BusTypes
  <2> QED
    BY <2>1
<1>2. [p \in Domain |-> handled[p] * Times(p, e)] \in [Domain -> Nat]
  BY <1>1
<1> QED
  BY <1>2, DomainIsFinite, SumIs DEF Owed

\* A step of a thread that rewrites the front of its list.
LEMMA FrontStep ==
  ASSUME BusIInv, NEW t, NEW old, NEW front, NEW rest, Rewrites(work, work', t, old, front, rest),
         NEW e \in EventType, NEW do, do = Asking \/ do = {"handle"}
  PROVE  /\ work' \in [Thread -> Seq(TaskRow)]
         /\ IsFiniteSet(Left(work', do, e)) /\ Cardinality(Left(work', do, e)) \in Nat
         /\ Cardinality(Left(work, do, e)) \in Nat
         /\ Cardinality(Left(work', do, e)) + Count(old, do, e) =
              Cardinality(Left(work, do, e)) + Count(front, do, e)
<1>1. IsFiniteSet(Left(work, do, e))
  BY DEF BusIInv, Balanced
<1> QED
  BY <1>1, RewriteFront

LEMMA OwedUnchanged ==
  ASSUME UNCHANGED localInfra, \A p \in Domain : handled'[p] = handled[p], NEW e
  PROVE  Owed(e)' = Owed(e)
<1>1. \A p : Times(p, e)' = Times(p, e)
  BY DEF Times, Children
<1>2. [p \in Domain |-> handled'[p] * Times(p, e)'] = [p \in Domain |-> handled[p] * Times(p, e)]
  BY <1>1
<1> QED
  BY <1>2 DEF Owed

LEMMA TaskTyped ==
  ASSUME NEW do \in {"publish", "copy", "handle"}, NEW e \in EventType
  PROVE  /\ Task(do, e) \in TaskRow /\ <<Task(do, e)>> \in Seq(TaskRow)
         /\ \A s, c : Count(<<Task(do, e)>>, s, c) = IF do \in s /\ e = c THEN 1 ELSE 0
<1>1. Task(do, e) \in TaskRow /\ Task(do, e).do = do /\ Task(do, e).event = e
  BY DEF Task, TaskRow
<1> QED
  BY <1>1, CountOne

\* What a thread does first is a task, before the others.
LEMMA FirstTask ==
  ASSUME BusTypes, NEW t \in Thread, NEW do, Doing(t, do)
  PROVE  /\ Head(work[t]).event \in EventType /\ do \in {"publish", "copy", "handle"}
         /\ Tail(work[t]) \in Seq(TaskRow)
         /\ work[t] = <<Task(do, Head(work[t]).event)>> \o Tail(work[t])
<1>1. work[t] \in Seq(TaskRow) /\ work[t] # <<>> /\ Head(work[t]).do = do
  BY DEF BusTypes, Doing
<1>2. Head(work[t]) \in TaskRow /\ Tail(work[t]) \in Seq(TaskRow)
  BY <1>1
<1>3. Head(work[t]) = Task(do, Head(work[t]).event)
  BY <1>1, <1>2 DEF TaskRow, Task
<1>4. work[t] = <<Head(work[t])>> \o Tail(work[t])
  BY <1>1
<1> QED
  BY <1>1, <1>2, <1>3, <1>4 DEF TaskRow

\* How many tasks of do, of events of type e, a step ends and begins.
Moves(do, e, ended, begun) ==
  /\ IsFiniteSet(Left(work', do, e))
  /\ Cardinality(Left(work', do, e)) + ended = Cardinality(Left(work, do, e)) + begun

LEMMA BalanceStep ==
  ASSUME BusIInv, NEW e \in EventType,
         eventCount'[e] \in Nat, handled'[e] \in Nat, external'[e] \in Nat,
         NEW asked0 \in Nat, NEW asked1 \in Nat, Moves(Asking, e, asked0, asked1),
         NEW handle0 \in Nat, NEW handle1 \in Nat, Moves({"handle"}, e, handle0, handle1),
         NEW owed \in Nat, Owed(e)' = Owed(e) + owed,
         eventCount'[e] + handled[e] + handle0 = handled'[e] + eventCount[e] + handle1,
         external'[e] + owed + eventCount[e] + asked0 = external[e] + eventCount'[e] + asked1
  PROVE  Balanced(e)'
<1> DEFINE count == eventCount[e]
           ran == handled[e]
           raised == external[e]
           due == Owed(e)
           toAsk == Cardinality(Left(work, Asking, e))
           toHandle == Cardinality(Left(work, {"handle"}, e))
           count1 == eventCount'[e]
           ran1 == handled'[e]
           raised1 == external'[e]
           due1 == Owed(e)'
           toAsk1 == Cardinality(Left(work', Asking, e))
           toHandle1 == Cardinality(Left(work', {"handle"}, e))
<1>1. count \in Nat /\ ran \in Nat /\ raised \in Nat /\ due \in Nat
  BY OwedTyped DEF BusIInv, BusTypes
<1>2. /\ IsFiniteSet(Left(work, Asking, e)) /\ IsFiniteSet(Left(work, {"handle"}, e))
      /\ count = ran + toHandle /\ raised + due = count + toAsk
  BY DEF BusIInv, Balanced
<1>3. /\ IsFiniteSet(Left(work', Asking, e)) /\ IsFiniteSet(Left(work', {"handle"}, e))
      /\ toAsk1 + asked0 = toAsk + asked1 /\ toHandle1 + handle0 = toHandle + handle1
  BY DEF Moves
<1>4. toAsk \in Nat /\ toHandle \in Nat /\ toAsk1 \in Nat /\ toHandle1 \in Nat
  <2>1. \A S : IsFiniteSet(S) => Cardinality(S) \in Nat
    BY FS_CardinalityType
  <2> QED
    BY <1>2, <1>3, <2>1, Zenon
<1>5. /\ count1 \in Nat /\ ran1 \in Nat /\ raised1 \in Nat /\ due1 = due + owed
      /\ count1 + ran + handle0 = ran1 + count + handle1
      /\ raised1 + owed + count + asked0 = raised + count1 + asked1
  OBVIOUS
<1>6. count1 = ran1 + toHandle1 /\ raised1 + due1 = count1 + toAsk1
  <2> HIDE DEF count, ran, raised, due, toAsk, toHandle, count1, ran1, raised1, due1, toAsk1,
               toHandle1
  <2>1. count = ran + toHandle /\ toHandle1 + handle0 = toHandle + handle1
        /\ count1 + ran + handle0 = ran1 + count + handle1
    BY <1>2, <1>3, <1>5
  <2>2. count1 = ran1 + toHandle1
    BY <1>1, <1>4, <1>5, <2>1
  <2>3. raised + due = count + toAsk /\ toAsk1 + asked0 = toAsk + asked1 /\ due1 = due + owed
        /\ raised1 + owed + count + asked0 = raised + count1 + asked1
    BY <1>2, <1>3, <1>5
  <2>4. raised1 + due1 = count1 + toAsk1
    BY <1>1, <1>4, <1>5, <2>3
  <2> QED
    BY <2>2, <2>4
<1> QED
  BY <1>3, <1>6 DEF Balanced

LEMMA FrontMoves ==
  ASSUME BusIInv, NEW t, NEW old, NEW front, NEW rest, Rewrites(work, work', t, old, front, rest),
         NEW e \in EventType, NEW do, do = Asking \/ do = {"handle"}
  PROVE  /\ work' \in [Thread -> Seq(TaskRow)]
         /\ Moves(do, e, Count(old, do, e), Count(front, do, e))
BY FrontStep DEF Moves

LEMMA FrontBalance ==
  ASSUME BusIInv, NEW t, NEW old, NEW front, NEW rest, Rewrites(work, work', t, old, front, rest),
         NEW e \in EventType,
         eventCount'[e] \in Nat, handled'[e] \in Nat, external'[e] \in Nat,
         NEW owed \in Nat, Owed(e)' = Owed(e) + owed,
         eventCount'[e] + handled[e] + Count(old, {"handle"}, e) =
           handled'[e] + eventCount[e] + Count(front, {"handle"}, e),
         external'[e] + owed + eventCount[e] + Count(old, Asking, e) =
           external[e] + eventCount'[e] + Count(front, Asking, e)
  PROVE  Balanced(e)'
<1>1. /\ Moves(Asking, e, Count(old, Asking, e), Count(front, Asking, e))
      /\ Moves({"handle"}, e, Count(old, {"handle"}, e), Count(front, {"handle"}, e))
  BY FrontMoves
<1>2. /\ Count(old, Asking, e) \in Nat /\ Count(front, Asking, e) \in Nat
      /\ Count(old, {"handle"}, e) \in Nat /\ Count(front, {"handle"}, e) \in Nat
  BY CountIsFinite DEF Rewrites
<1> QED
  BY <1>1, <1>2, BalanceStep

\* A number that a step adds one to.
LEMMA OneMore ==
  ASSUME NEW f \in [EventType -> Nat], NEW e \in EventType, NEW g,
         g = [f EXCEPT ![e] = @ + 1]
  PROVE  /\ g \in [EventType -> Nat]
         /\ \A c \in EventType : g[c] = f[c] + (IF c = e THEN 1 ELSE 0)
OBVIOUS

LEMMA Fronts ==
  ASSUME BusIInv, NEW t \in Thread, NEW front \in Seq(TaskRow)
  PROVE  /\ \A do : Doing(t, do) /\ work' = Put(work, t, front \o Tail(work[t])) =>
               Rewrites(work, work', t, <<Task(do, Head(work[t]).event)>>, front, Tail(work[t]))
         /\ work[t] = <<>> /\ work' = Put(work, t, front) =>
               Rewrites(work, work', t, <<>>, front, <<>>)
<1>1. ASSUME NEW do, Doing(t, do), work' = Put(work, t, front \o Tail(work[t]))
      PROVE  Rewrites(work, work', t, <<Task(do, Head(work[t]).event)>>, front, Tail(work[t]))
  <2> DEFINE e == Head(work[t]).event
             old == <<Task(do, e)>>
  <2>1. /\ e \in EventType /\ do \in {"publish", "copy", "handle"}
        /\ Tail(work[t]) \in Seq(TaskRow) /\ work[t] = old \o Tail(work[t])
    BY <1>1, FirstTask DEF BusIInv
  <2>2. old \in Seq(TaskRow)
    <3> HIDE DEF e
    <3> QED
      BY <2>1, TaskTyped, Zenon
  <2> HIDE DEF old
  <2>3. Rewrites(work, work', t, old, front, Tail(work[t]))
    BY <1>1, <2>1, <2>2 DEF Rewrites, BusIInv, BusTypes
  <2> QED
    BY <2>3 DEF old
<1>2. ASSUME work[t] = <<>>, work' = Put(work, t, front)
      PROVE  Rewrites(work, work', t, <<>>, front, <<>>)
  <2>1. front \o <<>> = front /\ <<>> \o <<>> = <<>> /\ <<>> \in Seq(TaskRow)
    BY ConcatEmptySeq
  <2> QED
    BY <1>2, <2>1 DEF Rewrites, BusIInv, BusTypes
<1> QED
  BY <1>1, <1>2

LEMMA RaiseStep ==
  ASSUME BusIInv, NEW t \in Thread, NEW e \in EventType, Raise(t, e)
  PROVE  BusIInv'
<1> DEFINE front == <<Task("publish", e)>>
<1>1. front \in Seq(TaskRow)
  BY TaskTyped, Zenon
<1>2. Rewrites(work, work', t, <<>>, front, <<>>)
  <2>1. work[t] = <<>> /\ work' = Put(work, t, front)
    BY DEF Raise, Put
  <2> HIDE DEF front
  <2> QED
    BY <1>1, <2>1, Fronts
<1>3. /\ UNCHANGED <<localInfra, eventCount, handled>>
      /\ external' \in [EventType -> Nat]
      /\ \A c \in EventType : external'[c] = external[c] + (IF c = e THEN 1 ELSE 0)
  BY OneMore DEF Raise, BusIInv, BusTypes
<1>4. ASSUME NEW c \in EventType PROVE Balanced(c)'
  <2> DEFINE one == IF c = e THEN 1 ELSE 0
  <2>1. /\ Count(<<>>, Asking, c) = 0 /\ Count(<<>>, {"handle"}, c) = 0
        /\ Count(front, Asking, c) = one /\ Count(front, {"handle"}, c) = 0
    BY CountEmpty, TaskTyped DEF Asking
  <2>2. Owed(c)' = Owed(c) + 0
    BY <1>3, OwedUnchanged, OwedTyped DEF BusIInv
  <2>3. /\ eventCount[c] \in Nat /\ handled[c] \in Nat /\ external[c] \in Nat
        /\ external'[c] = external[c] + one
    BY <1>3 DEF BusIInv, BusTypes
  <2>4. one \in Nat
    OBVIOUS
  <2> HIDE DEF one, front
  <2>5. /\ eventCount'[c] + handled[c] + 0 = handled'[c] + eventCount[c] + 0
        /\ external'[c] + 0 + eventCount[c] + 0 = external[c] + eventCount'[c] + one
        /\ external'[c] \in Nat /\ eventCount'[c] \in Nat /\ handled'[c] \in Nat
    BY <1>3, <2>3, <2>4
  <2> QED
    BY <1>2, <2>1, <2>2, <2>5, FrontBalance
<1>5. work' \in [Thread -> Seq(TaskRow)]
  <2> HIDE DEF front
  <2> QED
    BY <1>2, FrontMoves DEF EventType, Domain
<1> QED
  BY <1>3, <1>4, <1>5 DEF BusIInv, BusTypes

LEMMA PublishStep ==
  ASSUME BusIInv, NEW t \in Thread, Publish(t)
  PROVE  BusIInv'
<1> DEFINE e == Head(work[t]).event
           old == <<Task("publish", e)>>
           front == <<Task("copy", e)>>
<1>1. e \in EventType
  BY FirstTask DEF Publish, BusIInv
<1>2. front \in Seq(TaskRow)
  <2> HIDE DEF e
  <2> QED
    BY <1>1, TaskTyped, Zenon
<1>3. Rewrites(work, work', t, old, front, Tail(work[t]))
  <2>1. Doing(t, "publish") /\ work' = Put(work, t, front \o Tail(work[t]))
    BY DEF Publish, Put, BusIInv, BusTypes
  <2> HIDE DEF front
  <2> QED
    BY <1>2, <2>1, Fronts
<1>4. UNCHANGED <<localInfra, eventCount, handled, external>>
  BY DEF Publish
<1>5. ASSUME NEW c \in EventType PROVE Balanced(c)'
  <2>1. /\ Count(old, Asking, c) = Count(front, Asking, c)
        /\ Count(old, {"handle"}, c) = 0 /\ Count(front, {"handle"}, c) = 0
    <3> HIDE DEF e
    <3> QED
      BY <1>1, TaskTyped DEF Asking
  <2>2. Owed(c)' = Owed(c) + 0
    BY <1>4, OwedUnchanged, OwedTyped DEF BusIInv
  <2> HIDE DEF old, front
  <2>3. /\ eventCount[c] \in Nat /\ handled[c] \in Nat /\ external[c] \in Nat
        /\ Count(front, Asking, c) \in Nat
    BY <1>2, CountIsFinite DEF BusIInv, BusTypes
  <2>4. /\ eventCount'[c] + handled[c] + 0 = handled'[c] + eventCount[c] + 0
        /\ external'[c] + 0 + eventCount[c] + Count(front, Asking, c) =
             external[c] + eventCount'[c] + Count(front, Asking, c)
        /\ external'[c] \in Nat /\ eventCount'[c] \in Nat /\ handled'[c] \in Nat
    BY <1>4, <2>3
  <2> QED
    BY <1>3, <2>1, <2>2, <2>4, FrontBalance
<1>6. work' \in [Thread -> Seq(TaskRow)]
  <2> HIDE DEF front, old
  <2> QED
    BY <1>3, FrontMoves DEF EventType, Domain
<1> QED
  BY <1>4, <1>5, <1>6 DEF BusIInv, BusTypes

LEMMA HandleQueuedStep ==
  ASSUME BusIInv, NEW t \in Thread, HandleQueued(t)
  PROVE  BusIInv'
<1> DEFINE e == Head(work[t]).event
           old == <<Task("handle", e)>>
<1>1. e \in EventType /\ e \notin Domain
  BY FirstTask DEF HandleQueued, BusIInv, Domain, Queued
<1>2. Rewrites(work, work', t, old, <<>>, Tail(work[t]))
  <2>1. Doing(t, "handle") /\ work' = [work EXCEPT ![t] = Tail(@)]
    BY DEF HandleQueued
  <2>2. <<>> \in Seq(TaskRow) /\ Tail(work[t]) \in Seq(TaskRow)
    <3>1. Tail(work[t]) \in Seq(TaskRow)
      BY <2>1, FirstTask DEF BusIInv
    <3>2. <<>> \in Seq(TaskRow)
      OBVIOUS
    <3> QED
      BY <3>1, <3>2
  <2>3. <<>> \o Tail(work[t]) = Tail(work[t])
    BY <2>2, ConcatEmptySeq
  <2>4. work' = Put(work, t, <<>> \o Tail(work[t]))
    BY <2>1, <2>3 DEF Put
  <2> QED
    BY <2>1, <2>2, <2>4, Fronts
<1>3. /\ UNCHANGED <<localInfra, eventCount, external>>
      /\ handled' \in [EventType -> Nat]
      /\ \A c \in EventType : handled'[c] = handled[c] + (IF c = e THEN 1 ELSE 0)
  <2>1. handled \in [EventType -> Nat] /\ handled' = [handled EXCEPT ![e] = @ + 1]
    BY DEF HandleQueued, BusIInv, BusTypes
  <2> HIDE DEF e
  <2>2. /\ handled' \in [EventType -> Nat]
        /\ \A c \in EventType : handled'[c] = handled[c] + (IF c = e THEN 1 ELSE 0)
    BY <1>1, <2>1, OneMore
  <2> QED
    BY <2>2 DEF HandleQueued
<1>4. ASSUME NEW c \in EventType PROVE Balanced(c)'
  <2> DEFINE one == IF c = e THEN 1 ELSE 0
  <2>1. /\ Count(old, Asking, c) = 0 /\ Count(old, {"handle"}, c) = one
        /\ Count(<<>>, Asking, c) = 0 /\ Count(<<>>, {"handle"}, c) = 0
    <3> HIDE DEF e
    <3> QED
      BY <1>1, CountEmpty, TaskTyped DEF Asking
  <2>2. Owed(c)' = Owed(c) + 0
    <3> HIDE DEF e
    <3>1. ASSUME NEW p \in Domain PROVE handled'[p] = handled[p]
      <4>1. p \in EventType /\ p # e
        BY <1>1, DomainIsFinite
      <4>2. handled[p] \in Nat
        BY <4>1 DEF BusIInv, BusTypes
      <4> QED
        BY <1>3, <4>1, <4>2
    <3> QED
      BY <1>3, <3>1, OwedUnchanged, OwedTyped DEF BusIInv
  <2>3. /\ eventCount[c] \in Nat /\ handled[c] \in Nat /\ external[c] \in Nat
        /\ handled'[c] = handled[c] + one
    BY <1>3 DEF BusIInv, BusTypes
  <2>4. one \in Nat
    OBVIOUS
  <2> HIDE DEF one, old
  <2>5. /\ eventCount'[c] + handled[c] + one = handled'[c] + eventCount[c] + 0
        /\ external'[c] + 0 + eventCount[c] + 0 = external[c] + eventCount'[c] + 0
        /\ external'[c] \in Nat /\ eventCount'[c] \in Nat /\ handled'[c] \in Nat
    BY <1>3, <2>3, <2>4
  <2> QED
    BY <1>2, <2>1, <2>2, <2>5, FrontBalance
<1>5. work' \in [Thread -> Seq(TaskRow)]
  <2> HIDE DEF old
  <2> QED
    BY <1>2, FrontMoves DEF EventType, Domain
<1> QED
  BY <1>3, <1>4, <1>5 DEF BusIInv, BusTypes

\* What a domain handler publishes, as tasks.
LEMMA ChildrenCounted ==
  ASSUME BusTypes, NEW p \in Domain, NEW list,
         list = [i \in DOMAIN Children(p) |-> Task("publish", Children(p)[i])]
  PROVE  /\ list \in Seq(TaskRow)
         /\ \A c : Count(list, Asking, c) = Times(p, c) /\ Count(list, {"handle"}, c) = 0
<1>1. Children(p) \in Seq(EventType)
  BY ChildrenTyped DEF BusTypes, EventType
<1>2. ASSUME NEW i \in DOMAIN Children(p)
      PROVE  /\ list[i] \in TaskRow /\ list[i].do = "publish" /\ list[i].event = Children(p)[i]
  BY <1>1, <1>2 DEF Task, TaskRow
<1>3. DOMAIN list = DOMAIN Children(p) /\ DOMAIN Children(p) = 1 .. Len(Children(p))
      /\ Len(Children(p)) \in Nat
  BY <1>1
<1>4. list \in Seq(TaskRow)
  BY <1>2, <1>3
<1>5. ASSUME NEW c PROVE Count(list, Asking, c) = Times(p, c) /\ Count(list, {"handle"}, c) = 0
  <2>1. Matching(list, Asking, c) = {i \in DOMAIN Children(p) : Children(p)[i] = c}
    BY <1>2, <1>3 DEF Matching, Asking
  <2>2. Matching(list, {"handle"}, c) = {}
    BY <1>2, <1>3 DEF Matching
  <2> QED
    BY <2>1, <2>2, FS_EmptySet DEF Count, Times
<1> QED
  BY <1>4, <1>5

LEMMA OwedGrows ==
  ASSUME BusTypes, handled' \in [EventType -> Nat], UNCHANGED localInfra, NEW e \in Domain,
         \A c \in EventType : handled'[c] = handled[c] + (IF c = e THEN 1 ELSE 0), NEW c
  PROVE  Owed(c)' = Owed(c) + Times(e, c) /\ Times(e, c) \in Nat
<1> DEFINE v == [p \in Domain |-> handled[p] * Times(p, c)]
           w == [p \in Domain |-> handled'[p] * Times(p, c)]
<1>1. \A p : Times(p, c)' = Times(p, c)
  BY DEF Times, Children
<1>2. Owed(c) = Sum(v, Domain) /\ Owed(c)' = Sum(w, Domain)
  BY <1>1 DEF Owed
<1>3. \A p \in Domain : Times(p, c) \in Nat /\ handled[p] \in Nat /\ handled'[p] \in Nat
  BY DomainIsFinite, TimesTyped DEF BusTypes
<1>4. v \in [Domain -> Nat] /\ w \in [Domain -> Nat]
  <2>1. ASSUME NEW p \in Domain PROVE v[p] \in Nat /\ w[p] \in Nat
    <3>1. ASSUME NEW m \in Nat, NEW n \in Nat PROVE m * n \in Nat
      OBVIOUS
    <3> QED
      BY <1>3, <3>1
  <2> QED
    BY <2>1
<1>5. w[e] = v[e] + Times(e, c)
  <2>1. ASSUME NEW m \in Nat, NEW n \in Nat PROVE (m + 1) * n = m * n + n
    OBVIOUS
  <2>2. handled'[e] = handled[e] + 1
    BY DomainIsFinite
  <2>3. (handled[e] + 1) * Times(e, c) = handled[e] * Times(e, c) + Times(e, c)
    BY <1>3, <2>1
  <2> QED
    BY <2>2, <2>3
<1>6. \A p \in Domain \ {e} : w[p] = v[p]
  <2>1. ASSUME NEW p \in Domain \ {e} PROVE handled'[p] = handled[p]
    BY <1>3, DomainIsFinite
  <2> QED
    BY <2>1
<1> HIDE DEF v, w
<1> QED
  BY <1>2, <1>3, <1>4, <1>5, <1>6, DomainIsFinite, SumGrows

LEMMA HandleDomainStep ==
  ASSUME BusIInv, NEW t \in Thread, HandleDomain(t)
  PROVE  BusIInv'
<1> DEFINE e == Head(work[t]).event
           old == <<Task("handle", e)>>
           front == [i \in DOMAIN Children(e) |-> Task("publish", Children(e)[i])]
<1>1. e \in EventType /\ e \in Domain /\ BusTypes
  BY FirstTask DEF HandleDomain, BusIInv
<1>2. /\ front \in Seq(TaskRow)
      /\ \A c : Count(front, Asking, c) = Times(e, c) /\ Count(front, {"handle"}, c) = 0
  <2> HIDE DEF e
  <2> QED
    BY <1>1, ChildrenCounted
<1>3. Rewrites(work, work', t, old, front, Tail(work[t]))
  <2>1. Doing(t, "handle") /\ work' = Put(work, t, front \o Tail(work[t]))
    BY DEF HandleDomain, Put, BusIInv, BusTypes
  <2> HIDE DEF front
  <2> QED
    BY <1>2, <2>1, Fronts
<1>4. /\ UNCHANGED <<localInfra, eventCount, external>>
      /\ handled' \in [EventType -> Nat]
      /\ \A c \in EventType : handled'[c] = handled[c] + (IF c = e THEN 1 ELSE 0)
  <2>1. handled \in [EventType -> Nat] /\ handled' = [handled EXCEPT ![e] = @ + 1]
    BY DEF HandleDomain, BusIInv, BusTypes
  <2> HIDE DEF e
  <2>2. /\ handled' \in [EventType -> Nat]
        /\ \A c \in EventType : handled'[c] = handled[c] + (IF c = e THEN 1 ELSE 0)
    BY <1>1, <2>1, OneMore
  <2> QED
    BY <2>2 DEF HandleDomain
<1>5. ASSUME NEW c \in EventType PROVE Balanced(c)'
  <2> DEFINE one == IF c = e THEN 1 ELSE 0
             owed == Times(e, c)
  <2>1. Count(old, Asking, c) = 0 /\ Count(old, {"handle"}, c) = one
    <3> HIDE DEF e
    <3> QED
      BY <1>1, TaskTyped DEF Asking
  <2>2. Count(front, Asking, c) = owed /\ Count(front, {"handle"}, c) = 0
    BY <1>2
  <2>3. Owed(c)' = Owed(c) + owed /\ owed \in Nat
    <3> HIDE DEF e
    <3> QED
      BY <1>1, <1>4, OwedGrows
  <2>4. /\ eventCount[c] \in Nat /\ handled[c] \in Nat /\ external[c] \in Nat
        /\ handled'[c] = handled[c] + one
    BY <1>4 DEF BusIInv, BusTypes
  <2>5. one \in Nat
    OBVIOUS
  <2> HIDE DEF one, old, front, owed
  <2>6. /\ eventCount'[c] + handled[c] + one = handled'[c] + eventCount[c] + 0
        /\ external'[c] + owed + eventCount[c] + 0 = external[c] + eventCount'[c] + owed
        /\ external'[c] \in Nat /\ eventCount'[c] \in Nat /\ handled'[c] \in Nat
    BY <1>4, <2>3, <2>4, <2>5
  <2> QED
    BY <1>3, <2>1, <2>2, <2>3, <2>6, FrontBalance
<1>6. work' \in [Thread -> Seq(TaskRow)]
  <2> HIDE DEF front, old
  <2> QED
    BY <1>3, FrontMoves DEF EventType, Domain
<1> QED
  BY <1>4, <1>5, <1>6 DEF BusIInv, BusTypes

\* What an unlock of the bus moves: e is asked for once less, and handled once more.
LEMMA Unlocked ==
  ASSUME BusIInv, NEW e \in EventType,
         UNCHANGED <<localInfra, handled, external>>,
         eventCount' = [eventCount EXCEPT ![e] = @ + 1],
         work' \in [Thread -> Seq(TaskRow)],
         \A c \in EventType : /\ Moves(Asking, c, IF c = e THEN 1 ELSE 0, 0)
                              /\ Moves({"handle"}, c, 0, IF c = e THEN 1 ELSE 0)
  PROVE  BusIInv'
<1>1. /\ eventCount' \in [EventType -> Nat]
      /\ \A c \in EventType : eventCount'[c] = eventCount[c] + (IF c = e THEN 1 ELSE 0)
  <2>1. eventCount \in [EventType -> Nat]
    BY DEF BusIInv, BusTypes
  <2> QED
    BY <2>1, OneMore
<1>2. ASSUME NEW c \in EventType PROVE Balanced(c)'
  <2> DEFINE one == IF c = e THEN 1 ELSE 0
  <2>1. Owed(c)' = Owed(c) + 0
    BY OwedUnchanged, OwedTyped DEF BusIInv
  <2>2. /\ eventCount[c] \in Nat /\ handled[c] \in Nat /\ external[c] \in Nat
        /\ eventCount'[c] = eventCount[c] + one
    BY <1>1 DEF BusIInv, BusTypes
  <2>3. one \in Nat /\ Moves(Asking, c, one, 0) /\ Moves({"handle"}, c, 0, one)
    OBVIOUS
  <2> HIDE DEF one
  <2>4. /\ eventCount'[c] + handled[c] + 0 = handled'[c] + eventCount[c] + one
        /\ external'[c] + 0 + eventCount[c] + one = external[c] + eventCount'[c] + 0
        /\ external'[c] \in Nat /\ eventCount'[c] \in Nat /\ handled'[c] \in Nat
    BY <2>2, <2>3, SMTT(30)
  <2> QED
    BY <2>1, <2>3, <2>4, BalanceStep
<1> QED
  BY <1>1, <1>2 DEF BusIInv, BusTypes

\* The handler runs in the thread that published.
LEMMA UnlockHere ==
  ASSUME BusIInv, NEW t \in Thread, Unlock(t), ~localInfra
  PROVE  BusIInv'
<1> DEFINE e == Head(work[t]).event
           old == <<Task("copy", e)>>
           front == <<Task("handle", e)>>
<1>1. e \in EventType
  BY FirstTask DEF Unlock, BusIInv
<1>2. front \in Seq(TaskRow)
  <2> HIDE DEF e
  <2> QED
    BY <1>1, TaskTyped, Zenon
<1>3. Rewrites(work, work', t, old, front, Tail(work[t]))
  <2>1. Doing(t, "copy") /\ work' = Put(work, t, front \o Tail(work[t]))
    BY DEF Unlock, Put, BusIInv, BusTypes
  <2> HIDE DEF front
  <2> QED
    BY <1>2, <2>1, Fronts
<1>4. ASSUME NEW c \in EventType
      PROVE  /\ Moves(Asking, c, IF c = e THEN 1 ELSE 0, 0)
             /\ Moves({"handle"}, c, 0, IF c = e THEN 1 ELSE 0)
  <2>1. /\ Count(old, Asking, c) = (IF c = e THEN 1 ELSE 0) /\ Count(front, Asking, c) = 0
        /\ Count(old, {"handle"}, c) = 0 /\ Count(front, {"handle"}, c) = (IF c = e THEN 1 ELSE 0)
    <3> HIDE DEF e
    <3> QED
      BY <1>1, TaskTyped DEF Asking
  <2> HIDE DEF old, front
  <2>2. /\ Moves(Asking, c, Count(old, Asking, c), Count(front, Asking, c))
        /\ Moves({"handle"}, c, Count(old, {"handle"}, c), Count(front, {"handle"}, c))
    BY <1>3, FrontMoves
  <2> HIDE DEF e
  <2> QED
    BY <2>1, <2>2, Zenon
<1>5. work' \in [Thread -> Seq(TaskRow)]
  <2> HIDE DEF front, old
  <2> QED
    BY <1>1, <1>3, FrontMoves
<1>6. /\ UNCHANGED <<localInfra, handled, external>>
      /\ eventCount' = [eventCount EXCEPT ![e] = @ + 1]
  BY DEF Unlock
<1> HIDE DEF e
<1> QED
  BY <1>1, <1>4, <1>5, <1>6, Unlocked

\* The handler runs in a goroutine that was idle.
LEMMA UnlockThere ==
  ASSUME BusIInv, NEW t \in Thread, Unlock(t), localInfra
  PROVE  BusIInv'
<1> DEFINE e == Head(work[t]).event
           old == <<Task("copy", e)>>
           front == <<Task("handle", e)>>
           between == Put(work, t, Tail(work[t]))
<1>1. /\ e \in EventType /\ Tail(work[t]) \in Seq(TaskRow) /\ work[t] = old \o Tail(work[t])
      /\ work[t] # <<>> /\ work \in [Thread -> Seq(TaskRow)]
  BY FirstTask DEF Unlock, BusIInv, BusTypes, Doing
<1>2. front \in Seq(TaskRow) /\ old \in Seq(TaskRow) /\ <<>> \in Seq(TaskRow)
  <2> HIDE DEF e
  <2>1. front \in Seq(TaskRow) /\ old \in Seq(TaskRow)
    BY <1>1, TaskTyped, Zenon
  <2>2. <<>> \in Seq(TaskRow)
    OBVIOUS
  <2> QED
    BY <2>1, <2>2
<1>3. PICK g \in Thread :
        /\ work[g] = <<>>
        /\ work' = [work EXCEPT ![t] = Tail(@), ![g] = <<Task("handle", Head(work[t]).event)>>]
  BY DEF Unlock, Thread
<1>4. work' = Put(between, g, front)
  BY <1>3 DEF Put
<1>5. Rewrites(work, between, t, old, <<>>, Tail(work[t]))
  <2>1. <<>> \o Tail(work[t]) = Tail(work[t])
    BY <1>1, ConcatEmptySeq
  <2> HIDE DEF old, e
  <2> QED
    BY <1>1, <1>2, <2>1 DEF Rewrites
<1>6. Rewrites(between, work', g, <<>>, front, <<>>)
  <2>1. g # t
    BY <1>1, <1>3
  <2>2. between \in [Thread -> Seq(TaskRow)] /\ between[g] = <<>>
    BY <1>1, <1>3, <2>1 DEF Put
  <2> HIDE DEF front, between
  <2>3. front \o <<>> = front /\ <<>> \o <<>> = <<>>
    BY <1>2, ConcatEmptySeq
  <2> QED
    BY <1>2, <1>4, <2>2, <2>3 DEF Rewrites
<1>7. ASSUME NEW c \in EventType, NEW do, do = Asking \/ do = {"handle"}
      PROVE  /\ work' \in [Thread -> Seq(TaskRow)]
             /\ Moves(do, c, Count(old, do, c), Count(front, do, c))
  <2> HIDE DEF old, front, between, e
  <2>1. IsFiniteSet(Left(work, do, c))
    BY <1>7 DEF BusIInv, Balanced
  <2>2. /\ IsFiniteSet(Left(between, do, c)) /\ Cardinality(Left(between, do, c)) \in Nat
        /\ Cardinality(Left(work, do, c)) \in Nat
        /\ Cardinality(Left(between, do, c)) + Count(old, do, c) =
             Cardinality(Left(work, do, c)) + Count(<<>>, do, c)
    BY <1>5, <2>1, RewriteFront
  <2>3. /\ work' \in [Thread -> Seq(TaskRow)]
        /\ IsFiniteSet(Left(work', do, c)) /\ Cardinality(Left(work', do, c)) \in Nat
        /\ Cardinality(Left(work', do, c)) + Count(<<>>, do, c) =
             Cardinality(Left(between, do, c)) + Count(front, do, c)
    BY <1>6, <2>2, RewriteFront
  <2>4. Count(old, do, c) \in Nat /\ Count(front, do, c) \in Nat /\ Count(<<>>, do, c) = 0
    BY <1>2, CountIsFinite, CountEmpty
  <2>5. Cardinality(Left(work', do, c)) + Count(old, do, c) =
          Cardinality(Left(work, do, c)) + Count(front, do, c)
    BY <2>2, <2>3, <2>4
  <2> QED
    BY <2>3, <2>5 DEF Moves
<1>8. ASSUME NEW c \in EventType
      PROVE  /\ Moves(Asking, c, IF c = e THEN 1 ELSE 0, 0)
             /\ Moves({"handle"}, c, 0, IF c = e THEN 1 ELSE 0)
  <2>1. /\ Count(old, Asking, c) = (IF c = e THEN 1 ELSE 0) /\ Count(front, Asking, c) = 0
        /\ Count(old, {"handle"}, c) = 0 /\ Count(front, {"handle"}, c) = (IF c = e THEN 1 ELSE 0)
    <3> HIDE DEF e
    <3> QED
      BY <1>1, TaskTyped DEF Asking
  <2> HIDE DEF old, front, e
  <2> QED
    BY <1>7, <2>1, Zenon
<1>9. work' \in [Thread -> Seq(TaskRow)]
  <2> HIDE DEF old, front, e
  <2> QED
    BY <1>1, <1>7
<1>10. /\ UNCHANGED <<localInfra, handled, external>>
       /\ eventCount' = [eventCount EXCEPT ![e] = @ + 1]
  BY DEF Unlock
<1> HIDE DEF e
<1> QED
  BY <1>1, <1>8, <1>9, <1>10, Unlocked

\* Who has nothing to do has no task.
LEMMA NothingLeft ==
  ASSUME NEW w, \A t \in Thread : w[t] = <<>>, NEW do, NEW e
  PROVE  Left(w, do, e) = {}
<1>1. ASSUME NEW q \in Thread, NEW n \in Nat, <<q, n>> \in Left(w, do, e) PROVE FALSE
  <2>1. n < Len(w[q]) /\ w[q] = <<>>
    BY <1>1, InLeft
  <2> QED
    BY <2>1
<1>2. Left(w, do, e) \subseteq Thread \X Nat
  BY DEF Left
<1> QED
  BY <1>1, <1>2

LEMMA BusStarts == BusInit => BusIInv
<1> SUFFICES ASSUME BusInit PROVE BusIInv
  OBVIOUS
<1>1. BusTypes
  <2>1. <<>> \in Seq(TaskRow)
    OBVIOUS
  <2> QED
    BY <2>1 DEF BusInit, BusTypes
<1>2. ASSUME NEW e \in EventType PROVE Balanced(e)
  <2>1. Left(work, Asking, e) = {} /\ Left(work, {"handle"}, e) = {}
    BY NothingLeft DEF BusInit
  <2>2. Owed(e) = 0
    <3> DEFINE v == [p \in Domain |-> handled[p] * Times(p, e)]
    <3>1. v \in [Domain -> Nat]
      BY <1>1, OwedTyped
    <3>2. ASSUME NEW p \in Domain PROVE v[p] = 0
      <4>1. handled[p] = 0 /\ Times(p, e) \in Nat
        BY <1>1, DomainIsFinite, TimesTyped DEF BusInit, BusTypes
      <4> QED
        BY <4>1
    <3> HIDE DEF v
    <3>3. Sum(v, Domain) = 0
      BY <3>1, <3>2, DomainIsFinite, SumOfZeros
    <3> QED
      BY <3>3 DEF Owed, v
  <2>3. eventCount[e] = 0 /\ handled[e] = 0 /\ external[e] = 0
    BY DEF BusInit
  <2> QED
    BY <2>1, <2>2, <2>3, FS_EmptySet DEF Balanced
<1> QED
  BY <1>1, <1>2 DEF BusIInv

LEMMA BusSteps == BusIInv /\ [BusNext]_busVars => BusIInv'
<1> SUFFICES ASSUME BusIInv, [BusNext]_busVars PROVE BusIInv'
  OBVIOUS
<1>1. ASSUME NEW t \in Publisher, NEW e \in Raised, Raise(t, e) PROVE BusIInv'
  BY <1>1, RaisedAssumption, RaiseStep DEF Thread
<1>2. ASSUME NEW t \in Thread, Publish(t) PROVE BusIInv'
  BY <1>2, PublishStep
<1>3. ASSUME NEW t \in Thread, Unlock(t) PROVE BusIInv'
  BY <1>3, UnlockHere, UnlockThere
<1>4. ASSUME NEW t \in Thread, HandleDomain(t) PROVE BusIInv'
  BY <1>4, HandleDomainStep
<1>5. ASSUME NEW t \in Thread, HandleQueued(t) PROVE BusIInv'
  BY <1>5, HandleQueuedStep
<1>6. CASE UNCHANGED busVars
  <2>1. \A e : Owed(e)' = Owed(e)
    BY <1>6, OwedUnchanged DEF busVars
  <2> QED
    BY <1>6, <2>1 DEF busVars, BusIInv, BusTypes, Balanced
<1> QED
  BY <1>1, <1>2, <1>3, <1>4, <1>5, <1>6 DEF BusNext

\* The sum of the community module is the one that the invariant counts with.
LEMMA OwedIs ==
  ASSUME BusTypes, NEW e
  PROVE  MapThenSumSet(LAMBDA p : handled[p] * Times(p, e), Domain) = Owed(e)
<1> DEFINE v == [p \in Domain |-> handled[p] * Times(p, e)]
           Folded(h) == h = [s \in SUBSET Domain |->
                               IF s = {} THEN 0
                               ELSE handled[Some(s)] * Times(Some(s), e) + h[s \ {Some(s)}]]
           g == CHOOSE h : Folded(h)
<1>1. MapThenSumSet(LAMBDA p : handled[p] * Times(p, e), Domain) = g[Domain]
  BY Zenon DEF MapThenSumSet, MapThenFoldSet, Some
<1>2. PICK f : IsSum(v, f, Domain) /\ \A R \in SUBSET Domain : Sum(v, R) = f[R] /\ f[R] \in Nat
  <2>1. v \in [Domain -> Nat]
    BY OwedTyped
  <2> HIDE DEF v
  <2> QED
    BY <2>1, DomainIsFinite, SumIs
<1>3. ASSUME NEW h PROVE Folded(h) <=> IsSum(v, h, Domain)
  <2>1. \A s \in SUBSET Domain : s # {} => v[Some(s)] = handled[Some(s)] * Times(Some(s), e)
    BY SomeElement
  <2> HIDE DEF v
  <2> QED
    BY <2>1 DEF IsSum
<1>4. IsSum(v, g, Domain)
  <2> HIDE DEF v, Folded
  <2>1. Folded(f)
    BY <1>2, <1>3
  <2>2. Folded(g)
    BY <2>1
  <2> QED
    BY <1>3, <2>2
<1> HIDE DEF g, v
<1>5. g[Domain] = f[Domain]
  BY <1>2, <1>4, DomainIsFinite, SumUnique
<1>6. Owed(e) = f[Domain]
  BY <1>2 DEF Owed, v
<1> QED
  BY <1>1, <1>5, <1>6

LEMMA BalancedIsWhole == BusIInv => NothingDropped
<1> SUFFICES ASSUME BusIInv, \A t \in Thread : work[t] = <<>>, NEW e \in EventType
             PROVE  /\ handled[e] = eventCount[e]
                    /\ eventCount[e] =
                         external[e] + MapThenSumSet(LAMBDA p : handled[p] * Times(p, e), Domain)
  BY DEF NothingDropped
<1>1. Cardinality(Left(work, Asking, e)) = 0 /\ Cardinality(Left(work, {"handle"}, e)) = 0
  BY NothingLeft, FS_EmptySet
<1>2. /\ eventCount[e] \in Nat /\ handled[e] \in Nat
      /\ eventCount[e] = handled[e] + 0 /\ external[e] + Owed(e) = eventCount[e] + 0
  BY <1>1 DEF BusIInv, BusTypes, Balanced
<1> DEFINE published == MapThenSumSet(LAMBDA p : handled[p] * Times(p, e), Domain)
<1>3. published = Owed(e)
  BY OwedIs DEF BusIInv
<1>4. external[e] \in Nat /\ Owed(e) \in Nat
  BY OwedTyped DEF BusIInv, BusTypes
<1> HIDE DEF published
<1>5. handled[e] = eventCount[e] /\ eventCount[e] = external[e] + published
  BY <1>2, <1>3, <1>4
<1> QED
  BY <1>5 DEF published

\* Once nobody is at work, every event that was published was handled once, and was
\* published from outside or by a handler that ran (NothingDropped).
THEOREM NothingDroppedHolds == BusSpec => []NothingDropped
<1>1. BusSpec => []BusIInv
  BY BusStarts, BusSteps, PTL DEF BusSpec
<1> QED
  BY <1>1, BalancedIsWhole, PTL

=============================================================================
