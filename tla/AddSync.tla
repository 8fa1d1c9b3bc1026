------------------------------- MODULE AddSync -------------------------------
(***************************************************************************)
(* Requests to synchronise the CFDIs of a company with an accounting       *)
(* system (ADD or COI): the table add_sync_request and the webhooks that   *)
(* report on it.  A webhook reads its row, changes it in memory and writes *)
(* columns of it back; the webhook for the XMLs and the one for the        *)
(* cancellations share the column "state".  All of them answer 200,        *)
(* whatever they could write.                                              *)
(*                                                                         *)
(* Left out: the dates of a request, the presigned URLs.                   *)
(***************************************************************************)
EXTENDS Naturals, FiniteSets

CONSTANTS
  Req,         \* ids of requests (a bound of the model)
  Uuid,        \* CFDIs of the company
  Hook,        \* webhooks, each delivered once (a bound of the model)
  SyncFaults,  \* subset of {"publish", "presign", "db", "kill"}
  NoReq

ADDSyncState == {"DRAFT", "SENT", "ERROR"}

\* The two counters, as the webhook that writes them: 0 or more.
Counter == {"xml", "cancel"}

Request == [state : ADDSyncState, pending : [Counter -> 0 .. 1]]

ASSUME AddSyncAssumption == NoReq \notin Req /\ NoReq \notin Request

VARIABLES
  request,   \* request[q]: the row of request q, or NoReq
  asked,     \* requests whose sending was asked for by an event
  addExists, \* CFDIs with add_exists
  addCancel, \* CFDIs with add_cancel_date
  hook,      \* the webhooks
  undone     \* history: requests whose state was overwritten with an older one

syncVars == <<request, asked, addExists, addCancel, hook, undone>>

New(s) == [state |-> s, pending |-> [c \in Counter |-> 0]]

Asked(q) == request[q] # NoReq

\* "ok": the webhook brings a body; "errors", "good": its ErrorRows and the CFDIs it
\* reports as done; "seen": the state it read.
NoHook == [step |-> "none", counter |-> "xml", req |-> NoReq, ok |-> FALSE, errors |-> 0,
           good |-> {}, seen |-> "DRAFT"]

SyncInit ==
  /\ request = [q \in Req |-> NoReq]
  /\ asked = {}
  /\ addExists = {}
  /\ addCancel = {}
  /\ hook = [k \in Hook |-> NoHook]
  /\ undone = {}

-----------------------------------------------------------------------------
(* Requests *)

\* The event is dropped when the publisher fails, or when the process dies first.
CreateSyncRequest(q) ==
  /\ ~Asked(q)
  /\ request' = [request EXCEPT ![q] = New("DRAFT")]
  /\ \/ asked' = asked \cup {q}
     \/ {"publish", "kill"} \cap SyncFaults # {} /\ UNCHANGED asked
  /\ UNCHANGED <<addExists, addCancel, hook, undone>>

\* COI: the client uploads its metadata and notifies.  A URL that cannot be signed
\* leaves the row, of which the client never hears.
NewSync(q) ==
  /\ ~Asked(q)
  /\ request' = [request EXCEPT ![q] = New("DRAFT")]
  /\ UNCHANGED <<asked, addExists, addCancel, hook, undone>>

\* The ADD could not download its metadata.
MetadataWebhook(q) ==
  /\ ~Asked(q)
  /\ request' = [request EXCEPT ![q] = New("ERROR")]
  /\ UNCHANGED <<asked, addExists, addCancel, hook, undone>>

\* COI: both counters are set to zero, and the event asks for the sending unless the
\* upload was that of a result.  The UPDATE may fail: nobody looks.
NotifyMetadataUploaded(q, isResult) ==
  /\ Asked(q)
  /\ \/ request' = [request EXCEPT ![q].pending = [c \in Counter |-> 0]]
     \/ "db" \in SyncFaults /\ UNCHANGED request
  /\ \/ asked' = IF isResult THEN asked ELSE asked \cup {q}
     \/ "publish" \in SyncFaults /\ UNCHANGED asked
  /\ UNCHANGED <<addExists, addCancel, hook, undone>>

\* The service that prepares what is sent.
AddServiceSends(q) ==
  /\ q \in asked /\ Asked(q) /\ request[q].state = "DRAFT"
  /\ request' = [request EXCEPT ![q].state = "SENT"]
  /\ UNCHANGED <<asked, addExists, addCancel, hook, undone>>

-----------------------------------------------------------------------------
(* Webhooks *)

\* XMLWebhook and CancelWebhook: the row is read; a request nobody knows is ignored.
Webhook(k, c, q, ok, errors, good) ==
  /\ hook[k].step = "none" /\ Asked(q)
  /\ hook' = [hook EXCEPT ![k] = [step |-> "row", counter |-> c, req |-> q, ok |-> ok,
                                  errors |-> errors, good |-> good, seen |-> request[q].state]]
  /\ UNCHANGED <<request, asked, addExists, addCancel, undone>>

\* Variant: a report without errors says that the request was sent.
StateAfterSent(k) == IF ~hook[k].ok \/ hook[k].errors > 0 THEN "ERROR" ELSE "SENT"

\* A report without errors leaves the state as it was read.
StateAfter(k) == IF ~hook[k].ok \/ hook[k].errors > 0 THEN "ERROR" ELSE hook[k].seen

AfterRow(k) == IF hook[k].ok /\ hook[k].good # {} THEN "report" ELSE "done"

Go(k, step) == hook' = [hook EXCEPT ![k] = IF step = "done" THEN [NoHook EXCEPT !.step = "done"]
                                           ELSE [hook[k] EXCEPT !.step = step]]

\* UPDATE of the state and, with a body, of the counter of the webhook.
WriteRequest(k) ==
  /\ hook[k].step = "row"
  /\ LET q == hook[k].req IN
     /\ request' = [request EXCEPT
          ![q] = [state |-> StateAfter(k),
                  pending |-> IF hook[k].ok
                              THEN [request[q].pending EXCEPT ![hook[k].counter] = hook[k].errors]
                              ELSE request[q].pending]]
     /\ undone' = IF request[q].state # hook[k].seen THEN undone \cup {q} ELSE undone
  /\ Go(k, AfterRow(k))
  /\ UNCHANGED <<asked, addExists, addCancel>>

\* The error of the UPDATE is dropped.
WriteRequestFails(k) ==
  /\ "db" \in SyncFaults
  /\ hook[k].step = "row"
  /\ Go(k, AfterRow(k))
  /\ UNCHANGED <<request, asked, addExists, addCancel, undone>>

\* add_exists, or add_cancel_date, of the CFDIs that the report names.
WriteReports(k) ==
  /\ hook[k].step = "report"
  /\ IF hook[k].counter = "xml"
     THEN addExists' = addExists \cup hook[k].good /\ UNCHANGED addCancel
     ELSE addCancel' = addCancel \cup hook[k].good /\ UNCHANGED addExists
  /\ Go(k, "done")
  /\ UNCHANGED <<request, asked, undone>>

WebhookDies(k) ==
  /\ {"kill", "db"} \cap SyncFaults # {}
  /\ hook[k].step \in {"row", "report"}
  /\ Go(k, "done")
  /\ UNCHANGED <<request, asked, addExists, addCancel, undone>>

SyncNext ==
  \/ \E q \in Req :
       \/ CreateSyncRequest(q)
       \/ NewSync(q)
       \/ MetadataWebhook(q)
       \/ \E isResult \in BOOLEAN : NotifyMetadataUploaded(q, isResult)
       \/ AddServiceSends(q)
  \/ \E k \in Hook :
       \/ \E c \in Counter, q \in Req, errors \in 0 .. 1, good \in SUBSET Uuid :
            Webhook(k, c, q, TRUE, errors, good)
       \/ \E c \in Counter, q \in Req : Webhook(k, c, q, FALSE, 0, {})
       \/ WriteRequest(k)
       \/ WriteRequestFails(k)
       \/ WriteReports(k)
       \/ WebhookDies(k)

SyncSpec == SyncInit /\ [][SyncNext]_syncVars

-----------------------------------------------------------------------------
(* Properties *)

\* What remains to be sent or to be cancelled shows as an error: a request with a
\* counter above zero is in ERROR, whatever its webhooks reported, in whatever order
\* and however many of their updates failed, unless one of them wrote back a state
\* that another had changed since it read the row.
RemainingIsError ==
  \A q \in Req :
    Asked(q) /\ (\E c \in Counter : request[q].pending[c] > 0) =>
      request[q].state = "ERROR" \/ q \in undone

=============================================================================
