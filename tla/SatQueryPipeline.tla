-------------------------- MODULE SatQueryPipeline --------------------------
(***************************************************************************)
(* The life of a sat_query row: from the message that asks for it, through *)
(* the SAT web service, to the packages in blob storage and the handler    *)
(* that processes them.                                                    *)
(*                                                                         *)
(* The worker (cmd/worker) runs one receive loop per Service Bus queue.    *)
(* Each of the seven handlers is one action here, split into one action    *)
(* per outcome where the outcomes have little in common.  A handler's      *)
(* message is chosen from its queue in any order: scheduled and redelivered *)
(* messages overtake others.                                               *)
(*                                                                         *)
(* Time advances in units of 15 minutes, the step of verifyBackoffDelay.   *)
(*                                                                         *)
(* What can go wrong is a set of fault classes, the constant Faults:       *)
(*   "publish"    Bus.Publish only logs the error of a failed send, so a   *)
(*                message may silently not be there;                       *)
(*   "redeliver"  the process dies, the lock expires or settling fails     *)
(*                after any step of a handler: its message stays queued;   *)
(*   "package"    a package cannot be read while its query is processed    *)
(*                (the handler logs it and continues).                     *)
(***************************************************************************)
EXTENDS Integers, FiniteSets

CONSTANTS
  Query,           \* identifiers of sat_query rows (uuid.NewString)
  Package,         \* identifiers of SAT packages
  DownloadType,    \* "ISSUED", "RECEIVED", or both
  Answer,          \* the final answers the SAT may give to a solicitud
  Faults,          \* the fault classes that may strike
  Sources,         \* the publishers outside the worker that take part
  MaxPackages,     \* maxPackages
  MaxCfdiQty,      \* maxCFDIQtyInQuery
  MaxWait,         \* WSMaxWaitingMinutes, in units of 15 minutes
  MaxManualPerDay, \* MaxManualSyncPerDay
  MaxTime          \* bound of the model: the clock stops there

RequestType == {"METADATA", "CFDI"}
Code        == {"NONE", "INFO_NOT_FOUND", "MAX_LIMIT", "OTHER"}

Verdict == [status : {"FINISHED", "FAILED"}, code : Code, qty : Nat,
            pkgs : SUBSET Package]

ASSUME PipelineAssumption ==
  /\ DownloadType \subseteq {"ISSUED", "RECEIVED"}
  /\ Answer \subseteq Verdict
  /\ Faults \subseteq {"publish", "redeliver", "package"}
  /\ Sources \subseteq {"autosync", "cron", "admin", "manual"}
  /\ IsFiniteSet(Package)
  /\ MaxPackages \in Nat /\ MaxCfdiQty \in Nat
  /\ MaxWait \in Nat \ {0}
  /\ MaxManualPerDay \in Nat
  /\ MaxTime \in Nat

VARIABLES
  row,        \* the sat_query table of the tenant
  sat,        \* what the SAT knows of the solicitud sent for a row
  blob,       \* the packages stored under attachments/Zips, by query
  loaded,     \* the packages whose records reached the cfdi tables
  queue,      \* the Service Bus queues the worker listens to
  validCerts, \* company.has_valid_certs
  now         \* the clock

vars == <<row, sat, blob, loaded, queue, validCerts, now>>

-----------------------------------------------------------------------------
(* Rows, messages and queues *)

QueryState ==
  {"ABSENT", "DRAFT", "SENT", "TO_DOWNLOAD", "DOWNLOADED", "PROCESSED",
   "ERROR_IN_CERTS", "ERROR_SAT_WS_INTERNAL", "ERROR_TOO_BIG",
   "TIME_LIMIT_REACHED", "ERROR", "MANUALLY_CANCELLED",
   "INFORMATION_NOT_FOUND"}

Temporary == {"DRAFT", "SENT", "TO_DOWNLOAD", "DOWNLOADED"}

NoDate == -1

Row == [state : QueryState, req : RequestType, manual : BOOLEAN,
        created : Nat, sent : Nat \cup {NoDate}, pkgs : SUBSET Package]

Solicitud == [status : {"NONE", "PENDING", "FINISHED", "FAILED", "EXPIRED"},
              code : Code, qty : Nat, pkgs : SUBSET Package]

SendMetadataMsg == [manual : BOOLEAN]
CreateQueryMsg  == [dl : DownloadType, req : RequestType, manual : BOOLEAN]
VerifyQueryMsg  == [q : Query, sent : Nat \cup {NoDate}, at : Nat]
PackagesMsg     == [q : Query, pkgs : SUBSET Package]
CompleteMsg     == [dl : DownloadType, window : {"RANGE"}]
                     \cup [dl : {"NONE"}, window : {"ZERO"}]

Queues == [sendMetadata : SUBSET SendMetadataMsg,
           create       : SUBSET CreateQueryMsg,
           verify       : SUBSET VerifyQueryMsg,
           download     : SUBSET PackagesMsg,
           metadata     : SUBSET PackagesMsg,
           xml          : SUBSET PackagesMsg,
           complete     : SUBSET CompleteMsg]

NoSolicitud == [status |-> "NONE", code |-> "NONE", qty |-> 0, pkgs |-> {}]

Init ==
  /\ row = [q \in Query |-> [state |-> "ABSENT", req |-> "METADATA",
                             manual |-> FALSE, created |-> 0,
                             sent |-> NoDate, pkgs |-> {}]]
  /\ sat = [q \in Query |-> NoSolicitud]
  /\ blob = [q \in Query |-> {}]
  /\ loaded = [q \in Query |-> {}]
  /\ queue = [sendMetadata |-> {}, create |-> {}, verify |-> {},
              download |-> {}, metadata |-> {}, xml |-> {}, complete |-> {}]
  /\ validCerts = TRUE
  /\ now = 0

\* The ways a handler that publishes the messages S can end: what it managed
\* to publish, and whether the message it handled stays in its queue.
Ends(S) ==
  {e \in [pub : SUBSET S, kept : BOOLEAN] :
     /\ e.kept => "redeliver" \in Faults
     /\ ~e.kept /\ e.pub # S => "publish" \in Faults}

\* Variant: no message is ever completed.
SettleNever(Q, m, e) == Q

\* The queue Q after the handler of m ended with e.
Settle(Q, m, e) == IF e.kept THEN Q ELSE Q \ {m}

\* The messages of S that a publisher outside the worker got through.
Sent(S) == IF "publish" \in Faults THEN SUBSET S ELSE {S}

-----------------------------------------------------------------------------
(* SendQueryMetadata and CreateQuery *)

\* One METADATA query per download type, three seconds apart: less than a unit.
SendQueryMetadata(m) ==
  /\ m \in queue.sendMetadata
  /\ \E e \in Ends([dl : DownloadType, req : {"METADATA"}, manual : {m.manual}]) :
       queue' = [queue EXCEPT !.sendMetadata = Settle(@, m, e),
                              !.create = @ \cup e.pub]
  /\ UNCHANGED <<row, sat, blob, loaded, validCerts, now>>

\* The handler takes a fresh identifier.  The clock bound leaves every row of
\* the model the time to reach its limit.
Fresh(m, q) ==
  /\ m \in queue.create
  /\ row[q].state = "ABSENT"
  /\ now + MaxWait <= MaxTime

\* The row the handler inserts, with the state and the sent date it ends with.
NewRow(m, state, sent) ==
  [state |-> state, req |-> m.req, manual |-> m.manual, created |-> now,
   sent |-> sent, pkgs |-> {}]

Accepted == [NoSolicitud EXCEPT !.status = "PENDING"]

\* loadFIEL finds no certificate, key or passphrase.
CreateQueryInCerts(m, q) ==
  /\ Fresh(m, q)
  /\ \E e \in Ends({}) : queue' = [queue EXCEPT !.create = Settle(@, m, e)]
  /\ row' = [row EXCEPT ![q] = NewRow(m, "ERROR_IN_CERTS", NoDate)]
  /\ validCerts' \in {validCerts, FALSE}
  /\ UNCHANGED <<sat, blob, loaded, now>>

\* The connector cannot be built, or Send fails: the SAT may have taken the
\* solicitud all the same when only its reply was lost.
CreateQueryInternal(m, q) ==
  /\ Fresh(m, q)
  /\ \E e \in Ends({}) : queue' = [queue EXCEPT !.create = Settle(@, m, e)]
  /\ row' = [row EXCEPT ![q] = NewRow(m, "ERROR_SAT_WS_INTERNAL", NoDate)]
  /\ sat' \in {sat, [sat EXCEPT ![q] = Accepted]}
  /\ UNCHANGED <<blob, loaded, validCerts, now>>

CreateQuerySent(m, q) ==
  /\ Fresh(m, q)
  /\ row' = [row EXCEPT ![q] = NewRow(m, "SENT", now)]
  /\ sat' = [sat EXCEPT ![q] = Accepted]
  /\ \E e \in Ends({[q |-> q, sent |-> now, at |-> now]}) :
       queue' = [queue EXCEPT !.create = Settle(@, m, e),
                              !.verify = @ \cup e.pub]
  /\ UNCHANGED <<blob, loaded, validCerts, now>>

\* The handler stops after the INSERT, before or after Send, without reaching
\* the UPDATE: the row keeps DRAFT and the next delivery takes another row.
CreateQueryInterrupted(m, q) ==
  /\ "redeliver" \in Faults
  /\ Fresh(m, q)
  /\ row' = [row EXCEPT ![q] = NewRow(m, "DRAFT", NoDate)]
  /\ sat' \in {sat, [sat EXCEPT ![q] = Accepted]}
  /\ UNCHANGED <<blob, loaded, queue, validCerts, now>>

-----------------------------------------------------------------------------
(* VerifyQuery *)

Due(m) == m \in queue.verify /\ m.at <= now

\* enrichSentDateIfMissing
SentDate(m) == IF m.sent = NoDate THEN row[m.q].sent ELSE m.sent

\* The time since the zero date is longer than any limit.
Elapsed(date) == IF date = NoDate THEN MaxWait ELSE now - date

\* 15, 30, then 60 minutes.
VerifyBackoffDelay(elapsed) ==
  IF elapsed < 1 THEN 1 ELSE IF elapsed < 3 THEN 2 ELSE 4

\* Variant: one package more than the limit passes.
OverLimitByTwo(q) ==
  \/ Cardinality(sat[q].pkgs) > MaxPackages + 1
  \/ row[q].req # "METADATA" /\ sat[q].qty > MaxCfdiQty

OverLimit(q) ==
  \/ Cardinality(sat[q].pkgs) > MaxPackages
  \/ row[q].req # "METADATA" /\ sat[q].qty > MaxCfdiQty

\* updateQueryState, without a list of packages.
SetState(q, state) == row' = [row EXCEPT ![q].state = state]

\* The end of a verification that publishes nothing.
VerifyDone(m) ==
  /\ \E e \in Ends({}) : queue' = [queue EXCEPT !.verify = Settle(@, m, e)]
  /\ UNCHANGED <<sat, blob, loaded, validCerts, now>>

\* An empty list leaves the packages of the row alone.
SetFinished(q, state) ==
  row' = [row EXCEPT ![q].state = state,
                     ![q].pkgs = IF sat[q].pkgs = {} THEN @ ELSE sat[q].pkgs]

VerifyFinished(m) ==
  /\ Due(m)
  /\ sat[m.q].status = "FINISHED"
  /\ ~OverLimit(m.q)
  /\ SetFinished(m.q, "TO_DOWNLOAD")
  /\ \E e \in Ends({[q |-> m.q, pkgs |-> sat[m.q].pkgs]}) :
       queue' = [queue EXCEPT !.verify = Settle(@, m, e),
                              !.download = @ \cup e.pub]
  /\ UNCHANGED <<sat, blob, loaded, validCerts, now>>

VerifyOverLimit(m) ==
  /\ Due(m)
  /\ sat[m.q].status = "FINISHED"
  /\ OverLimit(m.q)
  /\ SetFinished(m.q, "MANUALLY_CANCELLED")
  /\ VerifyDone(m)

FailedState(answer) ==
  CASE answer.code = "INFO_NOT_FOUND" -> "INFORMATION_NOT_FOUND"
    [] answer.code = "MAX_LIMIT" /\ answer.qty = 0 -> "ERROR_SAT_WS_INTERNAL"
    [] answer.code = "MAX_LIMIT" /\ answer.qty > 0 -> "ERROR_TOO_BIG"
    [] OTHER -> "ERROR"

\* The split event of a METADATA query that is too big reaches only
\* queryNeedSplitHandler, in this process, and that one does nothing.
VerifyFailed(m) ==
  /\ Due(m)
  /\ sat[m.q].status \in {"FAILED", "EXPIRED"}
  /\ SetState(m.q, FailedState(sat[m.q]))
  /\ VerifyDone(m)

\* Variant: the delay is not cut to what remains.
VerifyRetryUncut(m) ==
  LET elapsed == Elapsed(SentDate(m))
  IN /\ Due(m)
     /\ elapsed < MaxWait
     /\ \E e \in Ends({[q |-> m.q, sent |-> SentDate(m),
                        at |-> now + VerifyBackoffDelay(elapsed)]}) :
          queue' = [queue EXCEPT !.verify = Settle(@, m, e) \cup e.pub]
     /\ UNCHANGED <<row, sat, blob, loaded, validCerts, now>>

\* Variant: a retry marks the row as sent again.
VerifyRetryAsSent(m) ==
  /\ Due(m)
  /\ Elapsed(SentDate(m)) < MaxWait
  /\ SetState(m.q, "SENT")
  /\ \E e \in Ends({[q |-> m.q, sent |-> SentDate(m), at |-> now + 1]}) :
       queue' = [queue EXCEPT !.verify = Settle(@, m, e) \cup e.pub]
  /\ UNCHANGED <<sat, blob, loaded, validCerts, now>>

\* retryOrTimeout: the SAT has no final answer, or the FIEL or the call failed.
\* The delay is cut to what remains of the limit.
VerifyRetry(m) ==
  LET elapsed == Elapsed(SentDate(m))
      delay   == VerifyBackoffDelay(elapsed)
      remain  == MaxWait - elapsed
  IN /\ Due(m)
     /\ elapsed < MaxWait
     /\ \E e \in Ends({[q |-> m.q, sent |-> SentDate(m),
                        at |-> now + (IF delay > remain THEN remain ELSE delay)]}) :
          queue' = [queue EXCEPT !.verify = Settle(@, m, e) \cup e.pub]
     /\ UNCHANGED <<row, sat, blob, loaded, validCerts, now>>

\* Variant: at the limit the verification is given up without a state.
VerifyGivenUp(m) ==
  /\ Due(m)
  /\ Elapsed(SentDate(m)) >= MaxWait
  /\ VerifyDone(m)
  /\ UNCHANGED row

VerifyTimeLimit(m) ==
  /\ Due(m)
  /\ Elapsed(SentDate(m)) >= MaxWait
  /\ SetState(m.q, "TIME_LIMIT_REACHED")
  /\ VerifyDone(m)

-----------------------------------------------------------------------------
(* DownloadQuery, ProcessMetadata and ProcessXML *)

\* Every goroutine stored its package.  OnQueryReadyToDownloadProcessQuery
\* routes the message by request type.
DownloadStored(m) ==
  /\ m \in queue.download
  /\ sat[m.q].status = "FINISHED"
  /\ blob' = [blob EXCEPT ![m.q] = @ \cup m.pkgs]
  /\ row' = [row EXCEPT ![m.q].state = "DOWNLOADED", ![m.q].pkgs = m.pkgs]
  /\ \E e \in Ends({m}) :
       queue' = [queue EXCEPT
         !.download = Settle(@, m, e),
         !.metadata = IF row[m.q].req = "METADATA" THEN @ \cup e.pub ELSE @,
         !.xml      = IF row[m.q].req = "CFDI" THEN @ \cup e.pub ELSE @]
  /\ UNCHANGED <<sat, loaded, validCerts, now>>

\* What some goroutines stored before another one failed; without the FIEL,
\* or after the solicitud expired, that is nothing.
Stored(m, some) ==
  /\ some \subseteq m.pkgs
  /\ some # {} => sat[m.q].status = "FINISHED"
  /\ blob' = [blob EXCEPT ![m.q] = @ \cup some]

\* Variant: the error of a goroutine is lost.
DownloadFailedUnseen(m) ==
  /\ m \in queue.download
  /\ \E some \in SUBSET m.pkgs : Stored(m, some)
  /\ row' = [row EXCEPT ![m.q].state = "DOWNLOADED", ![m.q].pkgs = m.pkgs]
  /\ \E e \in Ends({}) : queue' = [queue EXCEPT !.download = Settle(@, m, e)]
  /\ UNCHANGED <<sat, loaded, validCerts, now>>

DownloadFailed(m) ==
  /\ m \in queue.download
  /\ \E some \in SUBSET m.pkgs : Stored(m, some)
  /\ row' = [row EXCEPT ![m.q].state = "ERROR", ![m.q].pkgs = m.pkgs]
  /\ \E e \in Ends({}) : queue' = [queue EXCEPT !.download = Settle(@, m, e)]
  /\ UNCHANGED <<sat, loaded, validCerts, now>>

DownloadInterrupted(m) ==
  /\ "redeliver" \in Faults
  /\ m \in queue.download
  /\ \E some \in SUBSET m.pkgs : Stored(m, some)
  /\ UNCHANGED <<row, sat, loaded, queue, validCerts, now>>

\* The packages of the message, or of the row when it carries none.
ToProcess(m) == IF m.pkgs = {} THEN row[m.q].pkgs ELSE m.pkgs

\* The packages a processing handler can get through.  One that is not stored,
\* or that cannot be read, is skipped.
Readable(m) ==
  IF "package" \in Faults THEN SUBSET (ToProcess(m) \cap blob[m.q])
                          ELSE {ToProcess(m) \cap blob[m.q]}

Processed(m, done) ==
  /\ loaded' = [loaded EXCEPT ![m.q] = @ \cup done]
  /\ SetState(m.q, "PROCESSED")
  /\ UNCHANGED <<sat, blob, validCerts, now>>

\* The message of the download carries neither a download type nor dates, so
\* neither does the event that asks for the missing XMLs.
ProcessMetadata(m) ==
  /\ m \in queue.metadata
  /\ \E done \in Readable(m) : Processed(m, done)
  /\ \E e \in Ends({[dl |-> "NONE", window |-> "ZERO"]}) :
       queue' = [queue EXCEPT !.metadata = Settle(@, m, e),
                              !.complete = @ \cup e.pub]

ProcessXML(m) ==
  /\ m \in queue.xml
  /\ \E done \in Readable(m) : Processed(m, done)
  /\ \E e \in Ends({}) : queue' = [queue EXCEPT !.xml = Settle(@, m, e)]

\* Variant: the row is marked before the packages are processed.
ProcessInterruptedLate(m) ==
  /\ "redeliver" \in Faults
  /\ m \in queue.metadata \cup queue.xml
  /\ \E done \in SUBSET (ToProcess(m) \cap blob[m.q]) :
       loaded' = [loaded EXCEPT ![m.q] = @ \cup done]
  /\ SetState(m.q, "PROCESSED")
  /\ UNCHANGED <<sat, blob, queue, validCerts, now>>

\* Either handler stops before the row is marked.
ProcessInterrupted(m) ==
  /\ "redeliver" \in Faults
  /\ m \in queue.metadata \cup queue.xml
  /\ \E done \in SUBSET (ToProcess(m) \cap blob[m.q]) :
       loaded' = [loaded EXCEPT ![m.q] = @ \cup done]
  /\ UNCHANGED <<row, sat, blob, queue, validCerts, now>>

\* Whether some CFDI of the window lacks its XML is left open; in the zero
\* window of ProcessMetadata none does.
CompleteCFDIs(m) ==
  /\ m \in queue.complete
  /\ \E chunk \in SUBSET [dl : {m.dl}, req : {"CFDI"}, manual : {FALSE}] :
       /\ m.window = "ZERO" => chunk = {}
       /\ \E e \in Ends(chunk) :
            queue' = [queue EXCEPT !.complete = Settle(@, m, e),
                                   !.create = @ \cup e.pub]
  /\ UNCHANGED <<row, sat, blob, loaded, validCerts, now>>

-----------------------------------------------------------------------------
(* The publishers outside the worker *)

CompleteAll == [dl : DownloadType, window : {"RANGE"}]

\* OnCompanyCreateAutoSync
CompanyCreated ==
  /\ "autosync" \in Sources
  /\ \E meta \in Sent({[manual |-> TRUE]}),
        cfdi \in Sent([dl : DownloadType, req : {"CFDI"}, manual : {FALSE}]),
        complete \in Sent(CompleteAll) :
       queue' = [queue EXCEPT !.sendMetadata = @ \cup meta,
                              !.create = @ \cup cfdi,
                              !.complete = @ \cup complete]
  /\ UNCHANGED <<row, sat, blob, loaded, validCerts, now>>

\* The scheduled jobs sync-metadata, complete-cfdis and all.
Cron ==
  /\ "cron" \in Sources
  /\ \E meta \in Sent({[manual |-> FALSE]}) \cup {{}},
        complete \in Sent(CompleteAll) \cup {{}} :
       queue' = [queue EXCEPT !.sendMetadata = @ \cup meta,
                              !.complete = @ \cup complete]
  /\ UNCHANGED <<row, sat, blob, loaded, validCerts, now>>

\* POST /api/admin/sat-enqueue
AdminEnqueue ==
  /\ "admin" \in Sources
  /\ \E req \in RequestType, dls \in SUBSET DownloadType :
       \E create \in Sent([dl : dls, req : {req}, manual : {TRUE}]) :
         queue' = [queue EXCEPT !.create = @ \cup create]
  /\ UNCHANGED <<row, sat, blob, loaded, validCerts, now>>

ManualSyncFinalStates ==
  {"PROCESSED", "ERROR", "INFORMATION_NOT_FOUND", "MANUALLY_CANCELLED",
   "TIME_LIMIT_REACHED"}

ManualMetadata ==
  {q \in Query : /\ row[q].state # "ABSENT"
                 /\ row[q].manual /\ row[q].req = "METADATA"}

\* The model's clock stays within one day; two hours are 8 units.
CanRequestManualSync ==
  /\ Cardinality(ManualMetadata) < MaxManualPerDay
  /\ \A q \in ManualMetadata : \/ row[q].state \in ManualSyncFinalStates
                               \/ row[q].created < now - 8

\* ManualRequestStartDelta is 72 hours, 288 units.
Reverifications ==
  {[q |-> q, sent |-> row[q].sent, at |-> now] :
     q \in {q \in Query : /\ row[q].state \in {"SENT", "TIME_LIMIT_REACHED"}
                          /\ row[q].created >= now - 288}}

\* POST /api/SATQuery/manual (the scraper's request leaves the system)
Manual ==
  /\ "manual" \in Sources
  /\ CanRequestManualSync
  /\ \E verify \in Sent(Reverifications),
        cfdi \in Sent([dl : DownloadType, req : {"CFDI"}, manual : {TRUE}]),
        meta \in Sent({[manual |-> TRUE]}) :
       queue' = [queue EXCEPT !.verify = @ \cup verify,
                              !.create = @ \cup cfdi,
                              !.sendMetadata = @ \cup meta]
  /\ UNCHANGED <<row, sat, blob, loaded, validCerts, now>>

-----------------------------------------------------------------------------
(* The SAT and the clock *)

SatAnswers(q) ==
  /\ sat[q].status = "PENDING"
  /\ sat' \in {[sat EXCEPT ![q] = a] : a \in Answer}
  /\ UNCHANGED <<row, blob, loaded, queue, validCerts, now>>

SatExpires(q) ==
  /\ sat[q].status = "FINISHED"
  /\ sat' = [sat EXCEPT ![q].status = "EXPIRED", ![q].code = "OTHER"]
  /\ UNCHANGED <<row, blob, loaded, queue, validCerts, now>>

Tick ==
  /\ now < MaxTime
  /\ now' = now + 1
  /\ UNCHANGED <<row, sat, blob, loaded, queue, validCerts>>

-----------------------------------------------------------------------------
CreateQuery(m, q) ==
  \/ CreateQueryInCerts(m, q)
  \/ CreateQueryInternal(m, q)
  \/ CreateQuerySent(m, q)
  \/ CreateQueryInterrupted(m, q)

VerifyQuery(m) ==
  \/ VerifyFinished(m)
  \/ VerifyOverLimit(m)
  \/ VerifyFailed(m)
  \/ VerifyRetry(m)
  \/ VerifyTimeLimit(m)

DownloadQuery(m) ==
  \/ DownloadStored(m)
  \/ DownloadFailed(m)
  \/ DownloadInterrupted(m)

Process(m) ==
  \/ ProcessMetadata(m)
  \/ ProcessXML(m)
  \/ ProcessInterrupted(m)

Worker ==
  \/ \E m \in queue.sendMetadata : SendQueryMetadata(m)
  \/ \E m \in queue.create, q \in Query : CreateQuery(m, q)
  \/ \E m \in queue.verify : VerifyQuery(m)
  \/ \E m \in queue.download : DownloadQuery(m)
  \/ \E m \in queue.metadata \cup queue.xml : Process(m)
  \/ \E m \in queue.complete : CompleteCFDIs(m)

Publishers == CompanyCreated \/ Cron \/ AdminEnqueue \/ Manual

Environment == (\E q \in Query : SatAnswers(q) \/ SatExpires(q)) \/ Tick

Next == Worker \/ Publishers \/ Environment

Spec == Init /\ [][Next]_vars

-----------------------------------------------------------------------------
(* Properties *)

\* The shape of the rows, the SAT's answers, the storage and the queues.
TypeOK ==
  /\ row \in [Query -> Row]
  /\ sat \in [Query -> Solicitud]
  /\ blob \in [Query -> SUBSET Package]
  /\ loaded \in [Query -> SUBSET Package]
  /\ queue \in Queues
  /\ validCerts \in BOOLEAN
  /\ now \in Nat

\* The messages that follow a download of q.
ToBeProcessed == queue.metadata \cup queue.xml

\* A solicitud the pipeline may download: the SAT finished it and it is within
\* the sanity limits.
Downloadable(q) ==
  /\ sat[q].status \in {"FINISHED", "EXPIRED"}
  /\ Cardinality(sat[q].pkgs) <= MaxPackages
  /\ row[q].req = "CFDI" => sat[q].qty <= MaxCfdiQty

\* A query moves past verification, and anything of it is stored, only when the
\* SAT finished it within the limits of handleFinished, and then the row names
\* exactly the packages of the SAT's answer, however late, often or out of
\* order the messages arrive.
OnlyFinishedIsDownloaded ==
  \A q \in Query :
    /\ row[q].state \in {"TO_DOWNLOAD", "DOWNLOADED", "PROCESSED"} =>
         Downloadable(q) /\ row[q].pkgs = sat[q].pkgs
    /\ blob[q] # {} => Downloadable(q) /\ blob[q] \subseteq sat[q].pkgs

\* DownloadQuery announces a query only when every package is in storage: what
\* DOWNLOADED, PROCESSED and every message to a processing handler name is there.
StoredBeforeProcessed ==
  /\ \A q \in Query :
       row[q].state \in {"DOWNLOADED", "PROCESSED"} => row[q].pkgs \subseteq blob[q]
  /\ \A m \in ToBeProcessed : m.pkgs \subseteq blob[m.q]

\* When no package fails to be read, PROCESSED means that the records of every
\* package of the query reached the cfdi tables, also when a processing handler
\* was interrupted and its message delivered again.
ProcessedIsLoaded ==
  "package" \notin Faults =>
    \A q \in Query : row[q].state = "PROCESSED" => row[q].pkgs \subseteq loaded[q]

\* What a reader of the row sees of its state.
Shown(state) ==
  CASE state = "ABSENT" -> "absent"
    [] state \in {"DRAFT", "SENT"} -> "waiting"
    [] state = "TO_DOWNLOAD" -> "found"
    [] state = "DOWNLOADED" -> "held"
    [] state = "PROCESSED" -> "processed"
    [] OTHER -> "ended"

\* The pipeline implements QueryLife: whatever is lost, delivered again, interrupted
\* or late, packages only move from the SAT's answer to storage and on to the tables,
\* a row never shows more than they have reached, and none waits again once verified.
Life == INSTANCE QueryLife WITH
  phase    <- [q \in Query |-> Shown(row[q].state)],
  accepted <- {q \in Query : Downloadable(q)},
  offered  <- [q \in Query |-> IF Downloadable(q) THEN sat[q].pkgs ELSE {}],
  held     <- blob,
  MaySkip  <- "package" \in Faults

LivesAsPromised == Life!Spec

\* retryOrTimeout never schedules a verification beyond WSMaxWaitingMinutes from
\* the row's sent_date: each one is either due by then or due already (a
\* reverification that the user asked for).
VerifyWithinLimit ==
  \A m \in queue.verify :
    /\ row[m.q].sent # NoDate
    /\ m.sent = row[m.q].sent
    /\ m.at <= row[m.q].sent + MaxWait \/ m.at <= now

\* The message that moves a row on, for as long as its state is a temporary one.
HasCarrier(q) ==
  /\ row[q].state # "DRAFT"
  /\ row[q].state = "SENT" => \E m \in queue.verify : m.q = q
  /\ row[q].state = "TO_DOWNLOAD" => \E m \in queue.download : m.q = q
  /\ row[q].state = "DOWNLOADED" => \E m \in ToBeProcessed : m.q = q

\* Where nothing is lost and no handler is interrupted, each query in a temporary state
\* has its next message in flight, although verifications asked for by hand overtake
\* and repeat those of the pipeline: no handler takes the last one away and leaves the
\* row behind.
TemporaryIsCarried ==
  {"publish", "redeliver"} \cap Faults = {} => \A q \in Query : HasCarrier(q)

\* A verification that leaves its row as it was is followed by a later one, and that
\* within the limit, or the user asked for it: verifying a query comes to an end, and no
\* handler keeps a message going round at one moment.
RetriesAdvance ==
  [][\A n \in queue'.verify \ queue.verify : UNCHANGED row =>
       \/ n \in Reverifications
       \/ now < n.at /\ n.at <= row[n.q].sent + MaxWait]_vars

\* The states of a query that the SAT finishes within the limits, in order.
Progress == <<"ABSENT", "SENT", "TO_DOWNLOAD", "DOWNLOADED", "PROCESSED">>

\* With exactly-once delivery and no reverification a row only moves forward:
\* no handler overwrites what a later one wrote, and a final state stays.
ForwardOnly ==
  [][\A q \in Query : row'[q].state # row[q].state =>
       \/ \E i, j \in 1..5 : /\ i < j
                            /\ row[q].state = Progress[i]
                            /\ row'[q].state = Progress[j]
       \/ /\ row[q].state \in {"ABSENT"} \cup Temporary
          /\ row'[q].state \notin Temporary]_row

\* "Automatic CFDI/METADATA chunks (company create, generators) must not disable
\* 'Descarga manual'": while only these publish, the user may ask for a manual
\* synchronisation.
AutomaticNeverBlocks == Sources \subseteq {"autosync", "cron"} => CanRequestManualSync

\* The receive loops keep running, and time passes.
Fairness ==
  /\ WF_vars(Tick)
  /\ \A q \in Query :
       /\ WF_vars(\E m \in queue.verify : m.q = q /\ VerifyQuery(m))
       /\ WF_vars(\E m \in queue.download : m.q = q /\ DownloadQuery(m))
       /\ WF_vars(\E m \in ToBeProcessed : m.q = q /\ Process(m))

FairSpec == Spec /\ Fairness

\* The states of model/tenant/sat_query.go under "Temporary states" are that:
\* every query leaves them, whatever the SAT answers or fails to answer.
TemporaryIsLeft ==
  \A q \in Query : row[q].state \in Temporary ~> row[q].state \notin Temporary

=============================================================================
