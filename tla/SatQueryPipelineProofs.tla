----------------------- MODULE SatQueryPipelineProofs -----------------------
(***************************************************************************)
(* Proofs about SatQueryPipeline, for every set of queries and packages,   *)
(* every limit, every set of faults and publishers and every clock bound:  *)
(* its type invariant, what a download, a load and a verification may rely *)
(* on, and that a row only moves forward where nothing is delivered twice. *)
(***************************************************************************)
EXTENDS SatQueryPipeline, FiniteSetTheorems, TLAPS

-----------------------------------------------------------------------------
(* How a handler ends *)

\* A handler publishes nothing but its messages, and settling only removes.
LEMMA EndsPublishesSubset ==
  ASSUME NEW S, NEW e \in Ends(S)
  PROVE  e.pub \subseteq S /\ e.kept \in BOOLEAN
BY DEF Ends

LEMMA SettleSubset ==
  ASSUME NEW Q, NEW m, NEW e
  PROVE  Settle(Q, m, e) \subseteq Q
BY DEF Settle

LEMMA SentSubset ==
  ASSUME NEW S, NEW T \in Sent(S)
  PROVE  T \subseteq S
BY DEF Sent

-----------------------------------------------------------------------------
(* Type correctness *)

LEMMA TypeInit == Init => TypeOK
BY DEF Init, TypeOK, Row, Solicitud, Queues, QueryState, RequestType, Code,
       NoSolicitud, NoDate

\* SendQueryMetadata and the four ends of CreateQuery.
LEMMA TypeCreate ==
  ASSUME TypeOK,
         \/ \E m \in queue.sendMetadata : SendQueryMetadata(m)
         \/ \E m \in queue.create, q \in Query : CreateQuery(m, q)
  PROVE  TypeOK'
<1> USE DEF TypeOK, Queues, CreateQueryMsg, SendMetadataMsg
<1>1. CASE \E m \in queue.sendMetadata : SendQueryMetadata(m)
  <2>1. PICK m \in queue.sendMetadata : SendQueryMetadata(m)
    BY <1>1
  <2>. DEFINE S == [dl : DownloadType, req : {"METADATA"}, manual : {m.manual}]
  <2>2. PICK e \in Ends(S) :
          queue' = [queue EXCEPT !.sendMetadata = Settle(@, m, e),
                                 !.create = @ \cup e.pub]
    BY <2>1 DEF SendQueryMetadata
  <2>3. e.pub \subseteq CreateQueryMsg
    <3>1. S \subseteq CreateQueryMsg
      <4>1. {"METADATA"} \subseteq RequestType
        BY DEF RequestType
      <4>2. {m.manual} \subseteq BOOLEAN
        OBVIOUS
      <4>. QED
        BY <4>1, <4>2
    <3>. HIDE DEF S
    <3>2. e.pub \subseteq S
      BY <2>2, EndsPublishesSubset
    <3>. QED
      BY <3>1, <3>2
  <2>4. queue' \in Queues
    BY <2>2, <2>3, SettleSubset
  <2>. QED
    BY <2>1, <2>4 DEF SendQueryMetadata
<1>2. CASE \E m \in queue.create, q \in Query : CreateQuery(m, q)
  <2>1. PICK m \in queue.create, q \in Query : CreateQuery(m, q)
    BY <1>2
  <2>2. \A state \in QueryState, sent \in Nat \cup {NoDate} :
          NewRow(m, state, sent) \in Row
    BY DEF NewRow, Row, RequestType
  <2>3. Accepted \in Solicitud
    BY DEF Accepted, NoSolicitud, Solicitud, Code
  <2>4. CASE CreateQueryInCerts(m, q)
    <3>1. queue' \in Queues
      BY <2>4, SettleSubset DEF CreateQueryInCerts
    <3>. QED
      BY <2>2, <2>4, <3>1 DEF CreateQueryInCerts, QueryState
  <2>5. CASE CreateQueryInternal(m, q)
    BY <2>2, <2>3, <2>5, SettleSubset DEF CreateQueryInternal, QueryState
  <2>6. CASE CreateQuerySent(m, q)
    <3>1. PICK e \in Ends({[q |-> q, sent |-> now, at |-> now]}) :
            queue' = [queue EXCEPT !.create = Settle(@, m, e),
                                   !.verify = @ \cup e.pub]
      BY <2>6 DEF CreateQuerySent
    <3>2. e.pub \subseteq VerifyQueryMsg
      BY EndsPublishesSubset DEF VerifyQueryMsg
    <3>3. queue' \in Queues
      BY <3>1, <3>2, SettleSubset
    <3>. QED
      BY <2>2, <2>3, <2>6, <3>3 DEF CreateQuerySent, QueryState
  <2>7. CASE CreateQueryInterrupted(m, q)
    BY <2>2, <2>3, <2>7 DEF CreateQueryInterrupted, QueryState
  <2>. QED
    BY <2>1, <2>4, <2>5, <2>6, <2>7 DEF CreateQuery
<1>. QED
  BY <1>1, <1>2

\* updateQueryState keeps the shape of the table.
LEMMA SetStateShape ==
  ASSUME row \in [Query -> Row], NEW q \in Query
  PROVE  \A state \in QueryState : SetState(q, state) => row' \in [Query -> Row]
<1>1. SUFFICES ASSUME NEW state \in QueryState, SetState(q, state)
               PROVE  row' \in [Query -> Row]
  OBVIOUS
<1>2. [row[q] EXCEPT !.state = state] \in Row
  BY DEF Row
<1>. QED
  BY <1>1, <1>2 DEF SetState

\* The five ends of VerifyQuery.
LEMMA TypeVerify ==
  ASSUME TypeOK, NEW m \in queue.verify, VerifyQuery(m)
  PROVE  TypeOK'
<1> USE DEF TypeOK, Queues
<1>1. m \in VerifyQueryMsg /\ m.q \in Query
  BY DEF VerifyQueryMsg
<1>2. VerifyDone(m) => queue' \in Queues
  BY SettleSubset DEF VerifyDone
<1>3. \A state \in QueryState : SetState(m.q, state) => row' \in [Query -> Row]
  BY <1>1, SetStateShape
<1>4. \A state \in QueryState : SetFinished(m.q, state) => row' \in [Query -> Row]
  BY <1>1 DEF SetFinished, Row, Solicitud
<1>5. CASE VerifyFinished(m)
  <2>1. PICK e \in Ends({[q |-> m.q, pkgs |-> sat[m.q].pkgs]}) :
          queue' = [queue EXCEPT !.verify = Settle(@, m, e),
                                 !.download = @ \cup e.pub]
    BY <1>5 DEF VerifyFinished
  <2>2. e.pub \subseteq PackagesMsg
    BY <1>1, EndsPublishesSubset DEF PackagesMsg, Solicitud
  <2>3. queue' \in Queues
    BY <2>1, <2>2, SettleSubset
  <2>. QED
    BY <1>4, <1>5, <2>3 DEF VerifyFinished, QueryState
<1>6. CASE VerifyOverLimit(m)
  BY <1>2, <1>4, <1>6 DEF VerifyOverLimit, VerifyDone, QueryState
<1>7. CASE VerifyFailed(m)
  <2>1. FailedState(sat[m.q]) \in QueryState
    BY <1>1 DEF FailedState, QueryState, Solicitud
  <2>. QED
    BY <1>2, <1>3, <1>7, <2>1 DEF VerifyFailed, VerifyDone
<1>8. CASE VerifyRetry(m)
  <2>. DEFINE date    == SentDate(m)
              elapsed == Elapsed(date)
              delay   == VerifyBackoffDelay(elapsed)
              remain  == MaxWait - elapsed
              at      == now + (IF delay > remain THEN remain ELSE delay)
  <2>1. date \in Nat \cup {NoDate}
    BY <1>1 DEF SentDate, VerifyQueryMsg, Row
  <2>2. elapsed \in Int /\ elapsed < MaxWait
    BY <1>8, <2>1, PipelineAssumption DEF VerifyRetry, Elapsed
  <2>3. at \in Nat
    <3>1. delay \in {1, 2, 4}
      BY DEF VerifyBackoffDelay
    <3>2. remain \in Nat
      BY <2>2, PipelineAssumption
    <3>. HIDE DEF delay, remain
    <3>. QED
      BY <3>1, <3>2
  <2>4. PICK e \in Ends({[q |-> m.q, sent |-> date, at |-> at]}) :
          queue' = [queue EXCEPT !.verify = Settle(@, m, e) \cup e.pub]
    BY <1>8 DEF VerifyRetry
  <2>5. [q |-> m.q, sent |-> date, at |-> at] \in VerifyQueryMsg
    <3>. HIDE DEF date, at
    <3>. QED
      BY <1>1, <2>1, <2>3 DEF VerifyQueryMsg
  <2>6. e.pub \subseteq VerifyQueryMsg
    <3>. HIDE DEF date, at
    <3>. QED
      BY <2>5, EndsPublishesSubset
  <2>7. queue' \in Queues
    BY <2>4, <2>6, SettleSubset
  <2>. QED
    BY <1>8, <2>7 DEF VerifyRetry
<1>9. CASE VerifyTimeLimit(m)
  BY <1>2, <1>3, <1>9 DEF VerifyTimeLimit, VerifyDone, QueryState
<1>. QED
  BY <1>5, <1>6, <1>7, <1>8, <1>9 DEF VerifyQuery

\* DownloadQuery, the two processing handlers and CompleteCFDIs.
LEMMA TypeDownload ==
  ASSUME TypeOK, NEW m \in queue.download, DownloadQuery(m)
  PROVE  TypeOK'
<1> USE DEF TypeOK, Queues
<1>1. m \in PackagesMsg /\ m.q \in Query /\ m.pkgs \subseteq Package
  BY DEF PackagesMsg
<1>2. \A some : Stored(m, some) => blob' \in [Query -> SUBSET Package]
  BY <1>1 DEF Stored
<1>3. CASE DownloadStored(m)
  <2>1. PICK e \in Ends({m}) :
          queue' = [queue EXCEPT
            !.download = Settle(@, m, e),
            !.metadata = IF row[m.q].req = "METADATA" THEN @ \cup e.pub ELSE @,
            !.xml      = IF row[m.q].req = "CFDI" THEN @ \cup e.pub ELSE @]
    BY <1>3 DEF DownloadStored
  <2>2. e.pub \subseteq PackagesMsg
    BY <1>1, EndsPublishesSubset
  <2>3. queue' \in Queues
    BY <2>1, <2>2, SettleSubset
  <2>. QED
    BY <1>1, <1>3, <2>3 DEF DownloadStored, Row, QueryState
<1>4. CASE DownloadFailed(m)
  <2>1. queue' \in Queues
    BY <1>4, SettleSubset DEF DownloadFailed
  <2>. QED
    <3>1. blob' \in [Query -> SUBSET Package]
      BY <1>2, <1>4 DEF DownloadFailed
    <3>2. row' \in [Query -> Row]
      BY <1>1, <1>4 DEF DownloadFailed, Row, QueryState
    <3>. QED
      BY <1>4, <2>1, <3>1, <3>2 DEF DownloadFailed
<1>5. CASE DownloadInterrupted(m)
  BY <1>2, <1>5 DEF DownloadInterrupted
<1>. QED
  BY <1>3, <1>4, <1>5 DEF DownloadQuery

LEMMA TypeProcess ==
  ASSUME TypeOK, NEW m \in queue.metadata \cup queue.xml, Process(m)
  PROVE  TypeOK'
<1> USE DEF TypeOK, Queues
<1>1. m.q \in Query /\ m.pkgs \subseteq Package
  BY DEF PackagesMsg
<1>2. ToProcess(m) \subseteq Package
  BY <1>1 DEF ToProcess, Row
<1>3. \A done \in Readable(m) : done \subseteq Package
  BY <1>2 DEF Readable
<1>4. ASSUME NEW done \in Readable(m), Processed(m, done)
      PROVE  /\ row' \in [Query -> Row]
             /\ loaded' \in [Query -> SUBSET Package]
  <2>1. loaded' \in [Query -> SUBSET Package]
    BY <1>1, <1>3, <1>4 DEF Processed
  <2>. QED
    BY <1>1, <1>4, <2>1, SetStateShape DEF Processed, QueryState
<1>5. CASE ProcessMetadata(m)
  <2>1. PICK e \in Ends({[dl |-> "NONE", window |-> "ZERO"]}) :
          queue' = [queue EXCEPT !.metadata = Settle(@, m, e),
                                 !.complete = @ \cup e.pub]
    BY <1>5 DEF ProcessMetadata
  <2>2. e.pub \subseteq CompleteMsg
    BY EndsPublishesSubset DEF CompleteMsg
  <2>3. queue' \in Queues
    BY <2>1, <2>2, SettleSubset
  <2>. QED
    BY <1>4, <1>5, <2>3 DEF ProcessMetadata, Processed
<1>6. CASE ProcessXML(m)
  <2>1. queue' \in Queues
    BY <1>6, SettleSubset DEF ProcessXML
  <2>. QED
    BY <1>4, <1>6, <2>1 DEF ProcessXML, Processed
<1>7. CASE ProcessInterrupted(m)
  BY <1>1, <1>2, <1>7 DEF ProcessInterrupted
<1>. QED
  BY <1>5, <1>6, <1>7 DEF Process

LEMMA TypeComplete ==
  ASSUME TypeOK, NEW m \in queue.complete, CompleteCFDIs(m)
  PROVE  TypeOK'
<1> USE DEF TypeOK, Queues
<1>1. PICK chunk \in SUBSET [dl : {m.dl}, req : {"CFDI"}, manual : {FALSE}] :
        /\ m.window = "ZERO" => chunk = {}
        /\ \E e \in Ends(chunk) :
             queue' = [queue EXCEPT !.complete = Settle(@, m, e),
                                    !.create = @ \cup e.pub]
  BY DEF CompleteCFDIs
<1>2. PICK e \in Ends(chunk) :
        queue' = [queue EXCEPT !.complete = Settle(@, m, e),
                               !.create = @ \cup e.pub]
  BY <1>1
<1>3. chunk \subseteq CreateQueryMsg
  BY <1>1 DEF CompleteMsg, CreateQueryMsg, RequestType
<1>4. e.pub \subseteq CreateQueryMsg
  BY <1>2, <1>3, EndsPublishesSubset
<1>5. queue' \in Queues
  BY <1>2, <1>4, SettleSubset
<1>. QED
  BY <1>5 DEF CompleteCFDIs

\* The publishers outside the worker, the SAT and the clock.
LEMMA TypePublishers ==
  ASSUME TypeOK, Publishers
  PROVE  TypeOK'
<1> USE DEF TypeOK, Queues
<1>1. [dl : DownloadType, req : {"CFDI"}, manual : {TRUE, FALSE}] \subseteq CreateQueryMsg
  BY DEF CreateQueryMsg, RequestType
<1>2. CompleteAll \subseteq CompleteMsg
  BY DEF CompleteAll, CompleteMsg
<1>3. {[manual |-> TRUE], [manual |-> FALSE]} \subseteq SendMetadataMsg
  BY DEF SendMetadataMsg
<1>4. CASE CompanyCreated
  <2>1. PICK meta \in Sent({[manual |-> TRUE]}),
             cfdi \in Sent([dl : DownloadType, req : {"CFDI"}, manual : {FALSE}]),
             complete \in Sent(CompleteAll) :
          queue' = [queue EXCEPT !.sendMetadata = @ \cup meta,
                                 !.create = @ \cup cfdi,
                                 !.complete = @ \cup complete]
    BY <1>4 DEF CompanyCreated
  <2>2. /\ meta \subseteq SendMetadataMsg
        /\ cfdi \subseteq CreateQueryMsg
        /\ complete \subseteq CompleteMsg
    <3>1. /\ meta \subseteq {[manual |-> TRUE]}
          /\ cfdi \subseteq [dl : DownloadType, req : {"CFDI"}, manual : {FALSE}]
          /\ complete \subseteq CompleteAll
      BY <2>1, SentSubset
    <3>. QED
      BY <1>1, <1>2, <1>3, <3>1
  <2>3. queue' \in Queues
    BY <2>1, <2>2
  <2>. QED
    BY <1>4, <2>3 DEF CompanyCreated
<1>5. CASE Cron
  <2>1. PICK meta \in Sent({[manual |-> FALSE]}) \cup {{}},
             complete \in Sent(CompleteAll) \cup {{}} :
          queue' = [queue EXCEPT !.sendMetadata = @ \cup meta,
                                 !.complete = @ \cup complete]
    BY <1>5 DEF Cron
  <2>2. meta \subseteq SendMetadataMsg /\ complete \subseteq CompleteMsg
    <3>1. meta \subseteq {[manual |-> FALSE]} /\ complete \subseteq CompleteAll
      BY <2>1, SentSubset
    <3>. QED
      BY <1>2, <1>3, <3>1
  <2>3. queue' \in Queues
    BY <2>1, <2>2
  <2>. QED
    BY <1>5, <2>3 DEF Cron
<1>6. CASE AdminEnqueue
  <2>1. PICK req \in RequestType, dls \in SUBSET DownloadType :
          \E create \in Sent([dl : dls, req : {req}, manual : {TRUE}]) :
            queue' = [queue EXCEPT !.create = @ \cup create]
    BY <1>6 DEF AdminEnqueue
  <2>2. PICK create \in Sent([dl : dls, req : {req}, manual : {TRUE}]) :
          queue' = [queue EXCEPT !.create = @ \cup create]
    BY <2>1
  <2>3. create \subseteq CreateQueryMsg
    <3>1. create \subseteq [dl : dls, req : {req}, manual : {TRUE}]
      BY <2>2, SentSubset
    <3>. QED
      BY <3>1 DEF CreateQueryMsg
  <2>4. queue' \in Queues
    BY <2>2, <2>3
  <2>. QED
    BY <1>6, <2>4 DEF AdminEnqueue
<1>7. CASE Manual
  <2>1. PICK verify \in Sent(Reverifications),
             cfdi \in Sent([dl : DownloadType, req : {"CFDI"}, manual : {TRUE}]),
             meta \in Sent({[manual |-> TRUE]}) :
          queue' = [queue EXCEPT !.verify = @ \cup verify,
                                 !.create = @ \cup cfdi,
                                 !.sendMetadata = @ \cup meta]
    BY <1>7 DEF Manual
  <2>2. Reverifications \subseteq VerifyQueryMsg
    BY DEF Reverifications, VerifyQueryMsg, Row
  <2>3. /\ verify \subseteq VerifyQueryMsg
        /\ cfdi \subseteq CreateQueryMsg
        /\ meta \subseteq SendMetadataMsg
    <3>1. /\ verify \subseteq Reverifications
          /\ cfdi \subseteq [dl : DownloadType, req : {"CFDI"}, manual : {TRUE}]
          /\ meta \subseteq {[manual |-> TRUE]}
      BY <2>1, SentSubset
    <3>. QED
      BY <1>1, <1>3, <2>2, <3>1
  <2>4. queue' \in Queues
    BY <2>1, <2>3
  <2>. QED
    BY <1>7, <2>4 DEF Manual
<1>. QED
  BY <1>4, <1>5, <1>6, <1>7 DEF Publishers

LEMMA TypeEnvironment ==
  ASSUME TypeOK, Environment
  PROVE  TypeOK'
<1> USE DEF TypeOK
<1>1. ASSUME NEW q \in Query, SatAnswers(q)
      PROVE  TypeOK'
  <2>1. Answer \subseteq Solicitud
    BY PipelineAssumption DEF Verdict, Solicitud
  <2>. QED
    BY <1>1, <2>1 DEF SatAnswers
<1>2. ASSUME NEW q \in Query, SatExpires(q)
      PROVE  TypeOK'
  <2>1. [sat[q] EXCEPT !.status = "EXPIRED", !.code = "OTHER"] \in Solicitud
    BY DEF Solicitud, Code
  <2>. QED
    BY <1>2, <2>1 DEF SatExpires
<1>3. CASE Tick
  BY <1>3 DEF Tick
<1>. QED
  BY <1>1, <1>2, <1>3 DEF Environment

\* Type correctness: no sequence of handler runs, faults, answers and requests
\* writes a row, message or file of another shape.
THEOREM TypeCorrect == Spec => []TypeOK
<1>1. TypeOK /\ [Next]_vars => TypeOK'
  <2>1. CASE UNCHANGED vars
    BY <2>1 DEF vars, TypeOK
  <2>2. ASSUME TypeOK, Worker
        PROVE  TypeOK'
    BY <2>2, TypeCreate, TypeVerify, TypeDownload, TypeProcess, TypeComplete
       DEF Worker
  <2>. QED
    BY <2>1, <2>2, TypePublishers, TypeEnvironment DEF Next
<1>. QED
  BY <1>1, TypeInit, PTL DEF Spec


-----------------------------------------------------------------------------
(* The inductive invariant *)

Known(q) == row[q].state # "ABSENT"

\* A row before its first handler, and its packages against the SAT's answer.
RowMatchesAnswer(q) ==
  /\ ~Known(q) => /\ sat[q].status = "NONE"
                  /\ blob[q] = {}
                  /\ row[q].pkgs = {}
  /\ sat[q].status \in {"NONE", "PENDING"} => sat[q].pkgs = {}
  /\ row[q].pkgs \subseteq sat[q].pkgs
  /\ row[q].state \in {"SENT", "TIME_LIMIT_REACHED"} => row[q].sent # NoDate

\* The part of the checked invariants that speaks of the row of q.
RowSafe(q) ==
  /\ row[q].state \in {"TO_DOWNLOAD", "DOWNLOADED", "PROCESSED"} =>
       Downloadable(q) /\ row[q].pkgs = sat[q].pkgs
  /\ blob[q] # {} => Downloadable(q) /\ blob[q] \subseteq sat[q].pkgs
  /\ row[q].state \in {"DOWNLOADED", "PROCESSED"} => row[q].pkgs \subseteq blob[q]
  /\ "package" \notin Faults /\ row[q].state = "PROCESSED" =>
       row[q].pkgs \subseteq loaded[q]

RowOK(q) == RowMatchesAnswer(q) /\ RowSafe(q)

VerifyOK(m) ==
  /\ Known(m.q)
  /\ row[m.q].sent # NoDate
  /\ m.sent = row[m.q].sent
  /\ m.at <= row[m.q].sent + MaxWait \/ m.at <= now

PackagesOK(m) ==
  /\ Known(m.q)
  /\ Downloadable(m.q)
  /\ m.pkgs = sat[m.q].pkgs
  /\ row[m.q].pkgs = sat[m.q].pkgs

StoredOK(m) == PackagesOK(m) /\ m.pkgs \subseteq blob[m.q]

IInv ==
  /\ TypeOK
  /\ \A q \in Query : RowOK(q)
  /\ \A m \in queue.verify : VerifyOK(m)
  /\ \A m \in queue.download : PackagesOK(m)
  /\ \A m \in ToBeProcessed : StoredOK(m)

-----------------------------------------------------------------------------
(* What a step must show *)

Same(q) ==
  /\ row'[q] = row[q] /\ sat'[q] = sat[q]
  /\ blob'[q] = blob[q] /\ loaded'[q] = loaded[q]

\* What no step takes back from the row of q.
Kept(q) ==
  /\ Known(q) => /\ row'[q].state # "ABSENT"
                 /\ row'[q].sent = row[q].sent
                 /\ Downloadable(q) => Downloadable(q)' /\ sat'[q].pkgs = sat[q].pkgs
                 /\ Downloadable(q) /\ row[q].pkgs = sat[q].pkgs =>
                      row'[q].pkgs = sat'[q].pkgs
  /\ blob[q] \subseteq blob'[q]

\* Messages already in flight stay good, and the new ones are.
MessagesOK ==
  /\ \A m \in queue'.verify : m \in queue.verify \/ VerifyOK(m)'
  /\ \A m \in queue'.download : m \in queue.download \/ PackagesOK(m)'
  /\ \A m \in ToBeProcessed' : m \in ToBeProcessed \/ StoredOK(m)'

\* A step that touches one row keeps the invariant when that row is good
\* afterwards, keeps what the messages rely on, and the new messages are good.
LEMMA OneRow ==
  ASSUME IInv, TypeOK', NEW q0 \in Query,
         \A q \in Query \ {q0} : Same(q),
         RowOK(q0)', Kept(q0), MessagesOK, now <= now'
  PROVE  IInv'
<1>1. \A q \in Query : RowOK(q)'
  <2>1. ASSUME NEW q \in Query, q # q0
        PROVE  RowOK(q)'
    <3>1. RowOK(q) /\ Same(q)
      BY <2>1 DEF IInv
    <3>. QED
      BY <3>1 DEF Same, RowOK, RowMatchesAnswer, RowSafe, Known, Downloadable
  <2>. QED
    BY <2>1
<1>2. \A q \in Query : Kept(q)
  <2>1. ASSUME NEW q \in Query, q # q0
        PROVE  Kept(q)
    <3>1. Same(q)
      BY <2>1
    <3>. QED
      BY <3>1 DEF Same, Kept, Known, Downloadable
  <2>. QED
    BY <2>1
<1>3. ASSUME NEW m \in queue'.verify
      PROVE  VerifyOK(m)'
  <2>1. CASE m \in queue.verify
    <3>1. m.q \in Query /\ m.at \in Nat /\ now \in Nat /\ now' \in Nat
      BY <2>1 DEF IInv, TypeOK, Queues, VerifyQueryMsg
    <3>2. VerifyOK(m) /\ Kept(m.q)
      BY <1>2, <2>1, <3>1 DEF IInv
    <3>. QED
      BY <3>1, <3>2 DEF VerifyOK, Kept, Known
  <2>. QED
    BY <2>1 DEF MessagesOK
<1>4. \A m : m.q \in Query /\ PackagesOK(m) => PackagesOK(m)'
  BY <1>2 DEF PackagesOK, Kept, Known
<1>5. ASSUME NEW m \in queue'.download
      PROVE  PackagesOK(m)'
  <2>1. CASE m \in queue.download
    <3>1. m.q \in Query /\ PackagesOK(m)
      BY <2>1 DEF IInv, TypeOK, Queues, PackagesMsg
    <3>. QED
      BY <1>4, <3>1
  <2>. QED
    BY <2>1 DEF MessagesOK
<1>6. ASSUME NEW m \in ToBeProcessed'
      PROVE  StoredOK(m)'
  <2>1. CASE m \in ToBeProcessed
    <3>1. m.q \in Query /\ StoredOK(m)
      BY <2>1 DEF IInv, TypeOK, Queues, PackagesMsg, ToBeProcessed
    <3>2. Kept(m.q)
      BY <1>2, <3>1
    <3>. QED
      BY <1>4, <3>1, <3>2 DEF StoredOK, Kept
  <2>. QED
    BY <2>1 DEF MessagesOK
<1>. QED
  BY <1>1, <1>3, <1>5, <1>6 DEF IInv

\* A step that leaves the rows, the answers and the storage alone.
LEMMA NoRow ==
  ASSUME IInv, TypeOK', UNCHANGED <<row, sat, blob, loaded>>, MessagesOK, now <= now'
  PROVE  IInv'
<1>1. CASE Query = {}
  BY <1>1 DEF IInv, TypeOK, Queues, VerifyQueryMsg, PackagesMsg, ToBeProcessed
<1>2. CASE Query # {}
  <2>1. PICK q0 \in Query : TRUE
    BY <1>2
  <2>2. RowOK(q0)'
    <3>1. RowOK(q0)
      BY DEF IInv
    <3>. QED
      BY <3>1 DEF RowOK, RowMatchesAnswer, RowSafe, Known, Downloadable
  <2>3. (\A q \in Query : Same(q)) /\ Kept(q0)
    BY DEF Same, Kept, Known, Downloadable
  <2>. QED
    BY <2>1, <2>2, <2>3, OneRow
<1>. QED
  BY <1>1, <1>2

-----------------------------------------------------------------------------
(* The steps *)

LEMMA InvInit == Init => IInv
BY TypeInit
   DEF Init, IInv, RowOK, RowMatchesAnswer, RowSafe, Known, ToBeProcessed,
       NoSolicitud, NoDate

\* The number of packages of a solicitud is a number.
LEMMA PackagesCounted ==
  ASSUME TypeOK, NEW q \in Query
  PROVE  Cardinality(sat[q].pkgs) \in Nat
<1>1. sat[q].pkgs \subseteq Package
  BY DEF TypeOK, Solicitud
<1>2. IsFiniteSet(sat[q].pkgs)
  BY <1>1, PipelineAssumption, FS_Subset
<1>. QED
  BY <1>2, FS_CardinalityType

\* What the handlers of a message may take for granted.
LEMMA Typed ==
  ASSUME TypeOK
  PROVE  /\ row \in [Query -> Row] /\ sat \in [Query -> Solicitud]
         /\ blob \in [Query -> SUBSET Package]
         /\ loaded \in [Query -> SUBSET Package]
         /\ now \in Nat
         /\ \A m \in queue.verify : m.q \in Query /\ m.at \in Nat
         /\ \A m \in queue.download \cup ToBeProcessed :
              m \in PackagesMsg /\ m.q \in Query
BY DEF TypeOK, Queues, VerifyQueryMsg, PackagesMsg, ToBeProcessed

LEMMA InvCreateQuery ==
  ASSUME IInv, TypeOK', NEW m, NEW q \in Query, CreateQuery(m, q)
  PROVE  IInv'
<1> USE DEF Known
<1>1. TypeOK /\ RowOK(q)
  BY DEF IInv
<1>2. ~Known(q) /\ sat[q].status = "NONE" /\ blob[q] = {} /\ sat[q].pkgs = {}
  BY <1>1 DEF CreateQuery, CreateQueryInCerts, CreateQueryInternal,
     CreateQuerySent, CreateQueryInterrupted, Fresh, RowOK, RowMatchesAnswer
<1>3. PICK state \in {"ERROR_IN_CERTS", "ERROR_SAT_WS_INTERNAL", "SENT", "DRAFT"},
           sent \in {NoDate, now} :
        /\ row' = [row EXCEPT ![q] = NewRow(m, state, sent)]
        /\ state = "SENT" => sent = now
  BY DEF CreateQuery, CreateQueryInCerts, CreateQueryInternal,
     CreateQuerySent, CreateQueryInterrupted
<1>4. /\ sat' \in {sat, [sat EXCEPT ![q] = Accepted]}
      /\ UNCHANGED <<blob, loaded, now>>
  BY DEF CreateQuery, CreateQueryInCerts, CreateQueryInternal,
     CreateQuerySent, CreateQueryInterrupted
<1>5. \A r \in Query \ {q} : Same(r)
  BY <1>1, <1>3, <1>4, Typed DEF Same
<1>6. Kept(q)
  BY <1>2, <1>4 DEF Kept
<1>7. /\ row'[q] = NewRow(m, state, sent)
      /\ sat'[q].status \in {"NONE", "PENDING"}
      /\ sat'[q].pkgs = {}
      /\ blob'[q] = {}
  BY <1>1, <1>2, <1>3, <1>4, Typed DEF Accepted, NoSolicitud
<1>8. RowOK(q)'
  <2>1. row'[q].pkgs = {} /\ row'[q].state = state /\ row'[q].sent = sent
    BY <1>7 DEF NewRow
  <2>2. state = "SENT" => sent # NoDate
    BY <1>1, <1>3, Typed DEF NoDate
  <2>. QED
    BY <1>7, <2>1, <2>2 DEF RowOK, RowMatchesAnswer, RowSafe
<1>9. MessagesOK
  <2>1. /\ queue'.download = queue.download
        /\ ToBeProcessed' = ToBeProcessed
    BY <1>1 DEF TypeOK, Queues, ToBeProcessed, CreateQuery, CreateQueryInCerts,
       CreateQueryInternal, CreateQuerySent, CreateQueryInterrupted
  <2>2. CASE CreateQuerySent(m, q)
    <3>1. PICK e \in Ends({[q |-> q, sent |-> now, at |-> now]}) :
            queue' = [queue EXCEPT !.create = Settle(@, m, e),
                                   !.verify = @ \cup e.pub]
      BY <2>2 DEF CreateQuerySent
    <3>2. queue'.verify \subseteq queue.verify \cup {[q |-> q, sent |-> now, at |-> now]}
      BY <1>1, <3>1, EndsPublishesSubset DEF TypeOK, Queues
    <3>3. row'[q].state = "SENT" /\ row'[q].sent = now /\ now' = now /\ now # NoDate
      BY <1>1, <2>2, Typed DEF CreateQuerySent, NewRow, NoDate
    <3>4. VerifyOK([q |-> q, sent |-> now, at |-> now])'
      BY <1>1, <3>3, Typed DEF VerifyOK
    <3>. QED
      BY <2>1, <3>2, <3>3, <3>4 DEF MessagesOK
  <2>3. CASE ~CreateQuerySent(m, q)
    <3>1. queue'.verify = queue.verify
      BY <1>1, <2>3 DEF TypeOK, Queues, CreateQuery, CreateQueryInCerts,
         CreateQueryInternal, CreateQueryInterrupted
    <3>. QED
      BY <2>1, <3>1 DEF MessagesOK
  <2>. QED
    BY <2>2, <2>3
<1>. QED
  BY <1>1, <1>4, <1>5, <1>6, <1>8, <1>9, OneRow, Typed

LEMMA InvVerifyQuery ==
  ASSUME IInv, TypeOK', NEW m \in queue.verify, VerifyQuery(m)
  PROVE  IInv'
<1> USE DEF Known
<1> DEFINE q == m.q
<1>1. /\ TypeOK /\ q \in Query /\ RowOK(q) /\ VerifyOK(m)
      /\ UNCHANGED <<sat, blob, loaded, now>>
  BY Typed DEF IInv, VerifyQuery, VerifyFinished, VerifyOverLimit, VerifyFailed,
     VerifyRetry, VerifyTimeLimit, VerifyDone
<1>2. SentDate(m) = row[q].sent /\ row[q].sent \in Nat /\ SentDate(m) # NoDate
  BY <1>1, Typed DEF VerifyOK, SentDate, Row, NoDate
<1>3. VerifyDone(m) => MessagesOK
  BY <1>1 DEF VerifyDone, MessagesOK, Settle, TypeOK, Queues, ToBeProcessed
<1>4. ASSUME NEW state, SetFinished(q, state)
      PROVE  /\ row'[q] = [row[q] EXCEPT !.state = state, !.pkgs = sat[q].pkgs]
             /\ \A r \in Query \ {q} : Same(r)
  <2>1. row[q].pkgs \subseteq sat[q].pkgs
    BY <1>1 DEF RowOK, RowMatchesAnswer
  <2>2. (IF sat[q].pkgs = {} THEN row[q].pkgs ELSE sat[q].pkgs) = sat[q].pkgs
    BY <2>1
  <2>3. row[q] \in Row /\ row \in [Query -> Row]
    BY <1>1, Typed
  <2>4. row' = [row EXCEPT ![q] = [row[q] EXCEPT !.state = state,
                  !.pkgs = IF sat[q].pkgs = {} THEN row[q].pkgs ELSE sat[q].pkgs]]
    BY <1>1, <1>4, <2>3 DEF SetFinished, Row
  <2>5. row' = [row EXCEPT ![q] = [row[q] EXCEPT !.state = state, !.pkgs = sat[q].pkgs]]
    BY <2>2, <2>4
  <2>. QED
    BY <1>1, <2>3, <2>5 DEF Same
<1>5. \A state : SetState(q, state) =>
        /\ row'[q] = [row[q] EXCEPT !.state = state]
        /\ \A r \in Query \ {q} : Same(r)
  BY <1>1, Typed DEF SetState, Same, Row
<1>6. row[q] \in Row
  BY <1>1, Typed
<1>7. CASE VerifyFinished(m)
  <2>1. /\ row'[q] = [row[q] EXCEPT !.state = "TO_DOWNLOAD", !.pkgs = sat[q].pkgs]
        /\ \A r \in Query \ {q} : Same(r)
    BY <1>4, <1>7 DEF VerifyFinished
  <2>2. Downloadable(q)'
    BY <1>1, <1>6, <1>7, <2>1, PackagesCounted, PipelineAssumption, Typed
       DEF VerifyFinished, OverLimit, Downloadable, Row, RequestType, Solicitud
  <2>3. Kept(q)
    BY <1>1, <1>6, <2>1, <2>2 DEF Kept, Row
  <2>4. RowOK(q)'
    BY <1>1, <1>6, <2>1, <2>2 DEF RowOK, RowMatchesAnswer, RowSafe, Row, VerifyOK,
       Downloadable
  <2>5. PICK e \in Ends({[q |-> q, pkgs |-> sat[q].pkgs]}) :
          queue' = [queue EXCEPT !.verify = Settle(@, m, e),
                                 !.download = @ \cup e.pub]
    BY <1>7 DEF VerifyFinished
  <2>6. PackagesOK([q |-> q, pkgs |-> sat[q].pkgs])'
    BY <1>1, <1>6, <2>1, <2>2 DEF PackagesOK, Row
  <2>7. /\ queue'.verify \subseteq queue.verify
        /\ queue'.download \subseteq queue.download \cup {[q |-> q, pkgs |-> sat[q].pkgs]}
        /\ ToBeProcessed' = ToBeProcessed
    BY <1>1, <2>5, EndsPublishesSubset, SettleSubset DEF TypeOK, Queues, ToBeProcessed
  <2>8. MessagesOK
    BY <1>1, <2>6, <2>7 DEF MessagesOK
  <2>. QED
    BY <1>1, <2>1, <2>3, <2>4, <2>8, OneRow, Typed
<1>8. CASE VerifyOverLimit(m)
  <2>1. /\ row'[q] = [row[q] EXCEPT !.state = "MANUALLY_CANCELLED", !.pkgs = sat[q].pkgs]
        /\ \A r \in Query \ {q} : Same(r)
    BY <1>4, <1>8 DEF VerifyOverLimit
  <2>2. Kept(q)
    BY <1>1, <1>6, <2>1 DEF Kept, Row, Downloadable
  <2>3. RowOK(q)'
    BY <1>1, <1>6, <2>1 DEF RowOK, RowMatchesAnswer, RowSafe, Row, VerifyOK,
       Downloadable
  <2>. QED
    BY <1>1, <1>3, <1>8, <2>1, <2>2, <2>3, OneRow, Typed DEF VerifyOverLimit
<1>9. ASSUME NEW state \in {"INFORMATION_NOT_FOUND", "ERROR_SAT_WS_INTERNAL",
                            "ERROR_TOO_BIG", "ERROR", "TIME_LIMIT_REACHED"},
             SetState(q, state), VerifyDone(m)
      PROVE  IInv'
  <2>1. /\ row'[q] = [row[q] EXCEPT !.state = state]
        /\ \A r \in Query \ {q} : Same(r)
    BY <1>5, <1>9
  <2>2. Kept(q)
    BY <1>1, <1>6, <2>1 DEF Kept, Row, Downloadable
  <2>3. RowOK(q)'
    BY <1>1, <1>6, <2>1 DEF RowOK, RowMatchesAnswer, RowSafe, Row, VerifyOK,
       Downloadable
  <2>. QED
    BY <1>1, <1>3, <1>9, <2>1, <2>2, <2>3, OneRow, Typed
<1>10. CASE VerifyFailed(m)
  <2>1. FailedState(sat[q]) \in {"INFORMATION_NOT_FOUND", "ERROR_SAT_WS_INTERNAL",
                                 "ERROR_TOO_BIG", "ERROR"}
    BY <1>1, Typed DEF FailedState, Solicitud
  <2>. QED
    BY <1>9, <1>10, <2>1 DEF VerifyFailed
<1>11. CASE VerifyTimeLimit(m)
  BY <1>9, <1>11 DEF VerifyTimeLimit
<1>12. CASE VerifyRetry(m)
  <2>. DEFINE elapsed == Elapsed(SentDate(m))
              delay   == VerifyBackoffDelay(elapsed)
              remain  == MaxWait - elapsed
              at      == now + (IF delay > remain THEN remain ELSE delay)
  <2>1. elapsed = now - row[q].sent
    BY <1>2 DEF Elapsed
  <2>2. at <= row[q].sent + MaxWait
    <3>1. delay \in {1, 2, 4}
      BY DEF VerifyBackoffDelay
    <3>2. remain \in Int /\ now + remain = row[q].sent + MaxWait
      BY <1>1, <1>2, <2>1, PipelineAssumption, Typed
    <3>3. at <= now + remain
      <4>. HIDE DEF delay, remain
      <4>. QED
        BY <1>1, <3>1, <3>2, Typed
    <3>. QED
      BY <3>2, <3>3
  <2>0. PICK next : next = [q |-> q, sent |-> SentDate(m), at |-> at]
    OBVIOUS
  <2>3. PICK e \in Ends({next}) :
          queue' = [queue EXCEPT !.verify = Settle(@, m, e) \cup e.pub]
    BY <1>12, <2>0 DEF VerifyRetry
  <2>4. UNCHANGED row
    BY <1>12 DEF VerifyRetry
  <2>5. next.q = q /\ next.sent = row[q].sent /\ next.at = at
    BY <1>2, <2>0
  <2>. HIDE DEF at
  <2>6. /\ queue'.verify \subseteq queue.verify \cup {next}
        /\ queue'.download = queue.download
        /\ ToBeProcessed' = ToBeProcessed
    BY <1>1, <2>3, EndsPublishesSubset, SettleSubset DEF TypeOK, Queues, ToBeProcessed
  <2>7. VerifyOK(next)'
    BY <1>1, <2>2, <2>4, <2>5 DEF VerifyOK
  <2>8. MessagesOK
    BY <2>6, <2>7 DEF MessagesOK
  <2>. QED
    BY <1>1, <2>4, <2>8, NoRow, Typed
<1>. QED
  BY <1>7, <1>8, <1>10, <1>11, <1>12 DEF VerifyQuery

LEMMA InvDownloadQuery ==
  ASSUME IInv, TypeOK', NEW m \in queue.download, DownloadQuery(m)
  PROVE  IInv'
<1> USE DEF Known
<1> DEFINE q == m.q
<1>1. /\ TypeOK /\ q \in Query /\ RowOK(q) /\ PackagesOK(m)
      /\ UNCHANGED <<sat, loaded, now>>
  BY Typed DEF IInv, DownloadQuery, DownloadStored, DownloadFailed, DownloadInterrupted
<1>2. row[q] \in Row
  BY <1>1, Typed
<1>3. \A some : Stored(m, some) =>
        /\ blob'[q] = blob[q] \cup some
        /\ some \subseteq m.pkgs
        /\ \A r \in Query \ {q} : blob'[r] = blob[r]
  BY <1>1, Typed DEF Stored
<1>4. \A state : row' = [row EXCEPT ![q].state = state, ![q].pkgs = m.pkgs] =>
        /\ row'[q] = [row[q] EXCEPT !.state = state, !.pkgs = m.pkgs]
        /\ \A r \in Query \ {q} : row'[r] = row[r]
  BY <1>1, Typed
<1>5. CASE DownloadStored(m)
  <2>1. /\ row'[q] = [row[q] EXCEPT !.state = "DOWNLOADED", !.pkgs = m.pkgs]
        /\ blob'[q] = blob[q] \cup m.pkgs
        /\ \A r \in Query \ {q} : Same(r)
    BY <1>1, <1>4, <1>5, Typed DEF DownloadStored, Same
  <2>2. Kept(q)
    BY <1>1, <1>2, <2>1 DEF Kept, Row, Downloadable, PackagesOK
  <2>3. RowOK(q)'
    BY <1>1, <1>2, <2>1 DEF RowOK, RowMatchesAnswer, RowSafe, Row, PackagesOK,
       Downloadable
  <2>4. PICK e \in Ends({m}) :
          queue' = [queue EXCEPT
            !.download = Settle(@, m, e),
            !.metadata = IF row[m.q].req = "METADATA" THEN @ \cup e.pub ELSE @,
            !.xml      = IF row[m.q].req = "CFDI" THEN @ \cup e.pub ELSE @]
    BY <1>5 DEF DownloadStored
  <2>5. /\ queue'.verify = queue.verify
        /\ queue'.download \subseteq queue.download
        /\ ToBeProcessed' \subseteq ToBeProcessed \cup {m}
    BY <1>1, <2>4, EndsPublishesSubset, SettleSubset DEF TypeOK, Queues, ToBeProcessed
  <2>6. StoredOK(m)'
    BY <1>1, <1>2, <2>1, <2>2 DEF StoredOK, PackagesOK, Kept, Row
  <2>7. MessagesOK
    BY <2>5, <2>6 DEF MessagesOK
  <2>. QED
    BY <1>1, <2>1, <2>2, <2>3, <2>7, OneRow, Typed
<1>6. DownloadFailed(m) \/ DownloadInterrupted(m) => MessagesOK
  BY <1>1 DEF DownloadFailed, DownloadInterrupted, MessagesOK, Settle, TypeOK,
     Queues, ToBeProcessed
<1>7. CASE DownloadFailed(m)
  <2>1. PICK some \in SUBSET m.pkgs : Stored(m, some)
    BY <1>7 DEF DownloadFailed
  <2>2. /\ row'[q] = [row[q] EXCEPT !.state = "ERROR", !.pkgs = m.pkgs]
        /\ blob'[q] = blob[q] \cup some
        /\ \A r \in Query \ {q} : Same(r)
    BY <1>1, <1>3, <1>4, <1>7, <2>1 DEF DownloadFailed, Same
  <2>3. Kept(q)
    BY <1>1, <1>2, <2>2 DEF Kept, Row, Downloadable, PackagesOK
  <2>4. RowOK(q)'
    BY <1>1, <1>2, <2>2 DEF RowOK, RowMatchesAnswer, RowSafe, Row, PackagesOK,
       Downloadable
  <2>. QED
    BY <1>1, <1>6, <1>7, <2>2, <2>3, <2>4, OneRow, Typed
<1>8. CASE DownloadInterrupted(m)
  <2>1. PICK some \in SUBSET m.pkgs : Stored(m, some)
    BY <1>8 DEF DownloadInterrupted
  <2>2. /\ row' = row
        /\ blob'[q] = blob[q] \cup some
        /\ \A r \in Query \ {q} : Same(r)
    BY <1>1, <1>3, <1>8, <2>1 DEF DownloadInterrupted, Same
  <2>3. Kept(q)
    BY <1>1, <2>2 DEF Kept, Downloadable
  <2>4. RowOK(q)'
    BY <1>1, <2>2 DEF RowOK, RowMatchesAnswer, RowSafe, PackagesOK, Downloadable
  <2>. QED
    BY <1>1, <1>6, <1>8, <2>2, <2>3, <2>4, OneRow, Typed
<1>. QED
  BY <1>5, <1>7, <1>8 DEF DownloadQuery

LEMMA InvProcess ==
  ASSUME IInv, TypeOK', NEW m \in ToBeProcessed, Process(m)
  PROVE  IInv'
<1> USE DEF Known
<1> DEFINE q == m.q
<1>1. TypeOK /\ q \in Query /\ RowOK(q) /\ StoredOK(m) /\ row[q] \in Row
  BY Typed DEF IInv
<1>2. /\ queue'.verify = queue.verify
      /\ queue'.download = queue.download
      /\ ToBeProcessed' \subseteq ToBeProcessed
  <2>1. CASE ProcessMetadata(m)
    BY <1>1, <2>1, SettleSubset DEF ProcessMetadata, TypeOK, Queues, ToBeProcessed
  <2>2. CASE ProcessXML(m)
    BY <1>1, <2>2, SettleSubset DEF ProcessXML, TypeOK, Queues, ToBeProcessed
  <2>3. CASE ProcessInterrupted(m)
    BY <2>3 DEF ProcessInterrupted, ToBeProcessed
  <2>. QED
    BY <2>1, <2>2, <2>3 DEF Process
<1>3. MessagesOK
  BY <1>2 DEF MessagesOK
\* Without unreadable packages the handler gets through all of them.
<1>4. ASSUME NEW done \in Readable(m), "package" \notin Faults
      PROVE  row[q].pkgs \subseteq done
  BY <1>1, <1>4 DEF Readable, ToProcess, StoredOK, PackagesOK
<1>5. ASSUME NEW done \in Readable(m), Processed(m, done)
      PROVE  IInv'
  <2>1. /\ row'[q] = [row[q] EXCEPT !.state = "PROCESSED"]
        /\ loaded'[q] = loaded[q] \cup done
        /\ \A r \in Query \ {q} : Same(r)
        /\ UNCHANGED <<sat, blob, now>>
    BY <1>1, <1>5, Typed DEF Processed, SetState, Same
  <2>2. Kept(q)
    BY <1>1, <2>1 DEF Kept, Row, Downloadable
  <2>3. RowMatchesAnswer(q)'
    BY <1>1, <2>1 DEF RowOK, RowMatchesAnswer, Row
  <2>4. RowSafe(q)'
    BY <1>1, <1>4, <2>1 DEF RowOK, RowSafe, Row, StoredOK, PackagesOK, Downloadable
  <2>5. now <= now'
    BY <1>1, <2>1, Typed
  <2>. QED
    BY <1>1, <1>3, <2>1, <2>2, <2>3, <2>4, <2>5, OneRow DEF RowOK
<1>6. CASE ProcessInterrupted(m)
  <2>1. /\ UNCHANGED <<row, sat, blob, now>>
        /\ loaded[q] \subseteq loaded'[q]
        /\ \A r \in Query \ {q} : Same(r)
    BY <1>1, <1>6, Typed DEF ProcessInterrupted, Same
  <2>2. Kept(q)
    BY <1>1, <2>1 DEF Kept, Downloadable
  <2>3. RowOK(q)'
    BY <1>1, <2>1 DEF RowOK, RowMatchesAnswer, RowSafe, Downloadable
  <2>. QED
    BY <1>1, <1>3, <2>1, <2>2, <2>3, OneRow, Typed
<1>. QED
  BY <1>5, <1>6 DEF Process, ProcessMetadata, ProcessXML

\* What only asks for new queries, and the clock.
LEMMA InvRequests ==
  ASSUME IInv, TypeOK',
         \/ \E m \in queue.sendMetadata : SendQueryMetadata(m)
         \/ \E m \in queue.complete : CompleteCFDIs(m)
         \/ CompanyCreated \/ Cron \/ AdminEnqueue \/ Tick
  PROVE  IInv'
<1>1. TypeOK
  BY DEF IInv
<1>2. UNCHANGED <<row, sat, blob, loaded>> /\ now <= now'
  <2>1. now \in Nat
    BY <1>1, Typed
  <2>2. CASE Tick
    BY <2>1, <2>2 DEF Tick
  <2>3. CASE ~Tick
    <3>1. UNCHANGED <<row, sat, blob, loaded, now>>
      BY <2>3, Zenon DEF SendQueryMetadata, CompleteCFDIs, CompanyCreated, Cron,
         AdminEnqueue
    <3>. QED
      BY <2>1, <3>1
  <2>. QED
    BY <2>2, <2>3
<1>3. /\ queue'.verify = queue.verify
      /\ queue'.download = queue.download
      /\ ToBeProcessed' = ToBeProcessed
  BY <1>1 DEF SendQueryMetadata, CompleteCFDIs, CompanyCreated, Cron, AdminEnqueue,
     Tick, TypeOK, Queues, ToBeProcessed
<1>. QED
  BY <1>2, <1>3, NoRow DEF MessagesOK

\* A reverification carries the sent date of its row and is due at once.
LEMMA InvManual ==
  ASSUME IInv, TypeOK', Manual
  PROVE  IInv'
<1>1. TypeOK /\ UNCHANGED <<row, sat, blob, loaded, now>>
  BY DEF IInv, Manual
<1>2. PICK verify \in Sent(Reverifications) :
        /\ queue'.verify = queue.verify \cup verify
        /\ queue'.download = queue.download
        /\ ToBeProcessed' = ToBeProcessed
  BY <1>1 DEF Manual, TypeOK, Queues, ToBeProcessed
<1>3. ASSUME NEW m \in verify
      PROVE  VerifyOK(m)'
  <2>1. m \in Reverifications
    BY <1>2, <1>3, SentSubset
  <2>2. PICK q \in Query : /\ m = [q |-> q, sent |-> row[q].sent, at |-> now]
                           /\ row[q].state \in {"SENT", "TIME_LIMIT_REACHED"}
    BY <2>1 DEF Reverifications
  <2>3. m.q = q /\ m.sent = row[q].sent /\ m.at = now
    BY <2>2
  <2>4. row[q].sent # NoDate /\ row[q].state # "ABSENT"
    BY <2>2 DEF IInv, RowOK, RowMatchesAnswer
  <2>. QED
    BY <1>1, <2>3, <2>4, Typed DEF VerifyOK, Known
<1>4. MessagesOK
  BY <1>2, <1>3 DEF MessagesOK
<1>. QED
  BY <1>1, <1>4, NoRow, Typed

LEMMA InvSat ==
  ASSUME IInv, TypeOK', NEW q \in Query, SatAnswers(q) \/ SatExpires(q)
  PROVE  IInv'
<1> USE DEF Known
<1>1. TypeOK /\ RowOK(q) /\ UNCHANGED <<row, blob, loaded, queue, now>>
  BY DEF IInv, SatAnswers, SatExpires
<1>2. MessagesOK
  BY <1>1 DEF MessagesOK, ToBeProcessed
<1>3. CASE SatAnswers(q)
  <2>1. PICK a \in Answer : sat' = [sat EXCEPT ![q] = a]
    BY <1>3 DEF SatAnswers
  <2>2. a.status \in {"FINISHED", "FAILED"}
    BY PipelineAssumption DEF Verdict
  <2>3. sat'[q] = a /\ \A r \in Query \ {q} : Same(r)
    BY <1>1, <2>1, Typed DEF Same
  <2>4. sat[q].status = "PENDING" /\ ~Downloadable(q)
    BY <1>3 DEF SatAnswers, Downloadable
  <2>5. Kept(q)
    BY <1>1, <2>4 DEF Kept
  <2>6. RowOK(q)'
    BY <1>1, <2>2, <2>3, <2>4 DEF RowOK, RowMatchesAnswer, RowSafe
  <2>. QED
    BY <1>1, <1>2, <2>3, <2>5, <2>6, OneRow, Typed
<1>4. CASE SatExpires(q)
  <2>1. /\ sat[q].status = "FINISHED"
        /\ sat'[q] = [sat[q] EXCEPT !.status = "EXPIRED", !.code = "OTHER"]
        /\ \A r \in Query \ {q} : Same(r)
    BY <1>1, <1>4, Typed DEF SatExpires, Same
  <2>2. sat'[q].status = "EXPIRED" /\ sat'[q].pkgs = sat[q].pkgs /\ sat'[q].qty = sat[q].qty
    BY <1>1, <2>1, Typed DEF Solicitud
  <2>3. Kept(q)
    BY <1>1, <2>1, <2>2 DEF Kept, Downloadable
  <2>4. RowOK(q)'
    BY <1>1, <2>1, <2>2 DEF RowOK, RowMatchesAnswer, RowSafe, Downloadable
  <2>. QED
    BY <1>1, <1>2, <2>1, <2>3, <2>4, OneRow, Typed
<1>. QED
  BY <1>3, <1>4

-----------------------------------------------------------------------------
(* The theorems *)

\* The invariant the safety theorems rest on: every row agrees with the SAT's
\* answer and every message in flight with its row, whatever is lost, delivered
\* again or late.
THEOREM Invariance == Spec => []IInv
<1>1. IInv /\ [Next]_vars => IInv'
  <2>1. CASE UNCHANGED vars
    BY <2>1 DEF vars, IInv, TypeOK, RowOK, RowMatchesAnswer, RowSafe, Known,
       VerifyOK, PackagesOK, StoredOK, ToBeProcessed, Downloadable
  <2>2. ASSUME IInv, Next
        PROVE  IInv'
    <3>1. TypeOK'
      BY <2>2, TypeCreate, TypeVerify, TypeDownload, TypeProcess, TypeComplete,
         TypePublishers, TypeEnvironment DEF IInv, Next, Worker
    <3>2. CASE Worker
      BY <2>2, <3>1, <3>2, InvCreateQuery, InvVerifyQuery, InvDownloadQuery,
         InvProcess, InvRequests DEF Worker, ToBeProcessed
    <3>3. CASE Publishers
      BY <2>2, <3>1, <3>3, InvRequests, InvManual DEF Publishers
    <3>4. CASE Environment
      BY <2>2, <3>1, <3>4, InvRequests, InvSat DEF Environment
    <3>. QED
      BY <2>2, <3>2, <3>3, <3>4 DEF Next
  <2>. QED
    BY <2>1, <2>2
<1>. QED
  BY <1>1, InvInit, PTL DEF Spec

\* Nothing is downloaded, stored or marked past verification that the SAT did
\* not finish within the limits of handleFinished.
THEOREM OnlyFinishedIsDownloadedHolds == Spec => []OnlyFinishedIsDownloaded
<1>1. IInv => OnlyFinishedIsDownloaded
  BY DEF IInv, RowOK, RowSafe, OnlyFinishedIsDownloaded
<1>. QED
  BY <1>1, Invariance, PTL

\* What DownloadQuery announces is in storage, whatever a crash, an error of one
\* goroutine or an expired solicitud did before.
THEOREM StoredBeforeProcessedHolds == Spec => []StoredBeforeProcessed
<1>1. IInv => StoredBeforeProcessed
  BY DEF IInv, RowOK, RowSafe, StoredOK, StoredBeforeProcessed
<1>. QED
  BY <1>1, Invariance, PTL

\* Without unreadable packages, a processed row has all its records loaded.
THEOREM ProcessedIsLoadedHolds == Spec => []ProcessedIsLoaded
<1>1. IInv => ProcessedIsLoaded
  BY DEF IInv, RowOK, RowSafe, ProcessedIsLoaded
<1>. QED
  BY <1>1, Invariance, PTL

\* No verification is scheduled past the limit that starts at sent_date.
THEOREM VerifyWithinLimitHolds == Spec => []VerifyWithinLimit
<1>1. IInv => VerifyWithinLimit
  BY DEF IInv, VerifyOK, VerifyWithinLimit
<1>. QED
  BY <1>1, Invariance, PTL

-----------------------------------------------------------------------------
(* Exactly-once delivery *)

\* The messages of Q are about rows in one state, and no two about one row.
Carries(Q, rows, state) ==
  /\ \A m \in Q : rows[m.q].state = state
  /\ \A m, n \in Q : m.q = n.q => m = n

\* A query has one message in flight, in the queue that belongs to its state.
Once ==
  /\ TypeOK
  /\ Carries(queue.verify, row, "SENT")
  /\ Carries(queue.download, row, "TO_DOWNLOAD")
  /\ Carries(ToBeProcessed, row, "DOWNLOADED")
  /\ \A m \in queue.metadata : row[m.q].req = "METADATA"
  /\ \A m \in queue.xml : row[m.q].req = "CFDI"

\* What a step may make of the state of a row.
Forward(q) ==
  row'[q].state # row[q].state =>
    \/ \E i, j \in 1..5 : /\ i < j
                         /\ row[q].state = Progress[i]
                         /\ row'[q].state = Progress[j]
    \/ /\ row[q].state \in {"ABSENT"} \cup Temporary
       /\ row'[q].state \notin Temporary

LEMMA SettleOnce ==
  ASSUME "redeliver" \notin Faults, NEW S, NEW e \in Ends(S), NEW Q, NEW m
  PROVE  Settle(Q, m, e) = Q \ {m} /\ e.pub \subseteq S
BY DEF Ends, Settle

\* The queues of messages about a row of this query hold none.
LEMMA NoneOf ==
  ASSUME NEW Q, NEW rows, NEW state, NEW q0, Carries(Q, rows, state),
         rows[q0].state # state
  PROVE  \A m \in Q : m.q # q0
BY DEF Carries

LEMMA OnceCreate ==
  ASSUME Once, TypeOK', "redeliver" \notin Faults,
         NEW m \in queue.create, NEW q0 \in Query, CreateQuery(m, q0)
  PROVE  Once' /\ \A q \in Query : Forward(q)
<1>1. /\ row[q0].state = "ABSENT"
      /\ \A q \in Query \ {q0} : row'[q] = row[q]
      /\ row'[q0].state \in {"ERROR_IN_CERTS", "ERROR_SAT_WS_INTERNAL", "SENT"}
      /\ queue'.download = queue.download
      /\ queue'.metadata = queue.metadata /\ queue'.xml = queue.xml
      /\ \/ queue'.verify = queue.verify
         \/ /\ row'[q0].state = "SENT"
            /\ queue'.verify \subseteq queue.verify \cup {[q |-> q0, sent |-> now, at |-> now]}
  <2>1. CASE CreateQueryInCerts(m, q0)
    BY <2>1 DEF CreateQueryInCerts, Fresh, NewRow, Once, TypeOK, Queues
  <2>2. CASE CreateQueryInternal(m, q0)
    BY <2>2 DEF CreateQueryInternal, Fresh, NewRow, Once, TypeOK, Queues
  <2>3. CASE CreateQuerySent(m, q0)
    BY <2>3, EndsPublishesSubset DEF CreateQuerySent, Fresh, NewRow, Once, TypeOK, Queues
  <2> QED
    BY <2>1, <2>2, <2>3 DEF CreateQuery, CreateQueryInterrupted
<1>2. \A n \in queue.verify \cup queue.download \cup ToBeProcessed : n.q # q0 /\ n.q \in Query
  BY <1>1, NoneOf DEF Once, TypeOK, Queues, VerifyQueryMsg, PackagesMsg, ToBeProcessed
<1>3. Carries(queue'.verify, row', "SENT")
  BY <1>1, <1>2 DEF Once, Carries
<1>4. Carries(queue'.download, row', "TO_DOWNLOAD")
  BY <1>1, <1>2 DEF Once, Carries
<1>5. Carries(ToBeProcessed', row', "DOWNLOADED")
  BY <1>1, <1>2 DEF Once, Carries, ToBeProcessed
<1>6. \A q \in Query : Forward(q)
  <2>1. Progress[1] = "ABSENT" /\ Progress[2] = "SENT"
    BY DEF Progress
  <2> QED
    BY <1>1, <2>1 DEF Forward, Temporary
<1> QED
  BY <1>1, <1>2, <1>3, <1>4, <1>5, <1>6 DEF Once, ToBeProcessed

LEMMA OnceVerify ==
  ASSUME Once, TypeOK', "redeliver" \notin Faults,
         NEW m \in queue.verify, VerifyQuery(m)
  PROVE  Once' /\ \A q \in Query : Forward(q)
<1>1. /\ m.q \in Query /\ row[m.q].state = "SENT"
      /\ \A n \in queue.verify : n.q \in Query /\ (n.q = m.q => n = m)
      /\ \A n \in queue.download \cup ToBeProcessed : n.q # m.q /\ n.q \in Query
  BY NoneOf DEF Once, Carries, TypeOK, Queues, VerifyQueryMsg, PackagesMsg, ToBeProcessed
<1>2. /\ \A q \in Query \ {m.q} : row'[q] = row[q]
      /\ queue'.metadata = queue.metadata /\ queue'.xml = queue.xml
      /\ \/ /\ row'[m.q].state \notin Temporary
            /\ queue'.verify = queue.verify \ {m} /\ queue'.download = queue.download
         \/ /\ row'[m.q].state = "TO_DOWNLOAD"
            /\ queue'.verify = queue.verify \ {m}
            /\ queue'.download \subseteq queue.download \cup {[q |-> m.q, pkgs |-> sat[m.q].pkgs]}
         \/ /\ UNCHANGED row
            /\ queue'.download = queue.download
            /\ \E n : n.q = m.q /\ queue'.verify \subseteq (queue.verify \ {m}) \cup {n}
  <2> USE <1>1 DEF Once, TypeOK, Queues, Row
  <2>1. CASE VerifyFinished(m)
    <3>1. PICK e \in Ends({[q |-> m.q, pkgs |-> sat[m.q].pkgs]}) :
            queue' = [queue EXCEPT !.verify = Settle(@, m, e), !.download = @ \cup e.pub]
      BY <2>1 DEF VerifyFinished
    <3>2. /\ queue'.verify = queue.verify \ {m}
          /\ queue'.download \subseteq queue.download \cup {[q |-> m.q, pkgs |-> sat[m.q].pkgs]}
      BY <3>1, SettleOnce
    <3> QED
      BY <2>1, <3>1, <3>2 DEF VerifyFinished, SetFinished
  <2>2. CASE VerifyOverLimit(m) \/ VerifyFailed(m) \/ VerifyTimeLimit(m)
    <3>1. PICK e \in Ends({}) : queue' = [queue EXCEPT !.verify = Settle(@, m, e)]
      BY <2>2 DEF VerifyOverLimit, VerifyFailed, VerifyTimeLimit, VerifyDone
    <3>2. queue'.verify = queue.verify \ {m} /\ queue'.download = queue.download
      BY <3>1, SettleOnce
    <3>3. /\ \A q \in Query \ {m.q} : row'[q] = row[q]
          /\ row'[m.q].state \in {"MANUALLY_CANCELLED", "TIME_LIMIT_REACHED", FailedState(sat[m.q])}
      BY <2>2 DEF VerifyOverLimit, VerifyFailed, VerifyTimeLimit, SetFinished, SetState
    <3>4. row'[m.q].state \notin Temporary
      BY <3>3 DEF FailedState, Temporary
    <3> QED
      BY <3>1, <3>2, <3>3, <3>4
  <2>3. CASE VerifyRetry(m)
    <3> DEFINE elapsed == Elapsed(SentDate(m))
               delay   == VerifyBackoffDelay(elapsed)
               remain  == MaxWait - elapsed
               next == [q |-> m.q, sent |-> SentDate(m),
                        at |-> now + (IF delay > remain THEN remain ELSE delay)]
    <3>1. PICK e \in Ends({next}) :
            queue' = [queue EXCEPT !.verify = Settle(@, m, e) \cup e.pub]
      BY <2>3 DEF VerifyRetry
    <3>2. next.q = m.q
      OBVIOUS
    <3> HIDE DEF next
    <3>3. queue'.verify \subseteq (queue.verify \ {m}) \cup {next}
      BY <3>1, SettleOnce
    <3>4. UNCHANGED row
      BY <2>3 DEF VerifyRetry
    <3> QED
      BY <3>1, <3>2, <3>3, <3>4
  <2> QED
    BY <2>1, <2>2, <2>3 DEF VerifyQuery
<1>3. Carries(queue'.verify, row', "SENT")
  BY <1>1, <1>2 DEF Once, Carries
<1>4. Carries(queue'.download, row', "TO_DOWNLOAD")
  BY <1>1, <1>2 DEF Once, Carries
<1>5. Carries(ToBeProcessed', row', "DOWNLOADED")
  BY <1>1, <1>2 DEF Once, Carries, ToBeProcessed
<1>6. \A q \in Query : Forward(q)
  <2>1. Progress[2] = "SENT" /\ Progress[3] = "TO_DOWNLOAD"
    BY DEF Progress
  <2> QED
    BY <1>1, <1>2, <2>1 DEF Forward, Temporary
<1> QED
  BY <1>1, <1>2, <1>3, <1>4, <1>5, <1>6 DEF Once, ToBeProcessed

LEMMA OnceDownload ==
  ASSUME Once, TypeOK', "redeliver" \notin Faults,
         NEW m \in queue.download, DownloadQuery(m)
  PROVE  Once' /\ \A q \in Query : Forward(q)
<1>1. /\ m.q \in Query /\ row[m.q].state = "TO_DOWNLOAD"
      /\ \A n \in queue.download : n.q \in Query /\ (n.q = m.q => n = m)
      /\ \A n \in queue.verify \cup ToBeProcessed : n.q # m.q /\ n.q \in Query
  BY NoneOf DEF Once, Carries, TypeOK, Queues, VerifyQueryMsg, PackagesMsg, ToBeProcessed
<1>2. /\ \A q \in Query \ {m.q} : row'[q] = row[q]
      /\ row'[m.q].req = row[m.q].req
      /\ queue'.verify = queue.verify
      /\ queue'.download = queue.download \ {m}
      /\ \/ /\ row'[m.q].state = "ERROR"
            /\ queue'.metadata = queue.metadata /\ queue'.xml = queue.xml
         \/ /\ row'[m.q].state = "DOWNLOADED"
            /\ queue'.metadata \subseteq queue.metadata \cup
                 (IF row[m.q].req = "METADATA" THEN {m} ELSE {})
            /\ queue'.xml \subseteq queue.xml \cup (IF row[m.q].req = "CFDI" THEN {m} ELSE {})
  <2> USE <1>1 DEF Once, TypeOK, Queues, Row
  <2>1. CASE DownloadStored(m)
    <3>1. PICK e \in Ends({m}) : queue' = [queue EXCEPT
            !.download = Settle(@, m, e),
            !.metadata = IF row[m.q].req = "METADATA" THEN @ \cup e.pub ELSE @,
            !.xml      = IF row[m.q].req = "CFDI" THEN @ \cup e.pub ELSE @]
      BY <2>1 DEF DownloadStored
    <3>2. Settle(queue.download, m, e) = queue.download \ {m} /\ e.pub \subseteq {m}
      BY <3>1, SettleOnce
    <3>3. /\ queue'.verify = queue.verify
          /\ queue'.download = queue.download \ {m}
          /\ queue'.metadata = IF row[m.q].req = "METADATA" THEN queue.metadata \cup e.pub
                                                           ELSE queue.metadata
          /\ queue'.xml = IF row[m.q].req = "CFDI" THEN queue.xml \cup e.pub ELSE queue.xml
      BY <3>1, <3>2
    <3>4. /\ \A q \in Query \ {m.q} : row'[q] = row[q]
          /\ row'[m.q].state = "DOWNLOADED" /\ row'[m.q].req = row[m.q].req
      BY <2>1 DEF DownloadStored
    <3> QED
      BY <3>2, <3>3, <3>4
  <2>2. CASE DownloadFailed(m)
    <3>1. PICK e \in Ends({}) : queue' = [queue EXCEPT !.download = Settle(@, m, e)]
      BY <2>2 DEF DownloadFailed
    <3>2. queue'.download = queue.download \ {m}
      BY <3>1, SettleOnce
    <3> QED
      BY <2>2, <3>1, <3>2 DEF DownloadFailed
  <2> QED
    BY <2>1, <2>2 DEF DownloadQuery, DownloadInterrupted
<1>3. Carries(queue'.verify, row', "SENT")
  BY <1>1, <1>2 DEF Once, Carries
<1>4. Carries(queue'.download, row', "TO_DOWNLOAD")
  BY <1>1, <1>2 DEF Once, Carries
<1>5. Carries(ToBeProcessed', row', "DOWNLOADED")
  <2>1. ToBeProcessed' \subseteq ToBeProcessed \cup {m}
    BY <1>2 DEF ToBeProcessed
  <2>2. row'[m.q].state = "ERROR" => ToBeProcessed' = ToBeProcessed
    BY <1>2 DEF ToBeProcessed
  <2> QED
    BY <1>1, <1>2, <2>1, <2>2 DEF Once, Carries
<1>6. \A q \in Query : Forward(q)
  <2>1. Progress[3] = "TO_DOWNLOAD" /\ Progress[4] = "DOWNLOADED"
    BY DEF Progress
  <2> QED
    BY <1>1, <1>2, <2>1 DEF Forward, Temporary
<1> QED
  BY <1>1, <1>2, <1>3, <1>4, <1>5, <1>6 DEF Once, ToBeProcessed

LEMMA OnceProcess ==
  ASSUME Once, TypeOK', "redeliver" \notin Faults,
         NEW m \in ToBeProcessed, Process(m)
  PROVE  Once' /\ \A q \in Query : Forward(q)
<1>1. /\ m.q \in Query /\ row[m.q].state = "DOWNLOADED"
      /\ \A n \in ToBeProcessed : n.q \in Query /\ (n.q = m.q => n = m)
      /\ \A n \in queue.verify \cup queue.download : n.q # m.q /\ n.q \in Query
  BY NoneOf DEF Once, Carries, TypeOK, Queues, VerifyQueryMsg, PackagesMsg, ToBeProcessed
<1>2. /\ row' = [row EXCEPT ![m.q].state = "PROCESSED"]
      /\ queue'.verify = queue.verify
      /\ queue'.download = queue.download
      /\ ToBeProcessed' = ToBeProcessed \ {m}
      /\ queue'.metadata \subseteq queue.metadata /\ queue'.xml \subseteq queue.xml
  <2> USE <1>1 DEF Once, TypeOK, Queues, Row
  <2>1. CASE ProcessMetadata(m)
    <3>1. PICK e \in Ends({[dl |-> "NONE", window |-> "ZERO"]}) :
            queue' = [queue EXCEPT !.metadata = Settle(@, m, e), !.complete = @ \cup e.pub]
      BY <2>1 DEF ProcessMetadata
    <3>2. queue'.metadata = queue.metadata \ {m}
      BY <3>1, SettleOnce
    <3>3. m \notin queue.xml
      BY <2>1 DEF ProcessMetadata
    <3> QED
      BY <2>1, <3>1, <3>2, <3>3 DEF ProcessMetadata, Processed, SetState, ToBeProcessed
  <2>2. CASE ProcessXML(m)
    <3>1. PICK e \in Ends({}) : queue' = [queue EXCEPT !.xml = Settle(@, m, e)]
      BY <2>2 DEF ProcessXML
    <3>2. queue'.xml = queue.xml \ {m}
      BY <3>1, SettleOnce
    <3>3. m \notin queue.metadata
      BY <2>2 DEF ProcessXML
    <3> QED
      BY <2>2, <3>1, <3>2, <3>3 DEF ProcessXML, Processed, SetState, ToBeProcessed
  <2> QED
    BY <2>1, <2>2 DEF Process, ProcessInterrupted
<1>3. /\ \A q \in Query \ {m.q} : row'[q] = row[q]
      /\ row'[m.q].state = "PROCESSED"
  BY <1>1, <1>2 DEF Once, TypeOK, Row
<1>4. Carries(queue'.verify, row', "SENT") /\ Carries(queue'.download, row', "TO_DOWNLOAD")
  BY <1>1, <1>2, <1>3 DEF Once, Carries
<1>5. Carries(ToBeProcessed', row', "DOWNLOADED")
  BY <1>1, <1>2, <1>3 DEF Once, Carries
<1>6. \A q \in Query : Forward(q)
  <2>1. Progress[4] = "DOWNLOADED" /\ Progress[5] = "PROCESSED"
    BY DEF Progress
  <2> QED
    BY <1>1, <1>3, <2>1 DEF Forward, Temporary
<1>7. \A n \in queue.metadata' \cup queue.xml' : row'[n.q].req = row[n.q].req
  BY <1>1, <1>2 DEF Once, TypeOK, Row, ToBeProcessed
<1> QED
  BY <1>2, <1>4, <1>5, <1>6, <1>7 DEF Once

\* The other steps leave the rows and these queues as they are.
LEMMA OnceOthers ==
  ASSUME Once, TypeOK', "manual" \notin Sources,
         \/ \E m \in queue.sendMetadata : SendQueryMetadata(m)
         \/ \E m \in queue.complete : CompleteCFDIs(m)
         \/ Publishers
         \/ Environment
         \/ UNCHANGED vars
  PROVE  Once' /\ \A q \in Query : Forward(q)
<1>1. /\ UNCHANGED row
      /\ queue'.verify = queue.verify /\ queue'.download = queue.download
      /\ queue'.metadata = queue.metadata /\ queue'.xml = queue.xml
  <2> USE DEF Once, TypeOK, Queues
  <2>1. CASE \E m \in queue.sendMetadata : SendQueryMetadata(m)
    BY <2>1 DEF SendQueryMetadata
  <2>2. CASE \E m \in queue.complete : CompleteCFDIs(m)
    BY <2>2 DEF CompleteCFDIs
  <2>3. CASE CompanyCreated
    BY <2>3 DEF CompanyCreated
  <2>4. CASE Cron
    BY <2>4 DEF Cron
  <2>5. CASE AdminEnqueue
    BY <2>5 DEF AdminEnqueue
  <2>6. CASE Environment \/ UNCHANGED vars
    BY <2>6 DEF Environment, SatAnswers, SatExpires, Tick, vars
  <2> QED
    BY <2>1, <2>2, <2>3, <2>4, <2>5, <2>6 DEF Publishers, Manual
<1> QED
  BY <1>1 DEF Once, Forward, ToBeProcessed

\* With exactly-once delivery and without reverifications a row only moves forward: no
\* handler overwrites what a later one wrote, and a final state stays (ForwardOnly),
\* although messages are lost and packages cannot be read.
THEOREM ForwardOnlyHolds ==
  "redeliver" \notin Faults /\ "manual" \notin Sources => (Spec => ForwardOnly)
<1> SUFFICES ASSUME "redeliver" \notin Faults, "manual" \notin Sources
             PROVE  Spec => ForwardOnly
  OBVIOUS
<1> DEFINE Step == \A q \in Query : Forward(q)
<1>1. Init => Once
  BY TypeInit DEF Init, Once, Carries, ToBeProcessed
<1>2. Once /\ TypeOK' /\ [Next]_vars => Once' /\ Step
  BY OnceCreate, OnceVerify, OnceDownload, OnceProcess, OnceOthers
     DEF Next, Worker, ToBeProcessed
<1>3. [Step]_row => [\A q \in Query : row'[q].state # row[q].state =>
       \/ \E i, j \in 1..5 : /\ i < j
                            /\ row[q].state = Progress[i]
                            /\ row'[q].state = Progress[j]
       \/ /\ row[q].state \in {"ABSENT"} \cup Temporary
          /\ row'[q].state \notin Temporary]_row
  BY DEF Forward
<1> HIDE DEF Step
<1> QED
  BY <1>1, <1>2, <1>3, TypeCorrect, PTL DEF Spec, ForwardOnly

-----------------------------------------------------------------------------
(* The implementation of QueryLife *)

Phase  == [q \in Query |-> Shown(row[q].state)]
Usable == {q \in Query : Downloadable(q)}
Offer  == [q \in Query |-> IF Downloadable(q) THEN sat[q].pkgs ELSE {}]

lifeVars == <<Phase, Usable, Offer, blob, loaded>>

\* A step that writes one row shows that row's new state, and no other.
LEMMA PhaseStep ==
  ASSUME NEW q \in Query, \A r \in Query \ {q} : row'[r].state = row[r].state
  PROVE  Phase' = [Phase EXCEPT ![q] = Shown(row'[q].state)]
BY DEF Phase

\* What may be downloaded changes only with the SAT's answer.
LEMMA UsableKept ==
  ASSUME \A r \in Query : /\ sat'[r] = sat[r] \/ {sat'[r].status, sat[r].status} \subseteq {"NONE", "PENDING"}
                          /\ row'[r].req = row[r].req \/ sat[r].status \in {"NONE", "PENDING"}
  PROVE  UNCHANGED <<Usable, Offer>>
<1>1. \A r \in Query : /\ Downloadable(r)' <=> Downloadable(r)
                       /\ Downloadable(r) => sat'[r].pkgs = sat[r].pkgs
  BY DEF Downloadable
<1> QED
  BY <1>1 DEF Usable, Offer

\* CreateQuery asks for a query that nobody has asked for.
LEMMA CreateImplements ==
  ASSUME IInv, NEW m, NEW q \in Query, CreateQuery(m, q)
  PROVE  Life!Ask(q)
<1>1. /\ row[q].state = "ABSENT" /\ sat[q].status = "NONE"
      /\ row \in [Query -> Row] /\ sat \in [Query -> Solicitud]
  BY DEF CreateQuery, CreateQueryInCerts, CreateQueryInternal, CreateQuerySent,
     CreateQueryInterrupted, Fresh, IInv, TypeOK, RowOK, RowMatchesAnswer, Known
<1>2. PICK state \in {"ERROR_IN_CERTS", "ERROR_SAT_WS_INTERNAL", "SENT", "DRAFT"}, sent \in {NoDate, now} :
        row' = [row EXCEPT ![q] = NewRow(m, state, sent)]
  BY DEF CreateQuery, CreateQueryInCerts, CreateQueryInternal, CreateQuerySent,
     CreateQueryInterrupted
<1>3. sat' \in {sat, [sat EXCEPT ![q] = Accepted]} /\ UNCHANGED <<blob, loaded>>
  BY DEF CreateQuery, CreateQueryInCerts, CreateQueryInternal, CreateQuerySent,
     CreateQueryInterrupted
<1>4. row'[q].state = state /\ \A r \in Query \ {q} : row'[r] = row[r]
  BY <1>1, <1>2 DEF NewRow
<1>5. /\ sat'[q].status \in {"NONE", "PENDING"}
      /\ \A r \in Query \ {q} : sat'[r] = sat[r]
  BY <1>1, <1>3 DEF Accepted, NoSolicitud
<1>6. UNCHANGED <<Usable, Offer>>
  BY <1>1, <1>4, <1>5, UsableKept
<1>7. Phase[q] = "absent" /\ Shown(state) \in {"waiting", "ended"}
  BY <1>1 DEF Phase, Shown
<1>8. Phase' = [Phase EXCEPT ![q] = Shown(state)]
  BY <1>4, PhaseStep
<1> QED
  BY <1>3, <1>6, <1>7, <1>8 DEF Life!Ask, Life!Show, Phase, Usable, Offer

\* A verification finds the packages, ends the query, or changes nothing it shows.
LEMMA VerifyImplements ==
  ASSUME IInv, NEW m \in queue.verify, VerifyQuery(m)
  PROVE  Life!Next \/ UNCHANGED lifeVars
<1> DEFINE q == m.q
<1>1. /\ TypeOK /\ q \in Query /\ VerifyOK(m) /\ row[q] \in Row
      /\ row \in [Query -> Row]
      /\ UNCHANGED <<sat, blob, loaded>>
  BY Typed DEF IInv, VerifyQuery, VerifyFinished, VerifyOverLimit, VerifyFailed,
     VerifyRetry, VerifyTimeLimit, VerifyDone
<1>2. Phase[q] # "absent"
  BY <1>1 DEF VerifyOK, Known, Phase, Shown, Row, QueryState
<1>3. \A state : SetFinished(q, state) \/ SetState(q, state) =>
        /\ row'[q].state = state /\ row'[q].req = row[q].req
        /\ \A r \in Query \ {q} : row'[r] = row[r]
  BY <1>1 DEF SetFinished, SetState, Row
<1>4. ASSUME NEW state, SetFinished(q, state) \/ SetState(q, state)
      PROVE  /\ Phase' = [Phase EXCEPT ![q] = Shown(state)]
             /\ UNCHANGED <<Usable, Offer, blob, loaded>>
  BY <1>1, <1>3, <1>4, PhaseStep, UsableKept
<1>5. CASE VerifyFinished(m)
  <2>1. q \in Usable
    BY <1>1, <1>5, PackagesCounted, PipelineAssumption, Typed
       DEF VerifyFinished, OverLimit, Usable, Downloadable, Row, RequestType, Solicitud
  <2>2. Phase' = [Phase EXCEPT ![q] = "found"] /\ UNCHANGED <<Usable, Offer, blob, loaded>>
    BY <1>4, <1>5 DEF VerifyFinished, Shown
  <2>3. Life!Find(q)
    BY <2>1, <2>2 DEF Life!Find, Life!Show, Phase, Usable, Offer
  <2> QED
    BY <1>1, <2>3 DEF Life!Next
<1>6. ASSUME NEW state \in {"MANUALLY_CANCELLED", "INFORMATION_NOT_FOUND",
                            "ERROR_SAT_WS_INTERNAL", "ERROR_TOO_BIG", "ERROR",
                            "TIME_LIMIT_REACHED"},
             SetFinished(q, state) \/ SetState(q, state)
      PROVE  Life!Next
  <2>1. Phase' = [Phase EXCEPT ![q] = "ended"] /\ UNCHANGED <<Usable, Offer, blob, loaded>>
    BY <1>4, <1>6 DEF Shown
  <2>2. Life!End(q)
    BY <1>2, <2>1 DEF Life!End, Life!Show, Phase, Usable, Offer
  <2> QED
    BY <1>1, <2>2 DEF Life!Next
<1>7. CASE VerifyOverLimit(m)
  BY <1>6, <1>7 DEF VerifyOverLimit
<1>8. CASE VerifyFailed(m)
  <2>1. FailedState(sat[q]) \in {"INFORMATION_NOT_FOUND", "ERROR_SAT_WS_INTERNAL",
                                 "ERROR_TOO_BIG", "ERROR"}
    BY <1>1, Typed DEF FailedState, Solicitud
  <2> QED
    BY <1>6, <1>8, <2>1 DEF VerifyFailed
<1>9. CASE VerifyTimeLimit(m)
  BY <1>6, <1>9 DEF VerifyTimeLimit
<1>10. CASE VerifyRetry(m)
  <2>1. UNCHANGED <<row, sat, blob, loaded>>
    BY <1>10 DEF VerifyRetry
  <2> QED
    BY <2>1 DEF lifeVars, Phase, Usable, Offer, Downloadable
<1> QED
  BY <1>5, <1>7, <1>8, <1>9, <1>10 DEF VerifyQuery

\* A download stores some packages of an accepted answer, or all of them.
LEMMA DownloadImplements ==
  ASSUME IInv, NEW m \in queue.download, DownloadQuery(m)
  PROVE  Life!Next
<1> DEFINE q == m.q
<1>1. /\ q \in Query /\ RowOK(q) /\ PackagesOK(m) /\ m.pkgs \subseteq Package
      /\ row \in [Query -> Row] /\ row[q] \in Row /\ blob \in [Query -> SUBSET Package]
      /\ UNCHANGED <<sat, loaded>>
  <2>1. TypeOK /\ PackagesOK(m) /\ \A r \in Query : RowOK(r)
    BY DEF IInv
  <2>2. /\ m \in PackagesMsg /\ q \in Query /\ m.pkgs \subseteq Package
        /\ row \in [Query -> Row] /\ blob \in [Query -> SUBSET Package]
    BY <2>1, Typed DEF PackagesMsg
  <2>3. UNCHANGED <<sat, loaded>>
    BY DEF DownloadQuery, DownloadStored, DownloadFailed, DownloadInterrupted
  <2> QED
    BY <2>1, <2>2, <2>3
<1>2. q \in Usable /\ Offer[q] = m.pkgs
  BY <1>1 DEF PackagesOK, Usable, Offer
<1>3. ASSUME NEW state, row' = [row EXCEPT ![q].state = state, ![q].pkgs = m.pkgs]
      PROVE  Phase' = [Phase EXCEPT ![q] = Shown(state)] /\ UNCHANGED <<Usable, Offer>>
  <2>1. /\ row'[q].state = state /\ row'[q].req = row[q].req
        /\ \A r \in Query \ {q} : row'[r] = row[r]
    BY <1>1, <1>3 DEF Row
  <2> QED
    BY <1>1, <2>1, PhaseStep, UsableKept
<1>4. CASE DownloadStored(m)
  <2>1. blob' = [blob EXCEPT ![q] = Offer[q]]
    <3>1. blob[q] \cup m.pkgs = m.pkgs
      BY <1>1 DEF RowOK, RowSafe, PackagesOK
    <3> QED
      BY <1>2, <1>4, <3>1 DEF DownloadStored
  <2>2. Phase' = [Phase EXCEPT ![q] = "held"] /\ UNCHANGED <<Usable, Offer>>
    BY <1>3, <1>4 DEF DownloadStored, Shown
  <2>3. Life!StoreAll(q)
    BY <1>1, <1>2, <2>1, <2>2 DEF Life!StoreAll, Life!Show, Phase, Usable, Offer
  <2> QED
    BY <1>1, <2>3 DEF Life!Next
<1>5. ASSUME NEW some \in SUBSET m.pkgs, Stored(m, some),
             UNCHANGED <<Usable, Offer>>,
             Phase' = [Phase EXCEPT ![q] = "ended"] \/ UNCHANGED Phase
      PROVE  Life!Next
  <2>1. Life!Store(q, some)
    BY <1>1, <1>2, <1>5 DEF Stored, Life!Store, Life!Show, Phase, Usable, Offer
  <2> QED
    BY <1>1, <1>5, <2>1 DEF Life!Next
<1>6. CASE DownloadFailed(m)
  <2>1. Phase' = [Phase EXCEPT ![q] = "ended"] /\ UNCHANGED <<Usable, Offer>>
    <3>1. Shown("ERROR") = "ended"
      BY DEF Shown
    <3>2. row' = [row EXCEPT ![q].state = "ERROR", ![q].pkgs = m.pkgs]
      BY <1>6 DEF DownloadFailed
    <3> QED
      BY <1>3, <3>1, <3>2
  <2> QED
    BY <1>5, <1>6, <2>1 DEF DownloadFailed
<1>7. CASE DownloadInterrupted(m)
  <2>1. UNCHANGED <<Phase, Usable, Offer>>
    BY <1>1, <1>7 DEF DownloadInterrupted, Phase, Usable, Offer, Downloadable
  <2> QED
    BY <1>5, <1>7, <2>1 DEF DownloadInterrupted
<1> QED
  BY <1>4, <1>6, <1>7 DEF DownloadQuery

\* A processing handler loads from a complete storage, and shows the query as
\* processed when it came to the end.
LEMMA ProcessImplements ==
  ASSUME IInv, NEW m \in ToBeProcessed, Process(m)
  PROVE  Life!Next
<1> DEFINE q == m.q
<1>1. /\ q \in Query /\ RowOK(q) /\ StoredOK(m) /\ m.pkgs \subseteq Package
      /\ row \in [Query -> Row] /\ row[q] \in Row
      /\ loaded \in [Query -> SUBSET Package]
      /\ UNCHANGED <<sat, blob>>
  BY Typed DEF IInv, Process, ProcessMetadata, ProcessXML, ProcessInterrupted, Processed,
     PackagesMsg
<1>2. q \in Usable /\ Offer[q] = m.pkgs /\ blob[q] = Offer[q]
  BY <1>1 DEF RowOK, RowSafe, StoredOK, PackagesOK, Usable, Offer
<1>3. ToProcess(m) \cap blob[q] = Offer[q]
  BY <1>1, <1>2 DEF ToProcess, StoredOK, PackagesOK
<1>4. ASSUME NEW done \in Readable(m), Processed(m, done)
      PROVE  Life!Next
  <2>1. /\ done \subseteq Offer[q] /\ done \subseteq Package
        /\ "package" \in Faults \/ done = Offer[q]
    BY <1>1, <1>2, <1>3 DEF Readable
  <2>2. /\ row'[q].state = "PROCESSED" /\ row'[q].req = row[q].req
        /\ \A r \in Query \ {q} : row'[r] = row[r]
        /\ loaded' = [loaded EXCEPT ![q] = @ \cup done]
    BY <1>1, <1>4 DEF Processed, SetState, Row
  <2>3. Phase' = [Phase EXCEPT ![q] = "processed"] /\ UNCHANGED <<Usable, Offer>>
    BY <1>1, <2>2, PhaseStep, UsableKept DEF Shown
  <2>4. Life!Load(q, done)
    BY <1>1, <1>2, <2>1, <2>2, <2>3 DEF Life!Load, Life!Show, Phase, Usable, Offer
  <2> QED
    BY <1>1, <2>1, <2>4 DEF Life!Next
<1>5. CASE ProcessInterrupted(m)
  <2>1. PICK done \in SUBSET Offer[q] : loaded' = [loaded EXCEPT ![q] = @ \cup done]
    BY <1>3, <1>5 DEF ProcessInterrupted
  <2>2. UNCHANGED <<Phase, Usable, Offer>>
    BY <1>1, <1>5 DEF ProcessInterrupted, Phase, Usable, Offer, Downloadable
  <2>3. Life!Load(q, done)
    BY <1>1, <1>2, <2>1, <2>2 DEF Life!Load, Phase, Usable, Offer
  <2>4. done \in SUBSET Package
    BY <1>1, <1>2, <2>1
  <2> QED
    BY <1>1, <2>3, <2>4 DEF Life!Next
<1> QED
  BY <1>4, <1>5 DEF Process, ProcessMetadata, ProcessXML

\* The SAT's answer is accepted or refused once; that it expires changes nothing.
LEMMA SatImplements ==
  ASSUME IInv, NEW q \in Query, SatAnswers(q) \/ SatExpires(q)
  PROVE  Life!Next \/ UNCHANGED lifeVars
<1>1. /\ RowOK(q) /\ row[q] \in Row /\ sat \in [Query -> Solicitud]
      /\ UNCHANGED <<row, blob, loaded>> /\ UNCHANGED Phase
  BY Typed DEF IInv, SatAnswers, SatExpires, Phase
<1>2. CASE SatAnswers(q)
  <2>1. PICK a \in Answer : sat' = [sat EXCEPT ![q] = a]
    BY <1>2 DEF SatAnswers
  <2>2. /\ sat[q].status = "PENDING" /\ sat'[q] = a /\ a.pkgs \in SUBSET Package
        /\ \A r \in Query \ {q} : sat'[r] = sat[r]
    BY <1>1, <1>2, <2>1, PipelineAssumption DEF SatAnswers, Verdict
  <2>3. \A r \in Query \ {q} : Downloadable(r)' <=> Downloadable(r)
    BY <1>1, <2>2 DEF Downloadable
  <2>4. q \notin Usable /\ Offer[q] = {}
    BY <2>2 DEF Usable, Offer, Downloadable
  <2>5. Phase[q] # "absent"
    BY <1>1, <2>2 DEF RowOK, RowMatchesAnswer, Known, Phase, Shown, Row, QueryState
  <2>6. CASE Downloadable(q)'
    <3>1. Usable' = Usable \cup {q}
      BY <2>3, <2>6 DEF Usable
    <3>2. Offer' = [Offer EXCEPT ![q] = a.pkgs]
      BY <2>2, <2>3, <2>6 DEF Offer
    <3>3. Life!Accept(q, a.pkgs)
      BY <1>1, <2>4, <2>5, <3>1, <3>2 DEF Life!Accept, Phase, Usable, Offer
    <3> QED
      BY <2>2, <3>3 DEF Life!Next
  <2>7. CASE ~Downloadable(q)'
    <3>1. UNCHANGED <<Usable, Offer>>
      BY <2>2, <2>3, <2>4, <2>7 DEF Usable, Offer
    <3> QED
      BY <1>1, <3>1 DEF lifeVars
  <2> QED
    BY <2>6, <2>7
<1>3. CASE SatExpires(q)
  <2>1. /\ sat[q].status = "FINISHED" /\ sat'[q].status = "EXPIRED"
        /\ sat'[q].pkgs = sat[q].pkgs /\ sat'[q].qty = sat[q].qty
        /\ \A r \in Query \ {q} : sat'[r] = sat[r]
    BY <1>1, <1>3 DEF SatExpires, Solicitud
  <2>2. \A r \in Query : (Downloadable(r)' <=> Downloadable(r)) /\ sat'[r].pkgs = sat[r].pkgs
    BY <1>1, <2>1 DEF Downloadable
  <2>3. UNCHANGED <<Usable, Offer>>
    BY <2>2 DEF Usable, Offer
  <2> QED
    BY <1>1, <2>3 DEF lifeVars
<1> QED
  BY <1>2, <1>3

LEMMA LifeInit == Init => Life!Init
<1> SUFFICES ASSUME Init PROVE Life!Init
  OBVIOUS
<1>1. \A q \in Query : Shown(row[q].state) = "absent" /\ ~Downloadable(q)
  BY DEF Init, Shown, Downloadable, NoSolicitud
<1> QED
  BY <1>1 DEF Init, Life!Init

\* Every step of a handler, of the SAT or of a publisher is a step of QueryLife or a
\* stutter.
LEMMA LifeStep == IInv /\ [Next]_vars => [Life!Next]_lifeVars
<1> SUFFICES ASSUME IInv, [Next]_vars PROVE Life!Next \/ UNCHANGED lifeVars
  OBVIOUS
<1>1. CASE UNCHANGED <<row, sat, blob, loaded>>
  BY <1>1 DEF lifeVars, Phase, Usable, Offer, Downloadable
<1>2. ASSUME NEW m \in queue.create, NEW q \in Query, CreateQuery(m, q)
      PROVE  Life!Next
  BY <1>2, CreateImplements DEF Life!Next
<1>3. Publishers \/ Tick \/ UNCHANGED vars => UNCHANGED <<row, sat, blob, loaded>>
  BY DEF Publishers, CompanyCreated, Cron, AdminEnqueue, Manual, Tick, vars
<1>4. /\ \A m : SendQueryMetadata(m) \/ CompleteCFDIs(m) => UNCHANGED <<row, sat, blob, loaded>>
  BY DEF SendQueryMetadata, CompleteCFDIs
<1>5. CASE Worker
  BY <1>1, <1>2, <1>4, <1>5, VerifyImplements, DownloadImplements, ProcessImplements
     DEF Worker, ToBeProcessed
<1>6. CASE Environment
  BY <1>1, <1>3, <1>6, SatImplements DEF Environment
<1> QED
  BY <1>1, <1>3, <1>5, <1>6 DEF Next

\* The pipeline implements QueryLife for every set of queries, packages and faults:
\* whatever is lost, delivered again, interrupted or late, packages only move from the
\* SAT's answer to storage and on to the tables, the row never shows more than they
\* have reached, and a query that was verified never waits again (LivesAsPromised).
THEOREM Implementation == Spec => LivesAsPromised
<1>1. IInv /\ [Next]_vars => [Life!Next]_lifeVars
  BY LifeStep
<1> QED
  BY <1>1, LifeInit, Invariance, PTL
     DEF Spec, LivesAsPromised, Life!Spec, lifeVars, Phase, Usable, Offer, Life!vars

-----------------------------------------------------------------------------
(* What moves a row on *)

Reliable == {"publish", "redeliver"} \cap Faults = {}

Carried == \A q \in Query : HasCarrier(q)

LEMMA ReliableEnds ==
  ASSUME Reliable, NEW S, NEW e \in Ends(S), NEW Q, NEW m
  PROVE  e.pub = S /\ Settle(Q, m, e) = Q \ {m}
BY DEF Reliable, Ends, Settle

\* A step about the row of q0 takes no message of another row away.
LEMMA OneCarrier ==
  ASSUME Carried, NEW q0 \in Query,
         \A q \in Query \ {q0} : row'[q].state = row[q].state,
         \A n \in queue.verify : n.q # q0 => n \in queue'.verify,
         \A n \in queue.download : n.q # q0 => n \in queue'.download,
         \A n \in ToBeProcessed : n.q # q0 => n \in ToBeProcessed',
         HasCarrier(q0)'
  PROVE  Carried'
BY DEF Carried, HasCarrier

\* A step that writes no row, and takes no message away, leaves each its carrier.
LEMMA CarriersStay ==
  ASSUME Carried, UNCHANGED row,
         queue.verify \subseteq queue'.verify, queue.download \subseteq queue'.download,
         ToBeProcessed \subseteq ToBeProcessed'
  PROVE  Carried'
BY DEF Carried, HasCarrier

LEMMA CarriedCreate ==
  ASSUME Reliable, TypeOK, Carried, NEW m, NEW q \in Query, CreateQuery(m, q)
  PROVE  Carried'
<1>1. PICK state \in {"ERROR_IN_CERTS", "ERROR_SAT_WS_INTERNAL", "SENT"}, sent \in {NoDate, now} :
        /\ row' = [row EXCEPT ![q] = NewRow(m, state, sent)]
        /\ state = "SENT" => CreateQuerySent(m, q)
  BY DEF Reliable, CreateQuery, CreateQueryInCerts, CreateQueryInternal,
     CreateQuerySent, CreateQueryInterrupted
<1>2. row'[q].state = state /\ \A r \in Query \ {q} : row'[r] = row[r]
  BY <1>1 DEF TypeOK, NewRow
<1>3. /\ queue.verify \subseteq queue'.verify
      /\ queue'.download = queue.download
      /\ ToBeProcessed' = ToBeProcessed
  <2> USE DEF TypeOK, Queues, ToBeProcessed
  <2>1. CASE CreateQueryInCerts(m, q)
    BY <2>1 DEF CreateQueryInCerts
  <2>2. CASE CreateQueryInternal(m, q)
    BY <2>2 DEF CreateQueryInternal
  <2>3. CASE CreateQuerySent(m, q)
    BY <2>3 DEF CreateQuerySent
  <2> QED
    BY <2>1, <2>2, <2>3 DEF Reliable, CreateQuery, CreateQueryInterrupted
<1>4. ASSUME CreateQuerySent(m, q)
      PROVE  \E n \in queue'.verify : n.q = q
  <2> DEFINE n == [q |-> q, sent |-> now, at |-> now]
  <2>1. PICK e \in Ends({n}) : queue' = [queue EXCEPT !.create = Settle(@, m, e),
                                                     !.verify = @ \cup e.pub]
    BY <1>4 DEF CreateQuerySent
  <2>2. n \in queue'.verify
    BY <2>1, ReliableEnds DEF TypeOK, Queues
  <2> QED
    BY <2>2
<1>5. HasCarrier(q)'
  BY <1>1, <1>2, <1>4 DEF HasCarrier
<1> QED
  BY <1>2, <1>3, <1>5, OneCarrier

LEMMA CarriedVerify ==
  ASSUME Reliable, IInv, Carried, NEW m \in queue.verify, VerifyQuery(m)
  PROVE  Carried'
<1> DEFINE q == m.q
<1>1. TypeOK /\ q \in Query /\ row \in [Query -> Row] /\ sat \in [Query -> Solicitud]
  BY Typed DEF IInv
<1>2. \A state : SetFinished(q, state) \/ SetState(q, state) =>
        row'[q].state = state /\ \A r \in Query \ {q} : row'[r] = row[r]
  BY <1>1 DEF SetFinished, SetState, Row
<1>3. CASE VerifyFinished(m)
  <2> DEFINE n == [q |-> q, pkgs |-> sat[q].pkgs]
  <2>1. PICK e \in Ends({n}) : queue' = [queue EXCEPT !.verify = Settle(@, m, e),
                                                     !.download = @ \cup e.pub]
    BY <1>3 DEF VerifyFinished
  <2>2. e.pub = {n} /\ Settle(queue.verify, m, e) = queue.verify \ {m}
    BY <2>1, ReliableEnds
  <2>3. /\ queue'.verify = queue.verify \ {m}
        /\ queue'.download = queue.download \cup {n}
        /\ ToBeProcessed' = ToBeProcessed
    BY <1>1, <2>1, <2>2 DEF TypeOK, Queues, ToBeProcessed
  <2>4. row'[q].state = "TO_DOWNLOAD" /\ \A r \in Query \ {q} : row'[r] = row[r]
    BY <1>2, <1>3 DEF VerifyFinished
  <2>5. n \in queue'.download /\ n.q = q
    BY <2>3
  <2>6. HasCarrier(q)'
    BY <2>4, <2>5 DEF HasCarrier
  <2> QED
    BY <1>1, <2>3, <2>4, <2>6, OneCarrier
<1>4. ASSUME NEW state \in QueryState \ Temporary,
             SetFinished(q, state) \/ SetState(q, state), VerifyDone(m)
      PROVE  Carried'
  <2>1. PICK e \in Ends({}) : queue' = [queue EXCEPT !.verify = Settle(@, m, e)]
    BY <1>4 DEF VerifyDone
  <2>2. /\ queue'.verify = queue.verify \ {m}
        /\ queue'.download = queue.download
        /\ ToBeProcessed' = ToBeProcessed
    BY <1>1, <2>1, ReliableEnds DEF TypeOK, Queues, ToBeProcessed
  <2>3. HasCarrier(q)'
    BY <1>2, <1>4 DEF HasCarrier, Temporary
  <2> QED
    BY <1>1, <1>2, <1>4, <2>2, <2>3, OneCarrier
<1>5. CASE VerifyOverLimit(m)
  BY <1>4, <1>5 DEF VerifyOverLimit, QueryState, Temporary
<1>6. CASE VerifyFailed(m)
  <2>1. FailedState(sat[q]) \in QueryState \ Temporary
    BY <1>1 DEF FailedState, Solicitud, QueryState, Temporary
  <2> QED
    BY <1>4, <1>6, <2>1 DEF VerifyFailed
<1>7. CASE VerifyTimeLimit(m)
  BY <1>4, <1>7 DEF VerifyTimeLimit, QueryState, Temporary
<1>8. CASE VerifyRetry(m)
  <2>1. PICK at : \E e \in Ends({[q |-> q, sent |-> SentDate(m), at |-> at]}) :
                    queue' = [queue EXCEPT !.verify = Settle(@, m, e) \cup e.pub]
    BY <1>8 DEF VerifyRetry
  <2> DEFINE n == [q |-> q, sent |-> SentDate(m), at |-> at]
  <2>2. PICK e \in Ends({n}) : queue' = [queue EXCEPT !.verify = Settle(@, m, e) \cup e.pub]
    BY <2>1
  <2>3. e.pub = {n} /\ Settle(queue.verify, m, e) = queue.verify \ {m}
    BY <2>2, ReliableEnds
  <2>4. /\ queue'.verify = (queue.verify \ {m}) \cup {n}
        /\ queue'.download = queue.download
        /\ ToBeProcessed' = ToBeProcessed
    BY <1>1, <2>2, <2>3 DEF TypeOK, Queues, ToBeProcessed
  <2>5. UNCHANGED row
    BY <1>8 DEF VerifyRetry
  <2>6. n \in queue'.verify /\ n.q = q
    BY <2>4
  <2>7. HasCarrier(q)'
    BY <1>1, <2>4, <2>5, <2>6 DEF HasCarrier, Carried
  <2> QED
    BY <1>1, <2>4, <2>5, <2>7, OneCarrier
<1> QED
  BY <1>3, <1>5, <1>6, <1>7, <1>8 DEF VerifyQuery

LEMMA CarriedDownload ==
  ASSUME Reliable, IInv, Carried, NEW m \in queue.download, DownloadQuery(m)
  PROVE  Carried'
<1> DEFINE q == m.q
<1>1. TypeOK /\ q \in Query /\ row \in [Query -> Row] /\ row[q] \in Row
  BY Typed DEF IInv
<1>2. \A state : row' = [row EXCEPT ![q].state = state, ![q].pkgs = m.pkgs] =>
        row'[q].state = state /\ \A r \in Query \ {q} : row'[r] = row[r]
  BY <1>1 DEF Row
<1>3. CASE DownloadStored(m)
  <2>1. PICK e \in Ends({m}) : queue' = [queue EXCEPT
          !.download = Settle(@, m, e),
          !.metadata = IF row[m.q].req = "METADATA" THEN @ \cup e.pub ELSE @,
          !.xml      = IF row[m.q].req = "CFDI" THEN @ \cup e.pub ELSE @]
    BY <1>3 DEF DownloadStored
  <2>2. e.pub = {m} /\ Settle(queue.download, m, e) = queue.download \ {m}
    BY <2>1, ReliableEnds
  <2>3. /\ queue'.verify = queue.verify
        /\ queue'.download = queue.download \ {m}
        /\ queue'.metadata = IF row[q].req = "METADATA" THEN queue.metadata \cup {m}
                                                       ELSE queue.metadata
        /\ queue'.xml = IF row[q].req = "CFDI" THEN queue.xml \cup {m} ELSE queue.xml
    BY <1>1, <2>1, <2>2 DEF TypeOK, Queues
  <2>4. ToBeProcessed' = ToBeProcessed \cup {m}
    BY <1>1, <2>3 DEF ToBeProcessed, Row, RequestType
  <2>5. row'[q].state = "DOWNLOADED" /\ \A r \in Query \ {q} : row'[r] = row[r]
    BY <1>2, <1>3 DEF DownloadStored
  <2>6. HasCarrier(q)'
    BY <2>4, <2>5 DEF HasCarrier
  <2> QED
    BY <1>1, <2>3, <2>4, <2>5, <2>6, OneCarrier
<1>4. CASE DownloadFailed(m)
  <2>1. PICK e \in Ends({}) : queue' = [queue EXCEPT !.download = Settle(@, m, e)]
    BY <1>4 DEF DownloadFailed
  <2>2. /\ queue'.verify = queue.verify
        /\ queue'.download = queue.download \ {m}
        /\ ToBeProcessed' = ToBeProcessed
    BY <1>1, <2>1, ReliableEnds DEF TypeOK, Queues, ToBeProcessed
  <2>3. row'[q].state = "ERROR" /\ \A r \in Query \ {q} : row'[r] = row[r]
    BY <1>2, <1>4 DEF DownloadFailed
  <2>4. HasCarrier(q)'
    BY <2>3 DEF HasCarrier
  <2> QED
    BY <1>1, <2>2, <2>3, <2>4, OneCarrier
<1> QED
  BY <1>3, <1>4 DEF Reliable, DownloadQuery, DownloadInterrupted

LEMMA CarriedProcess ==
  ASSUME Reliable, IInv, Carried, NEW m \in ToBeProcessed, Process(m)
  PROVE  Carried'
<1> DEFINE q == m.q
<1>1. TypeOK /\ q \in Query /\ row \in [Query -> Row] /\ row[q] \in Row
  BY Typed DEF IInv
<1>2. PICK done : Processed(m, done)
  BY DEF Reliable, Process, ProcessMetadata, ProcessXML, ProcessInterrupted
<1>3. row'[q].state = "PROCESSED" /\ \A r \in Query \ {q} : row'[r] = row[r]
  BY <1>1, <1>2 DEF Processed, SetState
<1>4. /\ queue'.verify = queue.verify
      /\ queue'.download = queue.download
      /\ ToBeProcessed \ {m} \subseteq ToBeProcessed'
  <2>1. CASE ProcessMetadata(m)
    <3>1. PICK e \in Ends({[dl |-> "NONE", window |-> "ZERO"]}) :
            queue' = [queue EXCEPT !.metadata = Settle(@, m, e), !.complete = @ \cup e.pub]
      BY <2>1 DEF ProcessMetadata
    <3> QED
      BY <1>1, <3>1 DEF TypeOK, Queues, ToBeProcessed, Settle
  <2>2. CASE ProcessXML(m)
    <3>1. PICK e \in Ends({}) : queue' = [queue EXCEPT !.xml = Settle(@, m, e)]
      BY <2>2 DEF ProcessXML
    <3> QED
      BY <1>1, <3>1 DEF TypeOK, Queues, ToBeProcessed, Settle
  <2> QED
    BY <2>1, <2>2 DEF Reliable, Process, ProcessInterrupted
<1>5. HasCarrier(q)'
  BY <1>3 DEF HasCarrier
<1> QED
  BY <1>1, <1>3, <1>4, <1>5, OneCarrier

\* The other steps write no row and take no message of these queues away.
LEMMA CarriedOthers ==
  ASSUME TypeOK, Carried,
         \/ \E m \in queue.sendMetadata : SendQueryMetadata(m)
         \/ \E m \in queue.complete : CompleteCFDIs(m)
         \/ Publishers
         \/ Environment
         \/ UNCHANGED vars
  PROVE  Carried'
<1>1. /\ UNCHANGED row
      /\ queue.verify \subseteq queue'.verify /\ queue'.download = queue.download
      /\ queue'.metadata = queue.metadata /\ queue'.xml = queue.xml
  <2> USE DEF TypeOK, Queues
  <2>1. CASE \E m \in queue.sendMetadata : SendQueryMetadata(m)
    BY <2>1 DEF SendQueryMetadata
  <2>2. CASE \E m \in queue.complete : CompleteCFDIs(m)
    BY <2>2 DEF CompleteCFDIs
  <2>3. CASE CompanyCreated
    BY <2>3 DEF CompanyCreated
  <2>4. CASE Cron
    BY <2>4 DEF Cron
  <2>5. CASE AdminEnqueue
    BY <2>5 DEF AdminEnqueue
  <2>6. CASE Manual
    BY <2>6 DEF Manual
  <2>7. CASE Environment \/ UNCHANGED vars
    BY <2>7 DEF Environment, SatAnswers, SatExpires, Tick, vars
  <2> QED
    BY <2>1, <2>2, <2>3, <2>4, <2>5, <2>6, <2>7 DEF Publishers
<1> QED
  BY <1>1, CarriersStay DEF ToBeProcessed

\* Where nothing is lost and no handler is interrupted, each query in a temporary state
\* has its next message in flight, also when the user verifies by hand and packages
\* cannot be read (TemporaryIsCarried): what the liveness of TemporaryIsLeft rests on.
THEOREM TemporaryIsCarriedHolds == Spec => []TemporaryIsCarried
<1>1. Init => Carried
  BY DEF Init, Carried, HasCarrier
<1>2. Reliable /\ IInv /\ Carried /\ [Next]_vars => Carried'
  <2> SUFFICES ASSUME Reliable, IInv, Carried, [Next]_vars PROVE Carried'
    OBVIOUS
  <2>1. TypeOK
    BY DEF IInv
  <2>2. CASE Worker
    BY <2>1, <2>2, CarriedCreate, CarriedVerify, CarriedDownload, CarriedProcess,
       CarriedOthers DEF Worker, ToBeProcessed
  <2> QED
    BY <2>1, <2>2, CarriedOthers DEF Next
<1>3. Carried => TemporaryIsCarried
  BY DEF Carried, TemporaryIsCarried
<1>4. ~Reliable => TemporaryIsCarried
  BY DEF Reliable, TemporaryIsCarried
<1>5. CASE Reliable
  BY <1>1, <1>2, <1>3, <1>5, Invariance, PTL DEF Spec
<1>6. CASE ~Reliable
  BY <1>4, <1>6, PTL
<1> QED
  BY <1>5, <1>6

LEMMA RetryAdvances ==
  ASSUME IInv, NEW m \in queue.verify, VerifyRetry(m),
         NEW n \in queue'.verify, n \notin queue.verify
  PROVE  now < n.at /\ n.at <= row[n.q].sent + MaxWait
<1>1. /\ TypeOK /\ m.q \in Query /\ VerifyOK(m) /\ now \in Nat
      /\ row[m.q].sent \in Nat \cup {NoDate}
  BY Typed DEF IInv, Row
<1>2. SentDate(m) = row[m.q].sent /\ row[m.q].sent \in Nat /\ row[m.q].sent # NoDate
  BY <1>1 DEF VerifyOK, SentDate
<1> DEFINE elapsed == Elapsed(SentDate(m))
           delay   == VerifyBackoffDelay(elapsed)
           remain  == MaxWait - elapsed
           at      == now + (IF delay > remain THEN remain ELSE delay)
<1>3. elapsed = now - row[m.q].sent /\ elapsed < MaxWait
  BY <1>2 DEF Elapsed, VerifyRetry
<1>4. remain \in Int /\ 1 <= remain /\ now + remain = row[m.q].sent + MaxWait
  BY <1>1, <1>2, <1>3, PipelineAssumption
<1>5. delay \in {1, 2, 4}
  BY DEF VerifyBackoffDelay
<1>6. now < at /\ at <= now + remain
  <2> HIDE DEF delay, remain
  <2> QED
    BY <1>1, <1>4, <1>5
<1>7. PICK next : next = [q |-> m.q, sent |-> SentDate(m), at |-> at]
  OBVIOUS
<1>8. PICK e \in Ends({next}) : queue' = [queue EXCEPT !.verify = Settle(@, m, e) \cup e.pub]
  BY <1>7 DEF VerifyRetry
<1>9. next.q = m.q /\ next.at = at
  BY <1>7
<1> HIDE DEF at, remain
<1>10. n = next
  BY <1>1, <1>8, EndsPublishesSubset, SettleSubset DEF TypeOK, Queues
<1> QED
  BY <1>4, <1>6, <1>9, <1>10

\* The other steps ask for no verification of a row they leave as it was, but for
\* those of a user.
LEMMA OthersAskNothing ==
  ASSUME IInv, UNCHANGED row, [Next]_vars, \A m \in queue.verify : ~VerifyRetry(m),
         NEW n \in queue'.verify, n \notin queue.verify
  PROVE  n \in Reverifications
<1>1. TypeOK /\ row \in [Query -> Row]
  BY DEF IInv, TypeOK
<1> USE DEF TypeOK, Queues
<1>2. queue'.verify \subseteq queue.verify \/ Manual
  <2>1. ASSUME NEW m \in queue.create, NEW q \in Query, CreateQuery(m, q) PROVE FALSE
    <3>1. PICK state \in QueryState \ {"ABSENT"}, sent \in {NoDate, now} : row' = [row EXCEPT ![q] = NewRow(m, state, sent)]
      BY <2>1 DEF CreateQuery, CreateQueryInCerts, CreateQueryInternal, CreateQuerySent,
         CreateQueryInterrupted, QueryState
    <3>2. row'[q] = NewRow(m, state, sent)
      BY <1>1, <3>1
    <3>3. row'[q].state = state
      BY <3>2 DEF NewRow
    <3>4. row[q].state = "ABSENT"
      BY <2>1 DEF CreateQuery, CreateQueryInCerts, CreateQueryInternal,
         CreateQuerySent, CreateQueryInterrupted, Fresh
    <3>5. row' = row
      OBVIOUS
    <3> QED
      BY <3>3, <3>4, <3>5
  <2>2. ASSUME NEW m \in queue.verify, VerifyQuery(m)
        PROVE  queue'.verify \subseteq queue.verify
    <3>1. CASE VerifyFinished(m)
      BY <1>1, <3>1, SettleSubset DEF VerifyFinished
    <3>2. CASE VerifyDone(m)
      BY <1>1, <3>2, SettleSubset DEF VerifyDone
    <3> QED
      BY <2>2, <3>1, <3>2 DEF VerifyQuery, VerifyOverLimit, VerifyFailed, VerifyTimeLimit
  <2>3. ASSUME NEW m \in queue.download, DownloadQuery(m)
        PROVE  queue'.verify = queue.verify
    BY <1>1, <2>3 DEF DownloadQuery, DownloadStored, DownloadFailed, DownloadInterrupted
  <2>4. ASSUME NEW m \in queue.metadata \cup queue.xml, Process(m)
        PROVE  queue'.verify = queue.verify
    BY <1>1, <2>4 DEF Process, ProcessMetadata, ProcessXML, ProcessInterrupted
  <2>5. \A m : SendQueryMetadata(m) \/ CompleteCFDIs(m) => queue'.verify = queue.verify
    BY <1>1 DEF SendQueryMetadata, CompleteCFDIs
  <2>6. CompanyCreated \/ Cron \/ AdminEnqueue => queue'.verify = queue.verify
    BY <1>1 DEF CompanyCreated, Cron, AdminEnqueue
  <2>7. Environment \/ UNCHANGED vars => queue'.verify = queue.verify
    BY DEF Environment, SatAnswers, SatExpires, Tick, vars
  <2> QED
    BY <2>1, <2>2, <2>3, <2>4, <2>5, <2>6, <2>7 DEF Next, Worker, Publishers
<1>3. PICK verify \in Sent(Reverifications) : queue'.verify = queue.verify \cup verify
  BY <1>1, <1>2 DEF Manual
<1> QED
  BY <1>3, SentSubset

\* A verification that leaves its row as it was is followed by a later one within the
\* limit (RetriesAdvance), under every fault: with TemporaryIsCarriedHolds, a chain of
\* messages reaches the end of WSMaxWaitingMinutes in at most MaxWait steps.
THEOREM RetriesAdvanceHolds == Spec => RetriesAdvance
<1> DEFINE Step == \A n \in queue'.verify \ queue.verify : UNCHANGED row =>
                     \/ n \in Reverifications
                     \/ now < n.at /\ n.at <= row[n.q].sent + MaxWait
<1>1. IInv /\ [Next]_vars => Step
  BY RetryAdvances, OthersAskNothing
<1> HIDE DEF Step
<1>2. Spec => [][Step]_vars
  BY <1>1, Invariance, PTL DEF Spec
<1> QED
  BY <1>2, PTL DEF RetriesAdvance, Step
=============================================================================
