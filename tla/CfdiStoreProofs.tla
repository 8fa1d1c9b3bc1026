--------------------------- MODULE CfdiStoreProofs ---------------------------
(***************************************************************************)
(* CfdiStore for every set of CFDIs, every number of replicas, every batch *)
(* size and every fault: the types, the related rows against the cfdi      *)
(* table, and the implementation of CfdiRegister.                          *)
(***************************************************************************)
EXTENDS CfdiStore, TLAPS

-----------------------------------------------------------------------------
(* The inductive invariant *)

\* A snapshot may be old, but a cancellation is for ever.
TrueSnapshot(pkg) == \A c \in DOMAIN pkg : pkg[c] = "cancelado" => c \in sat

MetaOK(w) ==
  /\ meta[w].todo \subseteq DOMAIN meta[w].pkg
  /\ TrueSnapshot(meta[w].pkg)
  /\ \A c \in meta[w].cancelled : Cancelled(c)

XmlOK(w) ==
  /\ xml[w].step \in {"insert", "relations", "payment", "doctos", "nomina"} =>
       xml[w].cur \in Cfdi
  /\ xml[w].step \in {"relations", "payment", "doctos", "nomina"} =>
       cfdi[xml[w].cur].known

RowsOK ==
  \A c \in Cfdi : /\ cfdi[c].fromXml => cfdi[c].known
                  /\ Cancelled(c) => c \in sat

IInv ==
  /\ TypeOK
  /\ \A pkg \in metadata : TrueSnapshot(pkg)
  /\ \A w \in Worker : MetaOK(w) /\ XmlOK(w)
  /\ RowsOK
  /\ RelatedMatchesCfdi

LEMMA InvInit == Init => IInv
  BY StoreAssumption DEF Init, IInv, TypeOK, RowsOK, RelatedMatchesCfdi, MetaOK, XmlOK,
     TrueSnapshot, Cancelled, IdleMeta, IdleXml, CfdiRow, Table, Rows, MetaStep, XmlStep

-----------------------------------------------------------------------------
(* The SAT and the queries *)

LEMMA InvCancel ==
  ASSUME IInv, NEW c \in Cfdi, Cancel(c)
  PROVE  IInv'
  BY DEF IInv, Cancel, TypeOK, RowsOK, RelatedMatchesCfdi, MetaOK, XmlOK, TrueSnapshot,
     Cancelled

LEMMA InvRequestMetadata ==
  ASSUME IInv, NEW S \in Direction, RequestMetadata(S)
  PROVE  IInv'
<1> DEFINE pkg == [c \in S |-> IF c \in sat THEN "cancelado" ELSE "vigente"]
<1>1. pkg \in Snapshot /\ TrueSnapshot(pkg)
  BY DEF Snapshot, TrueSnapshot
<1>2. metadata' = metadata \cup {pkg}
  BY DEF RequestMetadata
<1> HIDE DEF pkg
<1>3. TypeOK'
  BY <1>1, <1>2 DEF IInv, TypeOK, RequestMetadata
<1>4. \A p \in metadata' : TrueSnapshot(p)'
  BY <1>1, <1>2 DEF IInv, TrueSnapshot, RequestMetadata
<1> QED
  BY <1>3, <1>4 DEF IInv, RequestMetadata, RowsOK, RelatedMatchesCfdi, MetaOK, XmlOK,
     TrueSnapshot, Cancelled

LEMMA InvXmlRequests ==
  ASSUME IInv, NEW S \in Direction, RequestXml(S) \/ CompleteCFDIs(S)
  PROVE  IInv'
<1>1. S \subseteq Cfdi
  BY StoreAssumption DEF Direction
<1>2. \A T \in SUBSET S : Packages(T) \subseteq SUBSET Cfdi
  BY <1>1 DEF Packages, Downloadable
<1>3. \E T \in SUBSET S : xmls' = xmls \cup Packages(T)
  <2>1. CASE RequestXml(S)
    BY <2>1 DEF RequestXml
  <2>2. CASE CompleteCFDIs(S)
    BY <2>2 DEF CompleteCFDIs
  <2> QED
    BY <2>1, <2>2
<1>4. xmls' \subseteq SUBSET Cfdi
  BY <1>2, <1>3 DEF IInv, TypeOK
<1> QED
  BY <1>4 DEF IInv, TypeOK, RequestXml, CompleteCFDIs, RowsOK, RelatedMatchesCfdi, MetaOK,
     XmlOK, TrueSnapshot, Cancelled

-----------------------------------------------------------------------------
(* ProcessMetadata *)

\* A step that changes nothing but the metadata loops and their queue.
MetaOnly == UNCHANGED <<sat, xmls, cfdi, related, xml>>

LEMMA InvMetaOnly ==
  ASSUME IInv, MetaOnly, NEW w \in Worker, NEW m,
         metadata' \subseteq metadata,
         meta' = [meta EXCEPT ![w] = m],
         m \in [step : MetaStep, pkg : Snapshot \cup {<<>>},
                todo : SUBSET Cfdi, cancelled : SUBSET Cfdi],
         m.todo \subseteq DOMAIN m.pkg, TrueSnapshot(m.pkg),
         \A c \in m.cancelled : Cancelled(c)
  PROVE  IInv'
<1>1. TypeOK'
  BY DEF IInv, TypeOK, MetaOnly
<1>2. ASSUME NEW v \in Worker PROVE MetaOK(v)'
  <2>1. v = w => meta'[v] = m
    BY DEF IInv, TypeOK
  <2>2. v # w => meta'[v] = meta[v]
    BY DEF IInv, TypeOK
  <2> QED
    BY <2>1, <2>2 DEF IInv, MetaOK, TrueSnapshot, Cancelled, MetaOnly
<1>3. \A v \in Worker : XmlOK(v)'
  BY DEF IInv, XmlOK, MetaOnly
<1>4. \A p \in metadata' : TrueSnapshot(p)'
  BY DEF IInv, TrueSnapshot, MetaOnly
<1> QED
  BY <1>1, <1>2, <1>3, <1>4 DEF IInv, MetaOnly, RowsOK, RelatedMatchesCfdi, Cancelled

LEMMA InvTakeMetadata ==
  ASSUME IInv, NEW w \in Worker, TakeMetadata(w)
  PROVE  IInv'
<1>1. PICK pkg \in metadata :
        meta' = [meta EXCEPT ![w] = [step |-> "batches", pkg |-> pkg,
                                     todo |-> DOMAIN pkg, cancelled |-> {}]]
  BY DEF TakeMetadata
<1>2. pkg \in Snapshot /\ DOMAIN pkg \subseteq Cfdi
  BY StoreAssumption DEF IInv, TypeOK, Snapshot, Direction
<1>3. TrueSnapshot(pkg)
  BY DEF IInv
<1> DEFINE m == [step |-> "batches", pkg |-> pkg, todo |-> DOMAIN pkg, cancelled |-> {}]
<1>4. /\ m \in [step : MetaStep, pkg : Snapshot \cup {<<>>},
               todo : SUBSET Cfdi, cancelled : SUBSET Cfdi]
      /\ m.todo \subseteq DOMAIN m.pkg /\ TrueSnapshot(m.pkg)
      /\ \A c \in m.cancelled : Cancelled(c)
  BY <1>2, <1>3 DEF MetaStep
<1>5. meta' = [meta EXCEPT ![w] = m]
  BY <1>1
<1>6. MetaOnly /\ metadata' \subseteq metadata
  BY DEF TakeMetadata, MetaOnly
<1> HIDE DEF m
<1> QED
  BY <1>4, <1>5, <1>6, InvMetaOnly

\* A step of w that only moves its loop, or ends it.
LEMMA InvMetaMoves ==
  ASSUME IInv, NEW w \in Worker, UpsertFails(w) \/ BatchesDone(w) \/ MetadataProcessed(w)
  PROVE  IInv'
<1>0. meta[w] \in [step : MetaStep, pkg : Snapshot \cup {<<>>},
                   todo : SUBSET Cfdi, cancelled : SUBSET Cfdi] /\ MetaOK(w)
  BY DEF IInv, TypeOK
<1>1. MetaOnly /\ metadata' \subseteq metadata
  BY DEF UpsertFails, BatchesDone, MetadataProcessed, MetaOnly
<1>2. CASE \E s \in MetaStep : meta' = [meta EXCEPT ![w].step = s]
  <2>1. PICK s \in MetaStep : meta' = [meta EXCEPT ![w].step = s]
    BY <1>2
  <2> DEFINE m == [meta[w] EXCEPT !.step = s]
  <2>2. meta' = [meta EXCEPT ![w] = m]
    BY <2>1 DEF IInv, TypeOK
  <2>3. /\ m \in [step : MetaStep, pkg : Snapshot \cup {<<>>},
                 todo : SUBSET Cfdi, cancelled : SUBSET Cfdi]
        /\ m.pkg = meta[w].pkg /\ m.todo = meta[w].todo /\ m.cancelled = meta[w].cancelled
    BY <1>0
  <2> HIDE DEF m
  <2>4. /\ m.todo \subseteq DOMAIN m.pkg /\ TrueSnapshot(m.pkg)
        /\ \A c \in m.cancelled : Cancelled(c)
    BY <1>0, <2>3 DEF MetaOK
  <2> QED
    BY <1>1, <2>2, <2>3, <2>4, InvMetaOnly
<1>3. CASE meta' = [meta EXCEPT ![w] = IdleMeta]
  <2>1. /\ IdleMeta \in [step : MetaStep, pkg : Snapshot \cup {<<>>},
                        todo : SUBSET Cfdi, cancelled : SUBSET Cfdi]
        /\ IdleMeta.todo \subseteq DOMAIN IdleMeta.pkg /\ TrueSnapshot(IdleMeta.pkg)
        /\ \A c \in IdleMeta.cancelled : Cancelled(c)
    BY DEF IdleMeta, MetaStep, TrueSnapshot
  <2> QED
    BY <1>1, <1>3, <2>1, InvMetaOnly
<1>4. (\E s \in MetaStep : meta' = [meta EXCEPT ![w].step = s])
        \/ meta' = [meta EXCEPT ![w] = IdleMeta]
  BY DEF UpsertFails, BatchesDone, MetadataProcessed, MetaStep
<1> QED
  BY <1>2, <1>3, <1>4

\* What a batch, or a statement of upsertFromXML, may make of the cfdi table:
\* it learns.  With that, everything that relates other state to it stays true.
CfdiLearns ==
  /\ cfdi' \in [Cfdi -> CfdiRow]
  /\ \A c \in Cfdi :
       /\ cfdi[c].known => cfdi'[c].known
       /\ cfdi[c].fromXml => cfdi'[c].fromXml
       /\ cfdi'[c].fromXml => cfdi'[c].known
       /\ Cancelled(c) => Cancelled(c)'
       /\ Cancelled(c)' => c \in sat

LEMMA InvLearns ==
  ASSUME IInv, CfdiLearns, UNCHANGED <<sat, related>>,
         NEW w \in Worker, NEW v \in Worker, XmlOK(v), XmlOK(w), MetaOK(w)
  PROVE  /\ RowsOK' /\ RelatedMatchesCfdi'
         /\ \A c \in meta[w].cancelled \cap Cfdi : Cancelled(c)'
  BY DEF IInv, CfdiLearns, RowsOK, RelatedMatchesCfdi, MetaOK, Table, Cancelled

LEMMA BatchLearns ==
  ASSUME IInv, NEW w \in Worker, UpsertBatch(w)
  PROVE  CfdiLearns
<1>1. PICK batch \in SUBSET meta[w].todo :
        cfdi' = [c \in Cfdi |-> IF c \in batch THEN Upsert(cfdi[c], meta[w].pkg[c])
                                              ELSE cfdi[c]]
  BY DEF UpsertBatch
<1>2. MetaOK(w) /\ meta[w].todo \subseteq Cfdi /\ cfdi \in [Cfdi -> CfdiRow]
  BY DEF IInv, TypeOK
<1>3. ASSUME NEW c \in Cfdi
      PROVE  /\ cfdi'[c] \in CfdiRow
             /\ cfdi[c].known => cfdi'[c].known
             /\ cfdi[c].fromXml => cfdi'[c].fromXml
             /\ cfdi'[c].fromXml => cfdi'[c].known
             /\ Cancelled(c) => Cancelled(c)'
             /\ Cancelled(c)' => c \in sat
  <2>1. CASE c \notin batch
    <3>1. cfdi'[c] = cfdi[c]
      BY <1>1, <2>1
    <3> QED
      BY <1>2, <3>1 DEF IInv, RowsOK, Cancelled
  <2>2. CASE c \in batch
    <3>1. cfdi'[c] = Upsert(cfdi[c], meta[w].pkg[c])
      BY <1>1, <2>2
    <3>2. c \in DOMAIN meta[w].pkg
      BY <1>2, <2>2 DEF MetaOK
    <3>3. meta[w].pkg[c] \in {"vigente", "cancelado"}
      <4>1. meta[w].pkg \in Snapshot \cup {<<>>}
        BY DEF IInv, TypeOK
      <4>2. meta[w].pkg \in Snapshot
        BY <3>2, <4>1
      <4> QED
        BY <3>2, <4>2 DEF Snapshot
    <3>4. meta[w].pkg[c] # "vigente" => c \in sat
      BY <1>2, <3>2, <3>3 DEF MetaOK, TrueSnapshot
    <3>5. cfdi[c] \in CfdiRow /\ (cfdi[c].fromXml => cfdi[c].known) /\ (Cancelled(c) => c \in sat)
      BY <1>2 DEF IInv, RowsOK
    <3> DEFINE v == meta[w].pkg[c] = "vigente"
    <3>6. CASE ~cfdi[c].known
      <4>1. cfdi'[c] = [known |-> TRUE, estatus |-> v, fromXml |-> FALSE]
        BY <3>1, <3>6 DEF Upsert
      <4>2. v \in BOOLEAN
        OBVIOUS
      <4>3. ~v => c \in sat
        BY <3>4
      <4> HIDE DEF v
      <4>4. cfdi'[c].known /\ ~cfdi'[c].fromXml /\ cfdi'[c].estatus = v
        BY <4>1
      <4>5. cfdi'[c] \in CfdiRow
        BY <4>1, <4>2 DEF CfdiRow
      <4> QED
        BY <4>2, <4>3, <4>4, <4>5, <3>5, <3>6 DEF Cancelled
    <3>7. CASE cfdi[c].known
      <4>1. cfdi'[c] = [cfdi[c] EXCEPT !.estatus = cfdi[c].estatus /\ v]
        BY <3>1, <3>7 DEF Upsert
      <4>2. cfdi'[c] \in CfdiRow
        BY <4>1, <3>5 DEF CfdiRow
      <4>3. /\ cfdi'[c].known = cfdi[c].known
            /\ cfdi'[c].fromXml = cfdi[c].fromXml
            /\ cfdi'[c].estatus = (cfdi[c].estatus /\ v)
        BY <4>1, <3>5 DEF CfdiRow
      <4> QED
        BY <4>2, <4>3, <3>4, <3>5, <3>7 DEF Cancelled
    <3> QED
      BY <3>6, <3>7
  <2> QED
    BY <2>1, <2>2
<1>4. cfdi' \in [Cfdi -> CfdiRow]
  BY <1>1, <1>3
<1> QED
  BY <1>3, <1>4 DEF CfdiLearns

\* A record that is not "Vigente" leaves its row cancelled.
LEMMA UpsertCancels ==
  ASSUME NEW row \in CfdiRow
  PROVE  Upsert(row, "cancelado").known /\ ~Upsert(row, "cancelado").estatus
<1>1. CASE ~row.known
  BY <1>1 DEF Upsert
<1>2. CASE row.known
  <2>1. Upsert(row, "cancelado") = [row EXCEPT !.estatus = row.estatus /\ "cancelado" = "vigente"]
    BY <1>2 DEF Upsert
  <2>2. (row.estatus /\ "cancelado" = "vigente") = FALSE
    OBVIOUS
  <2>3. Upsert(row, "cancelado") = [row EXCEPT !.estatus = FALSE]
    BY <2>1, <2>2
  <2> QED
    BY <1>2, <2>3 DEF CfdiRow
<1> QED
  BY <1>1, <1>2

LEMMA InvUpsertBatch ==
  ASSUME IInv, NEW w \in Worker, UpsertBatch(w)
  PROVE  IInv'
<1>1. PICK batch \in SUBSET meta[w].todo :
        /\ cfdi' = [c \in Cfdi |-> IF c \in batch THEN Upsert(cfdi[c], meta[w].pkg[c])
                                                   ELSE cfdi[c]]
        /\ meta' = [meta EXCEPT
             ![w].todo = @ \ batch,
             ![w].cancelled = @ \cup {c \in batch : meta[w].pkg[c] = "cancelado"}]
  BY DEF UpsertBatch
<1>2. CfdiLearns
  BY BatchLearns
<1>3. UNCHANGED <<sat, metadata, xmls, related, xml>>
  BY DEF UpsertBatch
<1>4. /\ meta[w] \in [step : MetaStep, pkg : Snapshot \cup {<<>>},
                      todo : SUBSET Cfdi, cancelled : SUBSET Cfdi]
      /\ batch \subseteq Cfdi
      /\ MetaOK(w)
  BY DEF IInv, TypeOK
<1> DEFINE m == [meta[w] EXCEPT
                   !.todo = @ \ batch,
                   !.cancelled = @ \cup {c \in batch : meta[w].pkg[c] = "cancelado"}]
<1>5. meta' = [meta EXCEPT ![w] = m]
  BY <1>1 DEF IInv, TypeOK
<1>6. /\ m \in [step : MetaStep, pkg : Snapshot \cup {<<>>},
                todo : SUBSET Cfdi, cancelled : SUBSET Cfdi]
      /\ m.pkg = meta[w].pkg /\ m.todo \subseteq meta[w].todo
      /\ m.cancelled = meta[w].cancelled
                        \cup {c \in batch : meta[w].pkg[c] = "cancelado"}
  BY <1>4
<1> HIDE DEF m
<1>7. TypeOK'
  BY <1>2, <1>3, <1>5, <1>6 DEF IInv, TypeOK, CfdiLearns
<1>8. \A c \in m.cancelled : Cancelled(c)'
  <2>1. ASSUME NEW c \in meta[w].cancelled PROVE Cancelled(c)'
    BY <1>2, <1>4 DEF MetaOK, CfdiLearns
  <2>2. ASSUME NEW c \in batch, meta[w].pkg[c] = "cancelado" PROVE Cancelled(c)'
    <3>1. c \in Cfdi /\ cfdi'[c] = Upsert(cfdi[c], "cancelado") /\ cfdi[c] \in CfdiRow
      BY <1>1, <1>4, <2>2 DEF IInv, TypeOK
    <3>2. cfdi'[c].known /\ ~cfdi'[c].estatus
      BY <3>1, UpsertCancels
    <3> QED
      BY <3>2 DEF Cancelled
  <2> QED
    BY <1>6, <2>1, <2>2
<1>9. ASSUME NEW v \in Worker PROVE MetaOK(v)'
  <2>1. CASE v = w
    <3>1. meta'[v] = m
      BY <1>5, <2>1 DEF IInv, TypeOK
    <3> QED
      BY <1>3, <1>4, <1>6, <1>8, <3>1 DEF MetaOK, TrueSnapshot
  <2>2. CASE v # w
    <3>1. meta'[v] = meta[v] /\ meta[v].cancelled \subseteq Cfdi /\ MetaOK(v)
      BY <1>5, <2>2 DEF IInv, TypeOK
    <3>2. \A c \in meta[v].cancelled : Cancelled(c)'
      BY <1>2, <3>1 DEF MetaOK, CfdiLearns
    <3> QED
      BY <1>3, <3>1, <3>2 DEF MetaOK, TrueSnapshot
  <2> QED
    BY <2>1, <2>2
<1>10. ASSUME NEW v \in Worker PROVE XmlOK(v)'
  <2>1. XmlOK(v) /\ xml' = xml
    BY <1>3 DEF IInv
  <2> QED
    BY <1>2, <2>1 DEF XmlOK, CfdiLearns
<1>11. RowsOK' /\ RelatedMatchesCfdi'
  BY <1>2, <1>3, InvLearns, <1>4 DEF IInv
<1>12. \A p \in metadata' : TrueSnapshot(p)'
  BY <1>3 DEF IInv, TrueSnapshot
<1> QED
  BY <1>7, <1>9, <1>10, <1>11, <1>12 DEF IInv

LEMMA InvCancelRelated ==
  ASSUME IInv, NEW w \in Worker, CancelRelated(w)
  PROVE  IInv'
<1>1. meta' = [meta EXCEPT ![w].step = AfterCascade(@)]
      /\ UNCHANGED <<sat, metadata, xmls, cfdi, xml>>
      /\ meta[w].step \in {"payment_relation", "payment", "cfdi_relacionado"}
  BY DEF CancelRelated
<1>2. PICK s \in MetaStep : meta' = [meta EXCEPT ![w].step = s]
  BY <1>1 DEF AfterCascade, MetaStep, IInv, TypeOK
<1>3. MetaOK(w)
  BY DEF IInv
<1>4. ASSUME NEW t \in Table, NEW c \in Cfdi
      PROVE  /\ related'[t][c] \in Rows
             /\ related'[t][c] # "none" => related[t][c] # "none"
             /\ related'[t][c] = "inactive" => related[t][c] = "inactive" \/ Cancelled(c)
  <2>1. CASE related' = related
    BY <2>1 DEF IInv, TypeOK
  <2>2. CASE related' = Deactivated(meta[w].step, meta[w].cancelled)
    <3>1. related'[t][c] = IF t = meta[w].step /\ c \in meta[w].cancelled
                              /\ related[t][c] = "active"
                           THEN "inactive" ELSE related[t][c]
      BY <2>2 DEF Deactivated, IInv, TypeOK
    <3>2. c \in meta[w].cancelled => Cancelled(c)
      BY <1>3 DEF MetaOK
    <3>3. related[t][c] \in Rows
      BY DEF IInv, TypeOK
    <3> QED
      BY <3>1, <3>2, <3>3 DEF Rows
  <2> QED
    BY <2>1, <2>2 DEF CancelRelated
<1>5. related' \in [Table -> [Cfdi -> Rows]]
  <2>1. CASE related' = related
    BY <2>1 DEF IInv, TypeOK
  <2>2. CASE related' = Deactivated(meta[w].step, meta[w].cancelled)
    BY <2>2, <1>4 DEF Deactivated, IInv, TypeOK
  <2> QED
    BY <2>1, <2>2 DEF CancelRelated
<1>6. TypeOK'
  <2> DEFINE M == [step : MetaStep, pkg : Snapshot \cup {<<>>},
                  todo : SUBSET Cfdi, cancelled : SUBSET Cfdi]
             m == [meta[w] EXCEPT !.step = s]
  <2>1. meta \in [Worker -> M]
    BY DEF IInv, TypeOK
  <2>2. meta' = [meta EXCEPT ![w] = m]
    BY <1>2, <2>1
  <2>3. m \in M
    BY <2>1
  <2> HIDE DEF m
  <2>4. meta' \in [Worker -> M]
    BY <2>1, <2>2, <2>3
  <2> QED
    BY <1>1, <1>5, <2>4 DEF IInv, TypeOK
<1>7. ASSUME NEW v \in Worker PROVE MetaOK(v)'
  <2>1. /\ meta'[v].pkg = meta[v].pkg /\ meta'[v].todo = meta[v].todo
        /\ meta'[v].cancelled = meta[v].cancelled
    BY <1>2 DEF IInv, TypeOK
  <2> QED
    BY <1>1, <2>1 DEF IInv, MetaOK, TrueSnapshot, Cancelled
<1>8. RelatedMatchesCfdi'
  BY <1>1, <1>4 DEF IInv, RelatedMatchesCfdi, Cancelled
<1> QED
  BY <1>1, <1>6, <1>7, <1>8 DEF IInv, XmlOK, RowsOK, Cancelled, TrueSnapshot

-----------------------------------------------------------------------------
(* ProcessXML *)

LEMMA InvXmlOnly ==
  ASSUME IInv, NEW w \in Worker, NEW x,
         UNCHANGED <<sat, metadata, cfdi, meta>>,
         xmls' \subseteq xmls,
         xml' = [xml EXCEPT ![w] = x],
         x \in [step : XmlStep, pkg : SUBSET Cfdi, todo : SUBSET Cfdi,
               cur : Cfdi \cup {NoCfdi}],
         x.step \in {"insert", "relations", "payment", "doctos", "nomina"} => x.cur \in Cfdi,
         x.step \in {"relations", "payment", "doctos", "nomina"} => cfdi[x.cur].known,
         related' \in [Table -> [Cfdi -> Rows]],
         RelatedMatchesCfdi'
  PROVE  IInv'
<1>1. TypeOK'
  BY DEF IInv, TypeOK
<1>2. ASSUME NEW v \in Worker PROVE XmlOK(v)'
  <2>1. v = w => xml'[v] = x
    BY DEF IInv, TypeOK
  <2>2. v # w => xml'[v] = xml[v]
    BY DEF IInv, TypeOK
  <2> QED
    BY <2>1, <2>2 DEF IInv, XmlOK
<1> QED
  BY <1>1, <1>2 DEF IInv, MetaOK, RowsOK, TrueSnapshot, Cancelled

\* A statement for the related rows of the CFDI in hand.
LEMMA InvRelated ==
  ASSUME IInv, NEW w \in Worker, NEW s \in XmlStep, NEW cur \in Cfdi \cup {NoCfdi},
         NEW t \in Table,
         xml[w].step \in {"relations", "payment", "doctos", "nomina"},
         UNCHANGED <<sat, metadata, xmls, cfdi, meta>>,
         xml' = [xml EXCEPT ![w].step = s, ![w].cur = cur],
         \/ s = "update"
         \/ s \in {"payment", "doctos", "nomina"} /\ cur = xml[w].cur,
         \/ UNCHANGED related
         \/ Written(t, xml[w].cur)
         \/ Kept(t, xml[w].cur)
  PROVE  IInv'
<1>1. /\ xml[w] \in [step : XmlStep, pkg : SUBSET Cfdi, todo : SUBSET Cfdi,
                     cur : Cfdi \cup {NoCfdi}]
      /\ xml[w].cur \in Cfdi
      /\ cfdi[xml[w].cur].known
  BY DEF IInv, TypeOK, XmlOK
<1>2. PICK c \in Cfdi : c = xml[w].cur
  BY <1>1
<1> DEFINE x == [xml[w] EXCEPT !.step = s, !.cur = cur]
<1>3. xml' = [xml EXCEPT ![w] = x]
  BY DEF IInv, TypeOK
<1>4. /\ x \in [step : XmlStep, pkg : SUBSET Cfdi, todo : SUBSET Cfdi,
               cur : Cfdi \cup {NoCfdi}]
      /\ x.step = s /\ x.cur = cur
  BY <1>1
<1> HIDE DEF x
<1>5. /\ x.step \in {"insert", "relations", "payment", "doctos", "nomina"} => x.cur \in Cfdi
      /\ x.step \in {"relations", "payment", "doctos", "nomina"} => cfdi[x.cur].known
  BY <1>1, <1>4
<1>6. ASSUME NEW u \in Table, NEW d \in Cfdi
      PROVE  /\ related'[u][d] \in Rows
             /\ related'[u][d] # related[u][d] =>
                  d = c /\ related'[u][d] = "active"
  BY <1>2 DEF Written, Kept, IInv, TypeOK, Rows
<1>7. related' \in [Table -> [Cfdi -> Rows]]
  <2>1. \/ related' = related
        \/ \E r \in Rows : related' = [related EXCEPT ![t][c] = r]
    BY <1>2 DEF Written, Kept, IInv, TypeOK, Rows
  <2>2. related \in [Table -> [Cfdi -> Rows]]
    BY DEF IInv, TypeOK
  <2> QED
    BY <2>1, <2>2
<1>8. RelatedMatchesCfdi'
  BY <1>1, <1>2, <1>6 DEF IInv, RelatedMatchesCfdi, Cancelled
<1> QED
  BY <1>3, <1>4, <1>5, <1>7, <1>8, InvXmlOnly

LEMMA InvTakeXml ==
  ASSUME IInv, NEW w \in Worker, TakeXml(w) \/ XmlProcessed(w)
  PROVE  IInv'
<1>1. UNCHANGED <<sat, metadata, cfdi, meta, related>> /\ xmls' \subseteq xmls
  BY DEF TakeXml, XmlProcessed
<1>2. PICK x : /\ xml' = [xml EXCEPT ![w] = x]
               /\ \/ x = IdleXml
                  \/ \E pkg \in xmls : x = [step |-> "update", pkg |-> pkg, todo |-> pkg,
                                            cur |-> NoCfdi]
  BY DEF TakeXml, XmlProcessed
<1>3. /\ x \in [step : XmlStep, pkg : SUBSET Cfdi, todo : SUBSET Cfdi,
               cur : Cfdi \cup {NoCfdi}]
      /\ x.step \in {"idle", "update"}
  BY <1>2 DEF IInv, TypeOK, IdleXml, XmlStep
<1>4. related' \in [Table -> [Cfdi -> Rows]] /\ RelatedMatchesCfdi'
  BY <1>1 DEF IInv, TypeOK, RelatedMatchesCfdi, Cancelled
<1> QED
  BY <1>1, <1>2, <1>3, <1>4, InvXmlOnly

LEMMA InvUpsertFromXMLFails ==
  ASSUME IInv, NEW w \in Worker, UpsertFromXMLFails(w)
  PROVE  IInv'
<1>1. UNCHANGED <<sat, metadata, cfdi, meta, related>> /\ xmls' \subseteq xmls
  BY DEF UpsertFromXMLFails
<1>2. /\ xml[w] \in [step : XmlStep, pkg : SUBSET Cfdi, todo : SUBSET Cfdi,
                     cur : Cfdi \cup {NoCfdi}]
      /\ xml \in [Worker -> [step : XmlStep, pkg : SUBSET Cfdi, todo : SUBSET Cfdi,
                             cur : Cfdi \cup {NoCfdi}]]
  BY DEF IInv, TypeOK
<1>3. PICK x : /\ xml' = [xml EXCEPT ![w] = x]
               /\ \/ \E c \in xml[w].todo : /\ x = [xml[w] EXCEPT !.todo = @ \ {c}]
                                            /\ xml[w].step = "update"
                  \/ x = [xml[w] EXCEPT !.step = "update", !.cur = NoCfdi]
  BY <1>2 DEF UpsertFromXMLFails
<1>4. /\ x \in [step : XmlStep, pkg : SUBSET Cfdi, todo : SUBSET Cfdi,
               cur : Cfdi \cup {NoCfdi}]
      /\ x.step = "update"
  BY <1>2, <1>3 DEF XmlStep
<1>5. related' \in [Table -> [Cfdi -> Rows]] /\ RelatedMatchesCfdi'
  BY <1>1 DEF IInv, TypeOK, RelatedMatchesCfdi, Cancelled
<1> QED
  BY <1>1, <1>3, <1>4, <1>5, InvXmlOnly

LEMMA InvXmlInserts ==
  ASSUME IInv, NEW w \in Worker,
         InsertCfdiRelaciones(w) \/ InsertPayments(w) \/ InsertNomina(w)
  PROVE  IInv'
<1>1. xml \in [Worker -> [step : XmlStep, pkg : SUBSET Cfdi, todo : SUBSET Cfdi,
                         cur : Cfdi \cup {NoCfdi}]]
  BY DEF IInv, TypeOK
<1>2. ASSUME NEW s \in XmlStep, xml' = [xml EXCEPT ![w].step = s]
      PROVE  xml' = [xml EXCEPT ![w].step = s, ![w].cur = xml[w].cur]
  BY <1>1, <1>2
<1>3. xml[w].cur \in Cfdi \cup {NoCfdi}
  BY <1>1
<1>4. PICK s \in XmlStep, cur \in Cfdi \cup {NoCfdi}, t \in Table :
        /\ xml[w].step \in {"relations", "payment", "doctos", "nomina"}
        /\ UNCHANGED <<sat, metadata, xmls, cfdi, meta>>
        /\ xml' = [xml EXCEPT ![w].step = s, ![w].cur = cur]
        /\ \/ s = "update"
           \/ s \in {"payment", "doctos", "nomina"} /\ cur = xml[w].cur
        /\ \/ UNCHANGED related
           \/ Written(t, xml[w].cur)
           \/ Kept(t, xml[w].cur)
  <2>1. CASE InsertCfdiRelaciones(w)
    <3>1. xml' = [xml EXCEPT ![w].step = "payment", ![w].cur = xml[w].cur]
      BY <1>2, <2>1 DEF InsertCfdiRelaciones, XmlGoTo, XmlStep
    <3>2. UNCHANGED related \/ Written("cfdi_relation", xml[w].cur)
      BY <2>1 DEF InsertCfdiRelaciones, NoRows
    <3> QED
      BY <1>3, <2>1, <3>1, <3>2 DEF InsertCfdiRelaciones, XmlStep, Table
  <2>2. CASE InsertPayments(w)
    <3>1. PICK s \in {"doctos", "nomina"} : XmlGoTo(w, s)
      BY <2>2 DEF InsertPayments
    <3>2. xml' = [xml EXCEPT ![w].step = s, ![w].cur = xml[w].cur]
      BY <1>2, <3>1 DEF XmlGoTo, XmlStep
    <3>3. \/ UNCHANGED related
          \/ Kept("payment", xml[w].cur)
          \/ Kept("payment_relation", xml[w].cur)
      BY <2>2 DEF InsertPayments, NoRows
    <3> QED
      BY <1>3, <2>2, <3>2, <3>3 DEF InsertPayments, XmlStep, Table
  <2>3. CASE InsertNomina(w)
    BY <2>3 DEF InsertNomina, NoRows, XmlStep, Table
  <2> QED
    BY <2>1, <2>2, <2>3
<1> QED
  BY <1>4, InvRelated

LEMMA InvDie ==
  ASSUME IInv, NEW w \in Worker, Die(w)
  PROVE  IInv'
  BY DEF IInv, Die, TypeOK, RowsOK, RelatedMatchesCfdi, MetaOK, XmlOK, TrueSnapshot,
     Cancelled, IdleMeta, IdleXml, MetaStep, XmlStep

\* A statement of upsertFromXML: the cfdi table learns, and the loop has the
\* CFDI c in hand, which the table knows unless the UPDATE found no row.
LEMMA InvUpsertFromXML ==
  ASSUME IInv, CfdiLearns, UNCHANGED <<sat, metadata, xmls, related, meta>>,
         NEW w \in Worker, NEW x, xml' = [xml EXCEPT ![w] = x],
         x \in [step : XmlStep, pkg : SUBSET Cfdi, todo : SUBSET Cfdi,
                cur : Cfdi \cup {NoCfdi}],
         x.step \in {"insert", "relations"}, x.cur \in Cfdi,
         x.step = "relations" => cfdi'[x.cur].known
  PROVE  IInv'
<1>1. TypeOK'
  BY DEF IInv, TypeOK, CfdiLearns
<1>2. ASSUME NEW v \in Worker PROVE XmlOK(v)'
  <2>1. v = w => xml'[v] = x
    BY DEF IInv, TypeOK
  <2>2. v # w => xml'[v] = xml[v]
    BY DEF IInv, TypeOK
  <2>3. XmlOK(v)
    BY DEF IInv
  <2> QED
    BY <2>1, <2>2, <2>3 DEF XmlOK, CfdiLearns
<1>3. ASSUME NEW v \in Worker PROVE MetaOK(v)'
  <2>1. MetaOK(v) /\ meta[v].cancelled \subseteq Cfdi
    BY DEF IInv, TypeOK
  <2> QED
    BY <2>1 DEF MetaOK, TrueSnapshot, CfdiLearns
<1>4. \A pkg \in metadata' : TrueSnapshot(pkg)'
  BY DEF IInv, TrueSnapshot
<1>5. RowsOK' /\ RelatedMatchesCfdi'
  BY DEF IInv, CfdiLearns, RowsOK, RelatedMatchesCfdi, Cancelled
<1> QED
  BY <1>1, <1>2, <1>3, <1>4, <1>5 DEF IInv

LEMMA UpdateLearns ==
  ASSUME IInv, NEW c \in Cfdi, cfdi' = [cfdi EXCEPT ![c].fromXml = @ \/ cfdi[c].known],
         UNCHANGED sat
  PROVE  CfdiLearns /\ cfdi'[c].known = cfdi[c].known
<1>1. cfdi \in [Cfdi -> CfdiRow] /\ RowsOK
  BY DEF IInv, TypeOK
<1> DEFINE v == cfdi[c].fromXml \/ cfdi[c].known
           row == [cfdi[c] EXCEPT !.fromXml = v]
<1>2. v \in BOOLEAN /\ (v => cfdi[c].known) /\ (cfdi[c].fromXml => v)
  BY <1>1 DEF RowsOK
<1>3. cfdi' = [cfdi EXCEPT ![c] = row]
  BY <1>1
<1> HIDE DEF v
<1>4. /\ row \in CfdiRow
      /\ row.known = cfdi[c].known /\ row.estatus = cfdi[c].estatus /\ row.fromXml = v
  BY <1>1, <1>2 DEF CfdiRow
<1> HIDE DEF row
<1>5. /\ cfdi'[c] = row
      /\ \A d \in Cfdi \ {c} : cfdi'[d] = cfdi[d]
      /\ cfdi' \in [Cfdi -> CfdiRow]
  BY <1>1, <1>3, <1>4
<1> QED
  BY <1>1, <1>2, <1>4, <1>5 DEF CfdiLearns, RowsOK, Cancelled

LEMMA InsertLearns ==
  ASSUME IInv, NEW c \in Cfdi, cfdi' = [cfdi EXCEPT ![c] = Inserted(@)], UNCHANGED sat
  PROVE  CfdiLearns /\ cfdi'[c].known
<1>1. cfdi \in [Cfdi -> CfdiRow] /\ RowsOK
  BY DEF IInv, TypeOK
<1>2. /\ Inserted(cfdi[c]) \in CfdiRow
      /\ Inserted(cfdi[c]).known
      /\ \/ Inserted(cfdi[c]) = cfdi[c]
         \/ ~cfdi[c].known /\ Inserted(cfdi[c]).estatus
  BY <1>1 DEF Inserted, CfdiRow
<1>3. /\ cfdi'[c] = Inserted(cfdi[c])
      /\ \A d \in Cfdi \ {c} : cfdi'[d] = cfdi[d]
      /\ cfdi' \in [Cfdi -> CfdiRow]
  BY <1>1, <1>2
<1> QED
  BY <1>1, <1>2, <1>3 DEF CfdiLearns, RowsOK, Cancelled

\* Each statement of upsertFromXML, and what it does to the cfdi table.
LEMMA FromXMLLearns ==
  ASSUME IInv, NEW w \in Worker, UpdateFromXML(w) \/ InsertFromXML(w)
  PROVE  CfdiLearns /\ IInv'
<1>1. /\ xml[w] \in [step : XmlStep, pkg : SUBSET Cfdi, todo : SUBSET Cfdi,
                     cur : Cfdi \cup {NoCfdi}]
      /\ xml \in [Worker -> [step : XmlStep, pkg : SUBSET Cfdi, todo : SUBSET Cfdi,
                             cur : Cfdi \cup {NoCfdi}]]
  BY DEF IInv, TypeOK
<1>2. CASE UpdateFromXML(w)
  <2>1. PICK c \in xml[w].todo :
          /\ xml' = [xml EXCEPT ![w].todo = @ \ {c}, ![w].cur = c,
                                ![w].step = IF cfdi[c].known THEN "relations" ELSE "insert"]
          /\ cfdi' = [cfdi EXCEPT ![c].fromXml = @ \/ cfdi[c].known]
    BY <1>2 DEF UpdateFromXML
  <2>2. UNCHANGED <<sat, metadata, xmls, related, meta>> /\ c \in Cfdi
    BY <1>1, <1>2 DEF UpdateFromXML
  <2>3. CfdiLearns /\ cfdi'[c].known = cfdi[c].known
    BY <2>1, <2>2, UpdateLearns
  <2> DEFINE x == [xml[w] EXCEPT !.todo = @ \ {c}, !.cur = c,
                                 !.step = IF cfdi[c].known THEN "relations" ELSE "insert"]
  <2>4. xml' = [xml EXCEPT ![w] = x]
    BY <1>1, <2>1
  <2>5. /\ x \in [step : XmlStep, pkg : SUBSET Cfdi, todo : SUBSET Cfdi,
                 cur : Cfdi \cup {NoCfdi}]
        /\ x.cur = c /\ x.step \in {"insert", "relations"}
        /\ x.step = "relations" => cfdi[c].known
    BY <1>1, <2>2 DEF XmlStep
  <2> HIDE DEF x
  <2> QED
    BY <2>2, <2>3, <2>4, <2>5, InvUpsertFromXML
<1>3. CASE InsertFromXML(w)
  <2>1. /\ xml[w].step = "insert" /\ xml[w].cur \in Cfdi
        /\ cfdi' = [cfdi EXCEPT ![xml[w].cur] = Inserted(@)]
        /\ xml' = [xml EXCEPT ![w].step = "relations"]
        /\ UNCHANGED <<sat, metadata, xmls, related, meta>>
    BY <1>3 DEF InsertFromXML, XmlGoTo, IInv, XmlOK
  <2>2. PICK c \in Cfdi : c = xml[w].cur
    BY <2>1
  <2>3. CfdiLearns /\ cfdi'[c].known
    BY <2>1, <2>2, InsertLearns
  <2> DEFINE x == [xml[w] EXCEPT !.step = "relations"]
  <2>4. xml' = [xml EXCEPT ![w] = x]
    BY <1>1, <2>1
  <2>5. /\ x \in [step : XmlStep, pkg : SUBSET Cfdi, todo : SUBSET Cfdi,
                 cur : Cfdi \cup {NoCfdi}]
        /\ x.cur = c /\ x.step = "relations"
    BY <1>1, <2>2 DEF XmlStep
  <2> HIDE DEF x
  <2> QED
    BY <2>1, <2>3, <2>4, <2>5, InvUpsertFromXML
<1> QED
  BY <1>2, <1>3

-----------------------------------------------------------------------------
(* The theorems *)

LEMMA Invariance == Spec => []IInv
<1>1. IInv /\ [Next]_vars => IInv'
  <2> SUFFICES ASSUME IInv, [Next]_vars PROVE IInv'
    OBVIOUS
  <2>1. CASE UNCHANGED vars
    BY <2>1, Zenon DEF vars, IInv, TypeOK, RowsOK, RelatedMatchesCfdi, MetaOK, XmlOK,
       TrueSnapshot, Cancelled
  <2>2. CASE \E c \in Cfdi : Cancel(c)
    BY <2>2, InvCancel
  <2>3. CASE \E S \in Direction : RequestMetadata(S) \/ RequestXml(S) \/ CompleteCFDIs(S)
    BY <2>3, InvRequestMetadata, InvXmlRequests
  <2>4. ASSUME NEW w \in Worker, ProcessMetadata(w) PROVE IInv'
    BY <2>4, InvTakeMetadata, InvMetaMoves, InvUpsertBatch, InvCancelRelated
       DEF ProcessMetadata
  <2>5. ASSUME NEW w \in Worker, ProcessXML(w) PROVE IInv'
    BY <2>5, InvTakeXml, FromXMLLearns, InvUpsertFromXMLFails, InvXmlInserts
       DEF ProcessXML
  <2>6. ASSUME NEW w \in Worker, Die(w) PROVE IInv'
    BY <2>6, InvDie
  <2> QED
    BY <2>1, <2>2, <2>3, <2>4, <2>5, <2>6 DEF Next
<1> QED
  BY <1>1, InvInit, PTL DEF Spec

\* The tables, the messages and the loops keep their shape: each loop has a
\* step of its handler, and the statuses are those of the columns.
THEOREM TypeCorrect == Spec => []TypeOK
<1>1. IInv => TypeOK
  BY DEF IInv
<1> QED
  BY <1>1, Invariance, PTL

\* process_metadata.go and process_xml.go: related rows exist only for CFDIs of
\* the table, and only those of cancelled CFDIs are inactive, whatever the
\* interleaving of the statements, the failures and the redeliveries.
THEOREM RelatedRows == Spec => []RelatedMatchesCfdi
<1>1. IInv => RelatedMatchesCfdi
  BY DEF IInv
<1> QED
  BY <1>1, Invariance, PTL

-----------------------------------------------------------------------------
(* The implementation of CfdiRegister *)

Status == [c \in Cfdi |-> IF ~cfdi[c].known THEN "unknown"
                          ELSE IF cfdi[c].estatus THEN "vigente" ELSE "cancelado"]
HasXml == {c \in Cfdi : cfdi[c].fromXml}

LEMMA LearnsImplements ==
  ASSUME IInv, CfdiLearns, UNCHANGED sat
  PROVE  Learned!Learn
<1>1. ASSUME NEW c \in Cfdi
      PROVE  Status'[c] \in Learned!Later(Status[c], c \in sat)
  BY DEF CfdiLearns, Cancelled, Status, Learned!Later
<1>2. HasXml \subseteq HasXml' /\ \A c \in HasXml' : Status'[c] # "unknown"
  BY DEF CfdiLearns, HasXml, Status
<1> QED
  BY <1>1, <1>2 DEF Learned!Learn, Status, HasXml

LEMMA StepImplements ==
  IInv /\ [Next]_vars => [Learned!Cancel \/ Learned!Learn]_<<sat, Status, HasXml>>
<1> SUFFICES ASSUME IInv, [Next]_vars
             PROVE  [Learned!Cancel \/ Learned!Learn]_<<sat, Status, HasXml>>
  OBVIOUS
<1>1. UNCHANGED cfdi => UNCHANGED <<Status, HasXml>>
  BY DEF Status, HasXml
<1>2. CASE UNCHANGED <<sat, cfdi>>
  BY <1>1, <1>2
<1>3. ASSUME NEW c \in Cfdi, Cancel(c) PROVE Learned!Cancel
  BY <1>1, <1>3 DEF Cancel, Learned!Cancel, Status, HasXml
<1>4. ASSUME NEW w \in Worker, UpsertBatch(w) \/ UpdateFromXML(w) \/ InsertFromXML(w)
      PROVE  Learned!Learn
  <2>1. CfdiLearns /\ UNCHANGED sat
    BY <1>4, BatchLearns, FromXMLLearns DEF UpsertBatch, UpdateFromXML, InsertFromXML
  <2> QED
    BY <2>1, LearnsImplements
<1>5. \/ UNCHANGED <<sat, cfdi>>
      \/ \E c \in Cfdi : Cancel(c)
      \/ \E w \in Worker : UpsertBatch(w) \/ UpdateFromXML(w) \/ InsertFromXML(w)
  BY DEF Next, vars, RequestMetadata, RequestXml, CompleteCFDIs, ProcessMetadata,
     TakeMetadata, UpsertFails, BatchesDone, CancelRelated, MetadataProcessed, ProcessXML,
     TakeXml, UpsertFromXMLFails, InsertCfdiRelaciones, InsertPayments, InsertNomina,
     XmlProcessed, Die
<1> QED
  BY <1>2, <1>3, <1>4, <1>5

\* The two handlers implement CfdiRegister: with packages out of order and
\* redelivered, failing statements and both loops of every replica at work, the
\* cfdi table only learns; a cancellation in it is true and stays.
THEOREM Implementation == Spec => OnlyLearns
<1>1. Init => Learned!Init
  BY DEF Init, Learned!Init
<1>2. IInv /\ [Next]_vars => [Learned!Cancel \/ Learned!Learn]_<<sat, Status, HasXml>>
  BY StepImplements
<1> QED
  BY <1>1, <1>2, Invariance, PTL DEF Spec, OnlyLearns, Learned!Spec, Status, HasXml
=============================================================================
