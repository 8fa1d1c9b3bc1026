------------------------------ MODULE CfdiStore ------------------------------
(***************************************************************************)
(* The tables that ProcessMetadata and ProcessXML fill from the packages   *)
(* of the SAT: cfdi, payment, payment_relation, cfdi_relation and nomina.  *)
(* The two handlers run in receive loops of their own and never look at    *)
(* each other: each SQL statement is one step here, and the statements of  *)
(* the loops of every replica interleave.                                  *)
(*                                                                         *)
(* A package of metadata is a snapshot of the SAT's statuses that may be   *)
(* old when it is processed; a package of XMLs is a set of CFDIs.  A       *)
(* message of one package stands for the messages of several: the handlers *)
(* treat the packages one by one.                                          *)
(*                                                                         *)
(* Faults: "db", a statement may fail; "redeliver", the process may die or *)
(* the lock of the message expire at any step.                             *)
(***************************************************************************)
EXTENDS Naturals, FiniteSets

CONSTANTS
  Cfdi,       \* the UUIDs of a company's CFDIs
  Received,   \* those with is_issued = false
  Contents,   \* Contents[c]: the related rows that the XML of c describes
  Day,        \* Day[c]: the day of the Fecha of c; no Fecha is a midnight
  NoCfdi,     \* an XML loop has none in hand
  Worker,     \* the replicas of the worker
  BatchSize,  \* batchSize of upsertMetadataRecords
  Faults

ASSUME StoreAssumption ==
  /\ IsFiniteSet(Cfdi)
  /\ Received \subseteq Cfdi
  /\ NoCfdi \notin Cfdi
  /\ Contents \in [Cfdi -> SUBSET {"payments", "relations", "nomina"}]
  /\ Day \in [Cfdi -> Nat]
  /\ BatchSize \in Nat \ {0}
  /\ Faults \subseteq {"db", "redeliver"}

VARIABLES
  sat,       \* the CFDIs the SAT has cancelled
  metadata,  \* SAT_METADATA_DOWNLOADED messages: the package of each
  xmls,      \* SAT_CFDIS_DOWNLOADED messages: the package of each
  cfdi,      \* the cfdi table
  related,   \* the tables of related rows, by the CFDI the rows come from
  meta,      \* where the ProcessMetadata loop of each replica is
  xml        \* where its ProcessXML loop is

vars == <<sat, metadata, xmls, cfdi, related, meta, xml>>

Direction == {Cfdi \ Received, Received} \ {{}}

Snapshot == UNION {[S -> {"vigente", "cancelado"}] : S \in Direction}

CfdiRow == [known : BOOLEAN, estatus : BOOLEAN, fromXml : BOOLEAN]

Table == {"payment", "payment_relation", "cfdi_relation", "nomina"}

\* The related rows of one CFDI in one table: absent, or with Estatus true or
\* false.
Rows == {"none", "active", "inactive"}

MetaStep == {"idle", "batches", "payment_relation", "payment", "cfdi_relacionado", "done"}
XmlStep  == {"idle", "update", "insert", "relations", "payment", "doctos", "nomina"}

IdleMeta == [step |-> "idle", pkg |-> <<>>, todo |-> {}, cancelled |-> {}]
IdleXml  == [step |-> "idle", pkg |-> {}, todo |-> {}, cur |-> NoCfdi]

Init ==
  /\ sat = {}
  /\ metadata = {}
  /\ xmls = {}
  /\ cfdi = [c \in Cfdi |-> [known |-> FALSE, estatus |-> FALSE, fromXml |-> FALSE]]
  /\ related = [t \in Table |-> [c \in Cfdi |-> "none"]]
  /\ meta = [w \in Worker |-> IdleMeta]
  /\ xml = [w \in Worker |-> IdleXml]

-----------------------------------------------------------------------------
(* The SAT and the queries that bring its packages *)

Cancel(c) ==
  /\ c \notin sat
  /\ sat' = sat \cup {c}
  /\ UNCHANGED <<metadata, xmls, cfdi, related, meta, xml>>

\* A METADATA query of one direction, over the range of every metadata query.
RequestMetadata(S) ==
  /\ metadata' = metadata \cup {[c \in S |-> IF c \in sat THEN "cancelado" ELSE "vigente"]}
  /\ UNCHANGED <<sat, xmls, cfdi, related, meta, xml>>

\* "CFDIs Recibidos solo se pueden descargar si están Vigentes."
Downloadable(S) == S \ (sat \cap Received)

\* The packages that answer a CFDI query for the CFDIs of S.
Packages(S) == {Downloadable(S)} \ {{}}

\* The CFDI queries of a new company, an administrator or a manual request.
RequestXml(S) ==
  /\ xmls' = xmls \cup Packages(S)
  /\ UNCHANGED <<sat, metadata, cfdi, related, meta, xml>>

\* Variant: the condition on the status is negated.
NeedXmlOfCancelled(S) == {c \in S : cfdi[c].known /\ ~cfdi[c].estatus /\ ~cfdi[c].fromXml}

NeedXml(S) == {c \in S : cfdi[c].known /\ cfdi[c].estatus /\ ~cfdi[c].fromXml}

\* A query from the day of the first CFDI without XML to the day of the last,
\* both cut to their midnight: it brings other CFDIs of these days along, and
\* nothing of the last day.  (Module CfdiChunks has the chunks of more than
\* maxCFDIPerChunk CFDIs.)
CompleteCFDIs(S) ==
  /\ xmls' = xmls \cup Packages({c \in S : \E first, last \in NeedXml(S) :
                                        Day[first] <= Day[c] /\ Day[c] < Day[last]})
  /\ UNCHANGED <<sat, metadata, cfdi, related, meta, xml>>

-----------------------------------------------------------------------------
(* ProcessMetadata *)

\* Under peek-lock a message is in one loop's hands, until its lock expires.
TakeMetadata(w) ==
  /\ meta[w].step = "idle"
  /\ \E pkg \in metadata :
       /\ "redeliver" \in Faults \/ \A v \in Worker : meta[v].pkg # pkg
       /\ meta' = [meta EXCEPT ![w] = [step |-> "batches", pkg |-> pkg,
                                       todo |-> DOMAIN pkg, cancelled |-> {}]]
  /\ UNCHANGED <<sat, metadata, xmls, cfdi, related, xml>>

\* Variant: every status of the package is taken over.
UpsertAll(row, status) == [row EXCEPT !.known = TRUE, !.estatus = (status = "vigente")]

\* INSERT ... ON CONFLICT DO UPDATE, for a row that is active and a record
\* that is not.
Upsert(row, status) ==
  IF ~row.known THEN [known |-> TRUE, estatus |-> (status = "vigente"), fromXml |-> FALSE]
  ELSE [row EXCEPT !.estatus = @ /\ status = "vigente"]

\* One statement of upsertMetadataRecords.
UpsertBatch(w) ==
  /\ meta[w].step = "batches"
  /\ \E batch \in SUBSET meta[w].todo :
       /\ batch # {}
       /\ \/ Cardinality(batch) = BatchSize
          \/ Cardinality(batch) < BatchSize /\ batch = meta[w].todo
       /\ cfdi' = [c \in Cfdi |-> IF c \in batch THEN Upsert(cfdi[c], meta[w].pkg[c])
                                                 ELSE cfdi[c]]
       /\ meta' = [meta EXCEPT
            ![w].todo = @ \ batch,
            ![w].cancelled = @ \cup {c \in batch : meta[w].pkg[c] = "cancelado"}]
  /\ UNCHANGED <<sat, metadata, xmls, related, xml>>

\* The package is given up, and with it the cascade of what was upserted.
UpsertFails(w) ==
  /\ "db" \in Faults
  /\ meta[w].step = "batches"
  /\ meta[w].todo # {}
  /\ meta' = [meta EXCEPT ![w].step = "done"]
  /\ UNCHANGED <<sat, metadata, xmls, cfdi, related, xml>>

BatchesDone(w) ==
  /\ meta[w].step = "batches"
  /\ meta[w].todo = {}
  /\ meta' = [meta EXCEPT ![w].step =
                IF meta[w].cancelled = {} THEN "done" ELSE "payment_relation"]
  /\ UNCHANGED <<sat, metadata, xmls, cfdi, related, xml>>

\* UPDATE <table> SET "Estatus" = false WHERE the row comes from one of S.
Deactivated(table, S) ==
  [related EXCEPT ![table] =
     [c \in Cfdi |-> IF c \in S /\ @[c] = "active" THEN "inactive" ELSE @[c]]]

\* Variant: only the first table is cascaded.
AfterCascadeOfOne(step) == "done"

AfterCascade(step) ==
  CASE step = "payment_relation" -> "payment"
    [] step = "payment"          -> "cfdi_relacionado"
    [] step = "cfdi_relacionado" -> "done"

\* One statement of cancelRelated.  The third names a table that the tenant
\* schema does not have (the rows are in cfdi_relation), so it fails.  Errors
\* are logged.
CancelRelated(w) ==
  /\ meta[w].step \in {"payment_relation", "payment", "cfdi_relacionado"}
  /\ \/ /\ meta[w].step \in Table
        /\ related' = Deactivated(meta[w].step, meta[w].cancelled)
     \/ /\ "db" \in Faults \/ meta[w].step \notin Table
        /\ UNCHANGED related
  /\ meta' = [meta EXCEPT ![w].step = AfterCascade(@)]
  /\ UNCHANGED <<sat, metadata, xmls, cfdi, xml>>

MetadataProcessed(w) ==
  /\ meta[w].step = "done"
  /\ metadata' \in {metadata \ {meta[w].pkg}}
                     \cup (IF "redeliver" \in Faults THEN {metadata} ELSE {})
  /\ meta' = [meta EXCEPT ![w] = IdleMeta]
  /\ UNCHANGED <<sat, xmls, cfdi, related, xml>>

-----------------------------------------------------------------------------
(* ProcessXML *)

TakeXml(w) ==
  /\ xml[w].step = "idle"
  /\ \E pkg \in xmls :
       /\ "redeliver" \in Faults \/ \A v \in Worker : xml[v].step = "idle" \/ xml[v].pkg # pkg
       /\ xml' = [xml EXCEPT ![w] = [step |-> "update", pkg |-> pkg, todo |-> pkg,
                                     cur |-> NoCfdi]]
  /\ UNCHANGED <<sat, metadata, xmls, cfdi, related, meta>>

\* The loop of w goes on with step for the CFDI in hand.
XmlGoTo(w, step) == xml' = [xml EXCEPT ![w].step = step]

\* The UPDATE of upsertFromXML for the next XML of the package: the cfdi row,
\* if there is one, takes everything but its Estatus from the XML.
UpdateFromXML(w) ==
  /\ xml[w].step = "update"
  /\ \E c \in xml[w].todo :
       /\ xml' = [xml EXCEPT ![w].todo = @ \ {c}, ![w].cur = c,
                             ![w].step = IF cfdi[c].known THEN "relations" ELSE "insert"]
       /\ cfdi' = [cfdi EXCEPT ![c].fromXml = @ \/ cfdi[c].known]
  /\ UNCHANGED <<sat, metadata, xmls, related, meta>>

\* Variant: ON CONFLICT DO UPDATE with everything of the new row.
InsertedOrReplaced(row) == [known |-> TRUE, estatus |-> TRUE, fromXml |-> TRUE]

\* INSERT ... ON CONFLICT DO NOTHING
Inserted(row) == IF row.known THEN row
                 ELSE [known |-> TRUE, estatus |-> TRUE, fromXml |-> TRUE]

\* The UPDATE touched no row.
InsertFromXML(w) ==
  /\ xml[w].step = "insert"
  /\ cfdi' = [cfdi EXCEPT ![xml[w].cur] = Inserted(@)]
  /\ XmlGoTo(w, "relations")
  /\ UNCHANGED <<sat, metadata, xmls, related, meta>>

\* Either statement fails: the error is logged and the next XML follows.
UpsertFromXMLFails(w) ==
  /\ "db" \in Faults
  /\ \/ /\ xml[w].step = "update"
        /\ \E c \in xml[w].todo : xml' = [xml EXCEPT ![w].todo = @ \ {c}]
     \/ /\ xml[w].step = "insert"
        /\ xml' = [xml EXCEPT ![w].step = "update", ![w].cur = NoCfdi]
  /\ UNCHANGED <<sat, metadata, xmls, cfdi, related, meta>>

\* The rows of CFDI c in a table are written as new, or left as they are.
Written(table, c) == related' = [related EXCEPT ![table][c] = "active"]
Kept(table, c) ==
  related' = [related EXCEPT ![table][c] = IF @ = "none" THEN "active" ELSE @]

\* A statement for related rows that the XML has none for, or that fails.
NoRows(w, content) ==
  /\ content \notin Contents[xml[w].cur] \/ "db" \in Faults
  /\ UNCHANGED related

\* ON CONFLICT DO UPDATE SET "Estatus" = EXCLUDED."Estatus", which is true.
InsertCfdiRelaciones(w) ==
  /\ xml[w].step = "relations"
  /\ \/ "relations" \in Contents[xml[w].cur] /\ Written("cfdi_relation", xml[w].cur)
     \/ NoRows(w, "relations")
  /\ XmlGoTo(w, "payment")
  /\ UNCHANGED <<sat, metadata, xmls, cfdi, meta>>

\* insertPayments: the payments, then their related documents and pr_count.
\* Without the payment its documents are skipped.
InsertPayments(w) ==
  /\ \/ /\ xml[w].step = "payment"
        /\ \/ /\ "payments" \in Contents[xml[w].cur]
              /\ Kept("payment", xml[w].cur)
              /\ XmlGoTo(w, "doctos")
           \/ NoRows(w, "payments") /\ XmlGoTo(w, "nomina")
     \/ /\ xml[w].step = "doctos"
        /\ Kept("payment_relation", xml[w].cur) \/ NoRows(w, "payments")
        /\ XmlGoTo(w, "nomina")
  /\ UNCHANGED <<sat, metadata, xmls, cfdi, meta>>

InsertNomina(w) ==
  /\ xml[w].step = "nomina"
  /\ \/ "nomina" \in Contents[xml[w].cur] /\ Kept("nomina", xml[w].cur)
     \/ NoRows(w, "nomina")
  /\ xml' = [xml EXCEPT ![w].step = "update", ![w].cur = NoCfdi]
  /\ UNCHANGED <<sat, metadata, xmls, cfdi, meta>>

XmlProcessed(w) ==
  /\ xml[w].step = "update"
  /\ xml[w].todo = {}
  /\ xmls' \in {xmls \ {xml[w].pkg}} \cup (IF "redeliver" \in Faults THEN {xmls} ELSE {})
  /\ xml' = [xml EXCEPT ![w] = IdleXml]
  /\ UNCHANGED <<sat, metadata, cfdi, related, meta>>

\* The process of w dies; its messages are still in their queues.
Die(w) ==
  /\ "redeliver" \in Faults
  /\ meta' = [meta EXCEPT ![w] = IdleMeta]
  /\ xml' = [xml EXCEPT ![w] = IdleXml]
  /\ UNCHANGED <<sat, metadata, xmls, cfdi, related>>

-----------------------------------------------------------------------------
ProcessMetadata(w) ==
  \/ TakeMetadata(w) \/ UpsertBatch(w) \/ UpsertFails(w) \/ BatchesDone(w)
  \/ CancelRelated(w) \/ MetadataProcessed(w)

ProcessXML(w) ==
  \/ TakeXml(w) \/ UpdateFromXML(w) \/ InsertFromXML(w) \/ UpsertFromXMLFails(w)
  \/ InsertCfdiRelaciones(w) \/ InsertPayments(w) \/ InsertNomina(w)
  \/ XmlProcessed(w)

Next ==
  \/ \E c \in Cfdi : Cancel(c)
  \/ \E S \in Direction : RequestMetadata(S) \/ RequestXml(S) \/ CompleteCFDIs(S)
  \/ \E w \in Worker : ProcessMetadata(w) \/ ProcessXML(w) \/ Die(w)

Spec == Init /\ [][Next]_vars

\* The loops keep running and pass over no message for ever; the jobs
\* sync-metadata and complete-cfdis run again and again.
Fairness ==
  /\ \A S \in Direction : WF_vars(RequestMetadata(S)) /\ WF_vars(CompleteCFDIs(S))
  /\ \A w \in Worker :
       /\ WF_vars(ProcessMetadata(w)) /\ WF_vars(ProcessXML(w))
       /\ \A S \in Direction : SF_vars(TakeMetadata(w) /\ DOMAIN meta'[w].pkg = S)
       /\ \A S \in SUBSET Cfdi \ {{}} : SF_vars(TakeXml(w) /\ xml'[w].pkg = S)

FairSpec == Spec /\ Fairness

-----------------------------------------------------------------------------
(* Properties *)

\* The shape of the tables, the messages and the loops.
TypeOK ==
  /\ sat \subseteq Cfdi
  /\ metadata \subseteq Snapshot
  /\ xmls \subseteq SUBSET Cfdi
  /\ cfdi \in [Cfdi -> CfdiRow]
  /\ related \in [Table -> [Cfdi -> Rows]]
  /\ meta \in [Worker -> [step : MetaStep, pkg : Snapshot \cup {<<>>},
                          todo : SUBSET Cfdi, cancelled : SUBSET Cfdi]]
  /\ xml \in [Worker -> [step : XmlStep, pkg : SUBSET Cfdi, todo : SUBSET Cfdi,
                         cur : Cfdi \cup {NoCfdi}]]

\* The cfdi table only learns, although snapshots arrive out of order and
\* twice, statements fail, and the handlers race each other: a cancellation is
\* true and final, and a stored XML stays.
Learned == INSTANCE CfdiRegister WITH
  status <- [c \in Cfdi |-> IF ~cfdi[c].known THEN "unknown"
                            ELSE IF cfdi[c].estatus THEN "vigente" ELSE "cancelado"],
  hasXml <- {c \in Cfdi : cfdi[c].fromXml}

OnlyLearns == Learned!Spec

Cancelled(c) == cfdi[c].known /\ ~cfdi[c].estatus

\* Related rows exist only for a CFDI of the table, and cancelRelated
\* deactivates only those of a CFDI that the table has as cancelled.
RelatedMatchesCfdi ==
  \A t \in Table, c \in Cfdi :
    /\ related[t][c] # "none" => cfdi[c].known
    /\ related[t][c] = "inactive" => Cancelled(c)

Follows(t, content) ==
  \A c \in {d \in Cfdi : content \in Contents[d]} :
    c \in sat /\ related[t][c] = "active" ~> related[t][c] = "inactive"

\* "marks related DoctoRelacionado [and] Payment rows as Estatus=false when the
\* parent CFDI is cancelled": also those that ProcessXML inserts between the
\* statements of the cascade or after it, by the next metadata package.
PaymentsFollowCancellation == Follows("payment", "payments") /\ Follows("payment_relation", "payments")

\* "marks related [...] CfdiRelacionado rows as Estatus=false when the parent
\* CFDI is cancelled".
RelationsFollowCancellation == Follows("cfdi_relation", "relations")

LacksXml(c) == cfdi[c].known /\ ~cfdi[c].fromXml /\ ~Cancelled(c)

\* An XML lost to the race of upsertFromXML is not lost for good, as long as
\* a CFDI of a later day lacks its XML too.
XmlArrives ==
  \A S \in Direction : \A c, later \in S :
    Day[c] < Day[later] =>
      (LacksXml(c) /\ LacksXml(later) ~> ~LacksXml(c) \/ ~LacksXml(later))

\* "updates an existing CFDI row with data parsed from the XML, or inserts a new
\* row if it doesn't exist yet": when it returned nil the row has the XML.
XmlStored ==
  \A w \in Worker :
    xml[w].step \in {"relations", "payment", "doctos", "nomina"} => cfdi[xml[w].cur].fromXml

=============================================================================
