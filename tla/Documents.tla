------------------------------- MODULE Documents -------------------------------
(***************************************************************************)
(* What users attach to and take out of the CFDIs of a company:            *)
(* attachments, whose rows and objects are written apart and whose bytes   *)
(* the client uploads with a signed URL; policies (polizas), replaced in a *)
(* READ COMMITTED transaction; and exported files.                         *)
(*                                                                         *)
(* Left out: an attachment that is confirmed, which no code here does; the *)
(* rows of a policy in poliza_cfdi and poliza_movimiento, which are        *)
(* written and deleted with it in one transaction.                         *)
(***************************************************************************)
EXTENDS Integers, FiniteSets, FiniteSetsExt

CONSTANTS
  File,          \* file names of attachments of one CFDI
  Size,          \* Size[f]: what an attachment of that name announces, as the bits of an int64
  SizeRange,     \* the values of an int64
  ColumnRange,   \* the values of the column size, an integer of PostgreSQL
  MaxAttachmentSize,
  AttachmentId,  \* rows (a bound of the model)
  Attaching,     \* calls that create or delete, each made once (a bound of the model)
  PolizaId, Numero,
  Moment,        \* what fecha may be, in hours of UTC
  Zone,          \* hours that a client is ahead of UTC
  HoursOfDay,
  Posting,       \* calls of Poliza.CreateMany, each made once (a bound of the model)
  Exporting,     \* calls that export, each made once (a bound of the model)
  Name, Extension,
  DocumentFaults, \* subset of {"db", "storage", "publish", "kill"}
  None

\* A name that a client chooses is not that of the folder of an export, a new UUID.
ASSUME DocumentsAssumption ==
  /\ SizeRange \in Nat \ {0} /\ ColumnRange \in Nat \ {0}
  /\ IsFiniteSet(File) /\ Size \in [File -> 0 .. (SizeRange - 1)] /\ MaxAttachmentSize \in Nat
  /\ Moment \subseteq Int /\ Zone \subseteq Int /\ HoursOfDay \in Nat \ {0}
  /\ None \notin AttachmentId /\ None \notin Attaching /\ None \notin Exporting
  /\ None \notin {"SENT", "TO_DOWNLOAD"} /\ None \notin [file : File, live : BOOLEAN]
  /\ Name \cap Exporting = {}

VARIABLES
  attachment, \* attachment[a]: row a, or None
  attached,   \* attached[f]: the row whose bytes the object of file f holds, or None
  attaching,  \* the calls
  poliza,     \* poliza[i]: row i, or None
  posting,    \* the calls of CreateMany
  export,     \* export[k]: the row of cfdi_export that call k made, or None
  file,       \* file[key]: the call whose bytes the object holds, or None
  exporting   \* the calls that export

attachmentVars == <<attachment, attached, attaching>>
polizaVars == <<poliza, posting>>
exportVars == <<export, file, exporting>>
documentVars == <<attachmentVars, polizaVars, exportVars>>

\* "row": the row that a call deletes.  Histories: "missed", a row was inserted since
\* the call read them; "blind", there were rows and the call could not read them;
\* "wild", the sum that it checked was not that of the sizes, or had negative ones.
NoAttaching == [step |-> "none", todo |-> {}, row |-> None,
                missed |-> FALSE, blind |-> FALSE, wild |-> FALSE]

NoPosting == [step |-> "none", new |-> [i \in PolizaId |-> None], missed |-> {}]

NoExporting == [step |-> "none", name |-> None, ext |-> None, lost |-> FALSE]

DocumentsInit ==
  /\ attachment = [a \in AttachmentId |-> None]
  /\ attached = [f \in File |-> None]
  /\ attaching = [k \in Attaching |-> NoAttaching]
  /\ poliza = [i \in PolizaId |-> None]
  /\ posting = [k \in Posting |-> NoPosting]
  /\ export = [k \in Exporting |-> None]
  /\ file = [key \in (Name \X Extension) \cup (Exporting \X {"xlsx"}) |-> None]
  /\ exporting = [k \in Exporting |-> NoExporting]

-----------------------------------------------------------------------------
(* Attachments *)

HasRow(a) == attachment[a] # None

Live == {a \in AttachmentId : HasRow(a) /\ attachment[a].live}

NameOf(a) == attachment[a].file

Total(names) == MapThenSumSet(LAMBDA f : Size[f], names)

LiveNames == {NameOf(a) : a \in Live}

AttachingDone == [NoAttaching EXCEPT !.step = "done"]

\* The integer whose bits are the last ones of n.
Signed(n, range) == LET bits == n % range IN IF 2 * bits < range THEN bits ELSE bits - range

\* The live names are distinct: a unique index sees to it.
WithinSize(existing, names) ==
  Signed(Total(existing) + Total(names), SizeRange) <= MaxAttachmentSize

\* A size is negative, or the sum of all is too large for an int64.
IsWild(existing, names) == 2 * (Total(existing) + Total(names)) >= SizeRange

\* The rows are read: names that exist, and files too large together, are refused.  When
\* the SELECT fails, there are none.
CreateAttachments(k, names) ==
  /\ attaching[k].step = "none" /\ names # {}
  /\ \E existing \in {LiveNames} \cup (IF "db" \in DocumentFaults THEN {{}} ELSE {}) :
       /\ names \cap existing = {} /\ WithinSize(existing, names)
       /\ attaching' = [attaching EXCEPT ![k] =
            [NoAttaching EXCEPT !.step = "insert", !.todo = names,
               !.blind = existing # LiveNames, !.wild = IsWild(existing, names)]]
  /\ UNCHANGED <<attachment, attached, polizaVars, exportVars>>

Unused == {a \in AttachmentId : ~HasRow(a)}

NewIdentifier == CHOOSE a \in Unused : TRUE

\* The unique index refuses a name that a live row has, and the column a size that it
\* cannot hold.
Refuses(f) == f \in LiveNames \/ Signed(Size[f], SizeRange) # Signed(Size[f], ColumnRange)

\* One INSERT per file, in the order of the request, without a transaction.
InsertAttachment(k, f) ==
  /\ attaching[k].step = "insert" /\ f \in attaching[k].todo
  /\ Unused # {} /\ ~Refuses(f)
  /\ attachment' = [attachment EXCEPT ![NewIdentifier] = [file |-> f, live |-> TRUE]]
  /\ attaching' = [j \in Attaching |->
       IF j = k THEN IF attaching[k].todo = {f} THEN AttachingDone
                     ELSE [attaching[k] EXCEPT !.todo = @ \ {f}]
       ELSE IF attaching[j].step = "insert" THEN [attaching[j] EXCEPT !.missed = TRUE]
       ELSE attaching[j]]
  /\ UNCHANGED <<attached, polizaVars, exportVars>>

\* An INSERT is refused or fails, or the signing of a URL, or the process dies: the rows
\* so far stay.
AttachmentsFail(k) ==
  /\ attaching[k].step = "insert"
  /\ \/ {"db", "storage", "kill"} \cap DocumentFaults # {}
     \/ \E f \in attaching[k].todo : Refuses(f)
  /\ attaching' = [attaching EXCEPT ![k] = AttachingDone]
  /\ UNCHANGED <<attachment, attached, polizaVars, exportVars>>

\* The client uploads, with a URL that may outlive its row.
ClientUploads(a) ==
  /\ HasRow(a)
  /\ attached' = [attached EXCEPT ![NameOf(a)] = a]
  /\ UNCHANGED <<attachment, attaching, polizaVars, exportVars>>

\* Variant: the row is marked first.
FirstDeletionRow == "row"

FirstDeletion == "object"

DeleteAttachment(k, a) ==
  /\ attaching[k].step = "none"
  /\ a \in Live
  /\ attaching' = [attaching EXCEPT ![k] = [NoAttaching EXCEPT !.step = FirstDeletion, !.row = a]]
  /\ UNCHANGED <<attachment, attached, polizaVars, exportVars>>

AfterDeletion(k, step) ==
  attaching' = [attaching EXCEPT ![k] =
    IF step = FirstDeletion
    THEN [attaching[k] EXCEPT !.step = IF step = "object" THEN "row" ELSE "object"]
    ELSE [attaching[k] EXCEPT !.step = "done"]]

\* The object goes by its name; an error is dropped.
DeleteObject(k) ==
  /\ attaching[k].step = "object"
  /\ \/ attached' = [attached EXCEPT ![NameOf(attaching[k].row)] = None]
     \/ "storage" \in DocumentFaults /\ UNCHANGED attached
  /\ AfterDeletion(k, "object")
  /\ UNCHANGED <<attachment, polizaVars, exportVars>>

MarkDeleted(k) ==
  /\ attaching[k].step = "row"
  /\ attachment' = [attachment EXCEPT ![attaching[k].row].live = FALSE]
  /\ AfterDeletion(k, "row")
  /\ UNCHANGED <<attached, polizaVars, exportVars>>

DeletionFails(k) ==
  /\ {"db", "kill"} \cap DocumentFaults # {}
  /\ attaching[k].step \in {"object", "row"}
  /\ attaching' = [attaching EXCEPT ![k] = AttachingDone]
  /\ UNCHANGED <<attachment, attached, polizaVars, exportVars>>

AttachmentsNext ==
  \/ \E k \in Attaching :
       \/ \E names \in SUBSET File : CreateAttachments(k, names)
       \/ \E f \in File : InsertAttachment(k, f)
       \/ AttachmentsFail(k)
       \/ \E a \in AttachmentId : DeleteAttachment(k, a)
       \/ DeleteObject(k)
       \/ MarkDeleted(k)
       \/ DeletionFails(k)
  \/ \E a \in AttachmentId : ClientUploads(a)

-----------------------------------------------------------------------------
(* Policies *)

\* What a request brings: fecha is a moment, written in the zone of its client.  (tipo is
\* one with numero.)
PolizaItem == [at : Moment, zone : Zone, numero : Numero]

\* What is stored: a timestamp without a zone, in UTC.
PolizaRow == [at : Moment, numero : Numero]

RowOf(item) == [at |-> item.at, numero |-> item.numero]

\* The key of an item has the day of its client, that of a row the day of UTC.
PseudoPK(item) == <<(item.at + item.zone) \div HoursOfDay, item.numero>>

StoredPK(row) == <<row.at \div HoursOfDay, row.numero>>

Given(k) == {i \in PolizaId : posting[k].new[i] # None}

\* What the unique index of the table sees: fecha is a timestamp.
IndexKey(row) == row

\* Variant: fecha is compared as it is stored.
TakenAtTheHour(new) ==
  {i \in PolizaId : /\ new[i] = None /\ poliza[i] # None
                    /\ \E j \in PolizaId : new[j] # None /\ RowOf(new[j]) = poliza[i]}

\* The policies with a pseudo key of the request, once those it replaces are gone.
Taken(new) ==
  {i \in PolizaId : /\ new[i] = None /\ poliza[i] # None
                    /\ \E j \in PolizaId : new[j] # None /\ PseudoPK(new[j]) = StoredPK(poliza[i])}

\* DELETE of the policies with the identifiers of the request, which waits for the
\* transactions that deleted them too, and the check for pseudo keys.
CreatePolizas(k, new) ==
  /\ posting[k].step = "none"
  /\ \A j \in Posting : posting[j].step = "insert" =>
       \A i \in Given(j) : new[i] = None \/ poliza[i] = None
  /\ posting' = [posting EXCEPT ![k] =
       IF Taken(new) = {} THEN [NoPosting EXCEPT !.step = "insert", !.new = new]
       ELSE [NoPosting EXCEPT !.step = "done"]]
  /\ UNCHANGED <<attachmentVars, poliza, exportVars>>

\* INSERT and commit: the primary key and the index see what was committed meanwhile.
InsertPolizas(k) ==
  /\ posting[k].step = "insert"
  /\ LET after == [i \in PolizaId |->
                     IF i \in Given(k) THEN RowOf(posting[k].new[i]) ELSE poliza[i]] IN
     /\ \A i, j \in PolizaId : i # j /\ i \in Given(k) /\ after[j] # None =>
          IndexKey(after[i]) # IndexKey(after[j])
     /\ Given(k) \cap posting[k].missed = {}
     /\ poliza' = after
  /\ posting' = [j \in Posting |->
       IF j = k THEN [NoPosting EXCEPT !.step = "done"]
       ELSE IF posting[j].step = "insert" THEN [posting[j] EXCEPT !.missed = @ \cup Given(k)]
       ELSE posting[j]]
  /\ UNCHANGED <<attachmentVars, exportVars>>

\* A statement fails (the check for pseudo keys too: its error is dropped, and the
\* transaction takes no further statement), an index refuses, two transactions wait for
\* each other, or the process dies.
RollbackPolizas(k) ==
  /\ posting[k].step = "insert"
  /\ posting' = [posting EXCEPT ![k] = [NoPosting EXCEPT !.step = "done"]]
  /\ UNCHANGED <<attachmentVars, poliza, exportVars>>

PolizasNext ==
  \E k \in Posting :
    \/ \E new \in [PolizaId -> PolizaItem \cup {None}] : CreatePolizas(k, new)
    \/ InsertPolizas(k)
    \/ RollbackPolizas(k)

-----------------------------------------------------------------------------
(* Exports *)

\* Variant: the name alone.
KeyOfName(k) == <<exporting[k].name, CHOOSE e \in Extension : TRUE>>

\* "exports/<name>.<extension>", for every company.
KeyOf(k) == <<exporting[k].name, exporting[k].ext>>

\* CFDI.Export: the file is built, and stored under the name the client chose.
Export(k, name, ext) ==
  /\ exporting[k].step = "none"
  /\ exporting' = [exporting EXCEPT ![k] = [NoExporting EXCEPT !.step = "upload", !.name = name,
                                              !.ext = ext]]
  /\ UNCHANGED <<attachmentVars, polizaVars, export, file>>

UploadExport(k) ==
  /\ exporting[k].step = "upload"
  /\ file' = [file EXCEPT ![KeyOf(k)] = k]
  /\ exporting' = [exporting EXCEPT ![k].step = "presign"]
  /\ UNCHANGED <<attachmentVars, polizaVars, export>>

\* The URL that is returned serves the object for two hours.
PresignExport(k) ==
  /\ exporting[k].step = "presign"
  /\ exporting' = [exporting EXCEPT ![k].step = "served"]
  /\ UNCHANGED <<attachmentVars, polizaVars, export, file>>

\* The upload or the signing fails, or the process dies: the object of a call that has
\* stored one stays, and the call keeps its name here.
ExportFails(k) ==
  /\ {"storage", "kill"} \cap DocumentFaults # {}
  /\ \/ /\ exporting[k].step = "upload"
        /\ exporting' = [exporting EXCEPT ![k] = [NoExporting EXCEPT !.step = "done"]]
     \/ /\ exporting[k].step = "presign"
        /\ exporting' = [exporting EXCEPT ![k].step = "done"]
  /\ UNCHANGED <<attachmentVars, polizaVars, export, file>>

\* PublishExport: a row, and an event for the service that builds the file; without a
\* row, no event.
PublishExport(k) ==
  /\ exporting[k].step = "none"
  /\ \E step \in {"asked"} \cup (IF "publish" \in DocumentFaults THEN {"done"} ELSE {}) :
       exporting' = [exporting EXCEPT ![k] = [NoExporting EXCEPT !.step = step]]
  /\ export' = [export EXCEPT ![k] = "SENT"]
  /\ UNCHANGED <<attachmentVars, polizaVars, file>>

\* CreateExportRecord: the file is built in the call.
CreateExportRecord(k) ==
  /\ exporting[k].step = "none"
  /\ \/ export' = [export EXCEPT ![k] = "SENT"]
     \/ "db" \in DocumentFaults /\ UNCHANGED export
  /\ exporting' = [exporting EXCEPT ![k] = [NoExporting EXCEPT !.step = "store"]]
  /\ UNCHANGED <<attachmentVars, polizaVars, file>>

\* SaveExportToS3, its first half: an error is dropped, and a request that names no
\* bucket stores nothing.
SaveExport(k) ==
  /\ exporting[k].step = "store"
  /\ \/ /\ file' = [file EXCEPT ![<<k, "xlsx">>] = k]
        /\ exporting' = [exporting EXCEPT ![k].step = "mark"]
     \/ /\ "storage" \in DocumentFaults
        /\ exporting' = [exporting EXCEPT ![k].step = "mark", ![k].lost = TRUE]
        /\ UNCHANGED file
     \/ exporting' = [exporting EXCEPT ![k].step = "done"] /\ UNCHANGED file
  /\ UNCHANGED <<attachmentVars, polizaVars, export>>

\* Its second half: the UPDATE finds a row only when it was inserted.
MarkToDownload(k) ==
  /\ exporting[k].step = "mark"
  /\ \/ export' = [export EXCEPT ![k] = IF @ = None THEN None ELSE "TO_DOWNLOAD"]
     \/ "db" \in DocumentFaults /\ UNCHANGED export
  /\ exporting' = [exporting EXCEPT ![k].step = "done"]
  /\ UNCHANGED <<attachmentVars, polizaVars, file>>

ExportsNext ==
  \E k \in Exporting :
    \/ \E name \in Name, ext \in Extension : Export(k, name, ext)
    \/ UploadExport(k)
    \/ PresignExport(k)
    \/ ExportFails(k)
    \/ PublishExport(k)
    \/ CreateExportRecord(k)
    \/ SaveExport(k)
    \/ MarkToDownload(k)

DocumentsNext == AttachmentsNext \/ PolizasNext \/ ExportsNext

DocumentsSpec == DocumentsInit /\ [][DocumentsNext]_documentVars

-----------------------------------------------------------------------------
(* Properties *)

\* The attachments of a CFDI exceed the limit only by calls that overlap, by one that
\* could not read the rows, or with sizes that are negative or overflow: any other call
\* that inserts a row keeps to it.  No sequence of creations, partial failures and
\* deletions gets past it.
SizeNeedsOverlap ==
  [][\A k \in Attaching :
       /\ attaching[k].step = "insert" /\ attachment' # attachment
       /\ attaching'[k].todo # attaching[k].todo
       /\ ~attaching[k].missed /\ ~attaching[k].blind /\ ~attaching[k].wild
       => Total(LiveNames') <= MaxAttachmentSize]_documentVars

\* A call deletes the object of the attachment it was asked to delete: one of the same
\* name that was created later loses its bytes only when two deletions overlap.
ObjectIsItsOwn ==
  [][\A k \in Attaching :
       attaching[k].step = "object" /\ attached' # attached /\ attaching'[k] # attaching[k] =>
         \/ attaching[k].row \in Live
         \/ \E j \in Attaching \ {k} : /\ attaching[j].step = "done"
                                       /\ attaching[j].row = attaching[k].row]_documentVars

\* The day of an item is that of the row it becomes.
SameDay(item) == PseudoPK(item) = StoredPK(RowOf(item))

\* Two policies have the day and the number in common only when one request brought
\* both, when two requests overlapped, or when the one that came later was written in a
\* zone where its day is another than in UTC.
NumberTwiceNeedsOverlap ==
  [][\A k \in Posting :
       posting[k].step = "insert" /\ poliza' # poliza /\ posting[k].missed = {} /\ Given(k) # {}
         /\ posting'[k].step = "done" =>
           \A i \in Given(k), j \in PolizaId \ Given(k) :
             SameDay(posting[k].new[i]) /\ poliza[j] # None =>
               StoredPK(RowOf(posting[k].new[i])) # StoredPK(poliza[j])]_documentVars

\* The calls that have stored an object under a name and format.
StoredUnder(n, e) ==
  {j \in Exporting : /\ exporting[j].step \in {"presign", "served", "done"}
                     /\ exporting[j].name = n /\ exporting[j].ext = e}

\* A URL serves the file its call built until another call, of whichever company and
\* whether it was answered or not, exports under the same name and in the same format;
\* and a row that can be downloaded has its file, unless the storage refused it.
UrlServesItsExport ==
  \A k \in Exporting :
    /\ exporting[k].step = "served" =>
         \/ file[KeyOf(k)] = k
         \/ StoredUnder(exporting[k].name, exporting[k].ext) \ {k} # {}
    /\ export[k] = "TO_DOWNLOAD" => file[<<k, "xlsx">>] = k \/ exporting[k].lost

\* What is checked before rows are inserted, the size of attachments and the numbers of
\* policies, holds afterwards unless requests overlap, or say or could read something
\* else than what is stored.
ChecksNeedOverlap == SizeNeedsOverlap /\ NumberTwiceNeedsOverlap

\* Keys in storage are names that clients chose: what lies under the key of a row is
\* the row's own, when it is deleted and when it is served.
ObjectsAreTheirOwn == ObjectIsItsOwn /\ []UrlServesItsExport

=============================================================================
