------------------------------ MODULE MCCompanies ------------------------------
(***************************************************************************)
(* Companies for TLC: their life, their settings, the connections to their *)
(* schemas, the migrations of the control database, what they exchange     *)
(* with an accounting system, their documents, and what is asked of the    *)
(* SAT for them.  These share no state: a behaviour is one of the part it  *)
(* has chosen, the others stay where they began.                           *)
(***************************************************************************)
EXTENDS Companies, CompanySettings, TenantPool, Migrations,
        AddSync, PastoWorkers, Documents,
        SatWindows, ManualSync, EventBus, TLC

CONSTANTS ra, c1, c2, c3, g1, G1, g2, f1, f2, f3, f4

VARIABLE part

ownVars == <<companiesVars, settingsVars, poolVars, migrationsVars>>

exchangeVars == <<syncVars, pastoVars, documentVars>>

requestVars == <<windowVars, manualVars, busVars>>

vars == <<part, ownVars, exchangeVars, requestVars>>

\* c1 and c2 serve; c3 expired.
MCInfo == [c \in Certificate |-> [rfc |-> ra, usage |-> "FIEL", key |-> "matches",
             validity |-> IF c = c3 THEN "expired" ELSE "valid"]]

\* One company of the ADD is written in two ways.
MCLower == [i \in RawId |-> IF i = G1 THEN g1 ELSE i]

\* A file of size 1, one of a negative size, one that is as large as all may be
\* together, and one too large for the column.
MCSize == [f \in File |-> CASE f = f1 -> 1 [] f = f2 -> SizeRange - 1
                           [] f = f3 -> MaxAttachmentSize [] f = f4 -> ColumnRange]

\* A client in UTC, and one west of it.
MCZone == {0, -1}

Own == {"companies", "data", "configs", "pool", "migrations"}

Exchange == {"sync", "workers", "config", "list", "attachments", "polizas", "exports"}

Requesting == {"windows", "manual", "bus"}

Init ==
  /\ part \in Own \cup Exchange \cup Requesting
  /\ CompaniesInit /\ (part # "companies" => schema = {})
  /\ SettingsInit
  /\ PoolInit
  /\ MigrationsInit
  /\ SyncInit
  /\ PastoInit
  /\ DocumentsInit
  /\ SatWindowsInit
  /\ ManualSyncInit
  /\ BusInit /\ (part # "bus" => localInfra)

OwnNext ==
  \/ part = "companies" /\ CompaniesNext /\ UNCHANGED <<settingsVars, poolVars, migrationsVars>>
  \/ part = "data" /\ DataNext /\ UNCHANGED <<companiesVars, poolVars, migrationsVars>>
  \/ part = "configs" /\ ConfigsNext /\ UNCHANGED <<companiesVars, poolVars, migrationsVars>>
  \/ part = "pool" /\ PoolNext /\ UNCHANGED <<companiesVars, settingsVars, migrationsVars>>
  \/ part = "migrations" /\ MigrationsNext /\ UNCHANGED <<companiesVars, settingsVars, poolVars>>

ExchangeNext ==
  \/ part = "sync" /\ SyncNext /\ UNCHANGED <<pastoVars, documentVars>>
  \/ part = "workers" /\ WorkersNext /\ UNCHANGED <<syncVars, documentVars>>
  \/ part = "config" /\ ConfigNext /\ UNCHANGED <<syncVars, documentVars>>
  \/ part = "list" /\ ListNext /\ UNCHANGED <<syncVars, documentVars>>
  \/ part = "attachments" /\ AttachmentsNext /\ UNCHANGED <<syncVars, pastoVars>>
  \/ part = "polizas" /\ PolizasNext /\ UNCHANGED <<syncVars, pastoVars>>
  \/ part = "exports" /\ ExportsNext /\ UNCHANGED <<syncVars, pastoVars>>

RequestNext ==
  \/ part = "windows" /\ SatWindowsNext /\ UNCHANGED <<manualVars, busVars>>
  \/ part = "manual" /\ ManualSyncNext /\ UNCHANGED <<windowVars, busVars>>
  \/ part = "bus" /\ BusNext /\ UNCHANGED <<windowVars, manualVars>>

Next ==
  /\ UNCHANGED part
  /\ \/ OwnNext /\ UNCHANGED <<exchangeVars, requestVars>>
     \/ ExchangeNext /\ UNCHANGED <<ownVars, requestVars>>
     \/ RequestNext /\ UNCHANGED <<ownVars, exchangeVars>>

Spec == Init /\ [][Next]_vars

\* Requests for metadata of which the code has seen less, or asked more, than it should:
\* a query left its final state or was inserted again, a count failed, or one of the
\* queries of a request is missing.
MCFaults ==
  Cardinality({r \in metadata : r.query = "again" \/ r.copy})
    + Cardinality({k \in Asking : asking[k].unread # {}})
    + Cardinality({k \in Asking : /\ asking[k].step = "done"
                                  /\ Cardinality({r \in metadata : r.by = k}) < Directions})

\* Once requests overlapped, ManualSync promises nothing: what follows is left out.  A
\* behaviour has at most one fault of its requests, one call that creates attachments and
\* promises nothing, and no call that brings more than two of them.
MCBound ==
  /\ ~overlapped /\ MCFaults <= 1
  /\ Cardinality({k \in Attaching : attaching[k].blind \/ attaching[k].wild}) <= 1
  /\ \A k \in Attaching : Cardinality(attaching[k].todo) <= 2

\* Ids, workspaces, calls and the two good certificates are alike.
MCSymmetry == Permutations(CompanyId) \cup Permutations(Place) \cup Permutations(Filing)
                \cup Permutations({c1, c2})

=============================================================================
