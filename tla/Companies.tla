------------------------------- MODULE Companies -------------------------------
(***************************************************************************)
(* The life of a company: created from a certificate by its user or by an  *)
(* administrator, given new certificates, deactivated, deleted.  A         *)
(* creation is a row of the control database, a schema for its tables,     *)
(* three objects in storage, permissions and an event, written one after   *)
(* the other without a transaction; the table company has no unique index  *)
(* on workspace and RFC.                                                   *)
(*                                                                         *)
(* Left out: LOCAL_INFRA, where a company may have no tables; the copy of  *)
(* the certificates for local tests; the lists of e-mails, whose update    *)
(* ends the call of a user; the default workspace of a new user (module    *)
(* Accounts).                                                              *)
(***************************************************************************)
EXTENDS Naturals, Sequences, FiniteSets

CONSTANTS
  CompanyId,         \* the ids a sequence of the database gives
  Place,             \* workspaces
  Rfc,
  Certificate,       \* what a call brings: certificate, private key and passphrase
  Info,              \* Info[c]: what is in certificate c
  Filing,            \* calls, each made once: their number is a bound of the model
  ExemptRfc,         \* may be twice in a workspace ("PGD1009214W0")
  SpecialRfc,        \* SPECIAL_RFCS
  MaxSameCompanyInTrials,
  CompanyFaults,     \* subset of {"count", "freemium", "call", "publish", "certs"}
  NoRow, NoCert, NoId

ASSUME CompaniesAssumption ==
  /\ Info \in [Certificate -> [rfc : Rfc, usage : {"FIEL", "CSD"},
                               validity : {"valid", "expired", "future"},
                               key : {"matches", "other", "unreadable"}]]
  /\ ExemptRfc \subseteq Rfc /\ SpecialRfc \subseteq Rfc
  /\ MaxSameCompanyInTrials \in Nat /\ IsFiniteSet(CompanyId)
  /\ NoId \notin CompanyId /\ NoCert \notin Certificate

VARIABLES
  company,    \* company[i]: the row of company i, or NoRow
  schema,     \* the companies whose tables exist
  object,     \* object[i][e]: whose bytes the object of extension e holds
  grants,     \* permissions: <<person, company, role>>
  freemium,   \* workspaces on the trial product or without an active subscription
  announced,  \* announced[i]: how often COMPANY_CREATED was published for i
  restored,   \* companies for which REQUEST_RESTORE_TRIAL was published
  lost,       \* history: companies with a call that failed or an event that was lost
  filing      \* the calls

companiesVars == <<company, schema, object, grants, freemium, announced, restored, lost, filing>>

Ext == {"cer", "key", "txt"}

CompanyRow == [ws : Place, rfc : Rfc, active : BOOLEAN, have : BOOLEAN, valid : BOOLEAN]

\* The passphrase opens the key, and the key is that of the certificate.
ValidPrivateKey(c) == Info[c].key = "matches"

\* ValidateFIELCertificate.
Accepted(c) == /\ Info[c].usage = "FIEL"
               /\ Info[c].validity = "valid"
               /\ ValidPrivateKey(c)

Exists(i) == company[i] # NoRow

\* "first": neither flag was set when the call began.  Histories: "missed", the
\* rows inserted since the call counted; "alone", no other call stored an object
\* of its company; "seen", announced when it began; "blind", a count failed.  They
\* are forgotten with the step that they are about.
NoFiling == [step |-> "none", how |-> "none", ws |-> NoId, cert |-> NoCert, id |-> NoId,
             todo |-> <<>>, first |-> FALSE, missed |-> {}, alone |-> TRUE, seen |-> 0,
             blind |-> FALSE]

\* No company, or one of an earlier flow that has no certificates yet.
CompaniesInit ==
  /\ \E shells \in SUBSET CompanyId, w \in Place, r \in Rfc :
       /\ Cardinality(shells) <= 1
       /\ company = [i \in CompanyId |->
            IF i \in shells
            THEN [ws |-> w, rfc |-> r, active |-> TRUE, have |-> FALSE, valid |-> FALSE]
            ELSE NoRow]
       /\ schema = shells
       /\ grants = {"user"} \X shells \X {"OPERATOR", "PAYROLL"}
  /\ object = [i \in CompanyId |-> [e \in Ext |-> NoCert]]
  /\ freemium = Place
  /\ announced = [i \in CompanyId |-> 0]
  /\ restored = {}
  /\ lost = {}
  /\ filing = [k \in Filing |-> NoFiling]

\* Variant: only active companies count.
SameRfcActive(w, r) == {i \in CompanyId : /\ Exists(i) /\ company[i].active
                                          /\ company[i].ws = w /\ company[i].rfc = r}

SameRfc(w, r) == {i \in CompanyId : Exists(i) /\ company[i].ws = w /\ company[i].rfc = r}

InFreemium(r) == {i \in CompanyId : /\ Exists(i) /\ company[i].rfc = r
                                    /\ company[i].ws \in freemium}

Step(k, s) == filing[k].step = s

GoOn(k, s) == filing' = [filing EXCEPT ![k].step = s]

Certified(k, s) == filing' = [filing EXCEPT ![k].step = s, ![k].alone = TRUE]

Done(k) == filing' = [filing EXCEPT ![k] = [NoFiling EXCEPT !.step = "done"]]

-----------------------------------------------------------------------------
(* Creation *)

\* The certificate is validated, then the companies of its RFC in the workspace
\* are counted.  An administrator who finds one gets it for an answer.
Create(k, how, w, c) ==
  /\ Step(k, "none") /\ Accepted(c)
  /\ SameRfc(w, Info[c].rfc) = {} \/ (how = "user" /\ Info[c].rfc \in ExemptRfc)
  /\ filing' = [filing EXCEPT ![k] = [NoFiling EXCEPT !.step = "freemium", !.how = how,
                                        !.ws = w, !.cert = c]]
  /\ UNCHANGED <<company, schema, object, grants, freemium, announced, restored, lost>>

\* The count fails: the call goes on.
CreateUncounted(k, how, w, c) ==
  /\ "count" \in CompanyFaults
  /\ Step(k, "none") /\ Accepted(c)
  /\ filing' = [filing EXCEPT ![k] = [NoFiling EXCEPT !.step = "freemium", !.how = how,
                                        !.ws = w, !.cert = c, !.blind = TRUE]]
  /\ UNCHANGED <<company, schema, object, grants, freemium, announced, restored, lost>>

FreemiumAllows(r) == r \in SpecialRfc \/ Cardinality(InFreemium(r)) < MaxSameCompanyInTrials

\* ensureNoRFCInFreemiumAccounts; a query that fails refuses nothing.
EnsureNoRFCInFreemiumAccounts(k) ==
  /\ Step(k, "freemium")
  /\ \/ FreemiumAllows(Info[filing[k].cert].rfc) /\ GoOn(k, "schema")
     \/ ~FreemiumAllows(Info[filing[k].cert].rfc) /\ Done(k)
     \/ /\ "freemium" \in CompanyFaults
        /\ filing' = [filing EXCEPT ![k].step = "schema", ![k].blind = TRUE]
  /\ UNCHANGED <<company, schema, object, grants, freemium, announced, restored, lost>>

\* Variant: a DDL that fails is only logged.
RunTenantMigrationsLogged(k, i) ==
  /\ Step(k, "schema")
  /\ i \notin schema /\ ~Exists(i)
  /\ schema' \in {schema, schema \cup {i}}
  /\ filing' = [filing EXCEPT ![k].step = "insert", ![k].id = i]
  /\ UNCHANGED <<company, object, grants, freemium, announced, restored, lost>>

\* CREATE SCHEMA and the DDL of the tables, for a new identifier.
RunTenantMigrations(k, i) ==
  /\ Step(k, "schema")
  /\ i \notin schema
  /\ schema' = schema \cup {i}
  /\ filing' = [filing EXCEPT ![k].step = "insert", ![k].id = i]
  /\ UNCHANGED <<company, object, grants, freemium, announced, restored, lost>>

NewCompany(k) == [ws |-> filing[k].ws, rfc |-> Info[filing[k].cert].rfc, active |-> TRUE,
                  have |-> FALSE, valid |-> FALSE]

\* Counting: the calls that have counted and not yet inserted.
Counting == {k \in Filing : filing[k].step \in {"freemium", "schema", "insert"}}

InsertCompany(k) ==
  /\ Step(k, "insert")
  /\ company' = [company EXCEPT ![filing[k].id] = NewCompany(k)]
  /\ filing' = [j \in Filing |->
       IF j = k THEN [filing[k] EXCEPT !.step = "cer", !.missed = {}, !.blind = FALSE,
                        !.todo = <<<<"user", "OPERATOR">>, <<"user", "PAYROLL">>>>]
       ELSE IF j \in Counting THEN [filing[j] EXCEPT !.missed = @ \cup {filing[k].id}]
       ELSE filing[j]]
  /\ UNCHANGED <<schema, object, grants, freemium, announced, restored, lost>>

-----------------------------------------------------------------------------
(* The certificates *)

\* Variant: only has_valid_certs is looked at.
IsNewWhenInvalid(i) == ~company[i].valid

IsNew(i) == ~company[i].have /\ ~company[i].valid

\* POST /api/Company/upload_cer: the row and the permission are those the
\* middleware read.
UploadCer(k, i, c) ==
  /\ Step(k, "none") /\ Accepted(c)
  /\ Exists(i) /\ \E p \in {"user", "admin"} : <<p, i, "OPERATOR">> \in grants
  /\ company[i].rfc = Info[c].rfc
  /\ filing' = [filing EXCEPT ![k] = [NoFiling EXCEPT !.step = "cer", !.how = "upload",
                                        !.ws = company[i].ws, !.cert = c, !.id = i,
                                        !.first = IsNew(i), !.seen = announced[i]]]
  /\ UNCHANGED <<company, schema, object, grants, freemium, announced, restored, lost>>

\* Variant: the flags are set before the passphrase is stored.
AfterExtFlagsEarly(e) == CASE e = "cer" -> "key" [] e = "key" -> "flags" [] e = "txt" -> "done"

AfterExt(e) == CASE e = "cer" -> "key" [] e = "key" -> "txt" [] e = "txt" -> "flags"

\* Storing: the calls that are storing or have stored the objects of company i.
Storing(i) == {k \in Filing : filing[k].id = i /\ filing[k].step \in Ext \cup {"flags"}}

Upload(k, e) ==
  /\ Step(k, e)
  /\ LET i == filing[k].id IN
     /\ object' = [object EXCEPT ![i][e] = filing[k].cert]
     /\ filing' = [j \in Filing |->
          IF j = k THEN [filing[k] EXCEPT !.step = AfterExt(e)]
          ELSE IF j \in Storing(i) THEN [filing[j] EXCEPT !.alone = FALSE]
          ELSE filing[j]]
  /\ UNCHANGED <<company, schema, grants, freemium, announced, restored, lost>>

\* UPDATE of both flags; it finds no row when the company was deleted.
SetFlags(k) ==
  /\ Step(k, "flags")
  /\ LET i == filing[k].id IN
     company' = IF Exists(i) THEN [company EXCEPT ![i].have = TRUE, ![i].valid = TRUE]
                ELSE company
  /\ \/ filing[k].how # "upload" /\ Certified(k, "grant")
     \/ filing[k].how = "upload" /\ filing[k].first /\ Certified(k, "restore")
     \/ filing[k].how = "upload" /\ ~filing[k].first /\ Done(k)
  /\ UNCHANGED <<schema, object, grants, freemium, announced, restored, lost>>

OthersActive(i, w) == {j \in CompanyId \ {i} : /\ Exists(j) /\ company[j].ws = w
                                                /\ company[j].active /\ company[j].have}

\* The workspace has another company with certificates: no trial is restored.
\* The count may fail, and then counts as none.
RequestRestoreTrial(k) ==
  /\ Step(k, "restore")
  /\ LET i == filing[k].id IN
     \/ /\ OthersActive(i, filing[k].ws) = {} \/ "count" \in CompanyFaults
        /\ restored' = restored \cup {i}
     \/ /\ OthersActive(i, filing[k].ws) # {}
        /\ UNCHANGED restored
  /\ GoOn(k, "publish")
  /\ UNCHANGED <<company, schema, object, grants, freemium, announced, lost>>

-----------------------------------------------------------------------------
(* Permissions, event, licence *)

\* INSERT of a permission: its foreign key needs the row.
GrantRole(k) ==
  /\ Step(k, "grant") /\ filing[k].todo # <<>>
  /\ Exists(filing[k].id)
  /\ LET g == Head(filing[k].todo) IN grants' = grants \cup {<<g[1], filing[k].id, g[2]>>}
  /\ LET rest == Tail(filing[k].todo)
         next == IF rest # <<>> THEN "grant"
                 ELSE IF Head(filing[k].todo)[1] = "user" THEN "publish" ELSE "license"
     IN filing' = [filing EXCEPT ![k].todo = rest, ![k].step = next]
  /\ UNCHANGED <<company, schema, object, freemium, announced, restored, lost>>

\* What is left to do after COMPANY_CREATED: an administrator gets permissions too.
AfterPublish(k) ==
  IF filing[k].how = "admin"
  THEN filing' = [filing EXCEPT ![k].step = "grant",
                    ![k].todo = <<<<"admin", "OPERATOR">>, <<"admin", "PAYROLL">>>>]
  ELSE Done(k)

PublishCompanyCreated(k) ==
  /\ Step(k, "publish")
  /\ announced' = [announced EXCEPT ![filing[k].id] = @ + 1]
  /\ AfterPublish(k)
  /\ UNCHANGED <<company, schema, object, grants, freemium, restored, lost>>

\* The publisher fails: the bus drops the event.
PublishLost(k) ==
  /\ "publish" \in CompanyFaults
  /\ Step(k, "publish")
  /\ lost' = lost \cup {filing[k].id}
  /\ AfterPublish(k)
  /\ UNCHANGED <<company, schema, object, grants, freemium, announced, restored>>

\* The workspace gets the licence of AdminCreate, whatever it had.
AdminLicense(k) ==
  /\ Step(k, "license")
  /\ freemium' = freemium \ {filing[k].ws}
  /\ Done(k)
  /\ UNCHANGED <<company, schema, object, grants, announced, restored, lost>>

\* A statement or an upload fails, the permission of a deleted company is refused,
\* or the process dies: what the call has written stays.
CallFails(k) ==
  /\ "call" \in CompanyFaults \/ (Step(k, "grant") /\ ~Exists(filing[k].id))
  /\ ~Step(k, "none")
  /\ lost' = lost \cup ({filing[k].id} \ {NoId})
  /\ Done(k)
  /\ UNCHANGED <<company, schema, object, grants, freemium, announced, restored>>

-----------------------------------------------------------------------------
(* Other calls *)

\* PUT /api/Company, where it changes the column the rest of the model reads.
UpdateCompany(i, active) ==
  /\ Exists(i) /\ company[i].active # active
  /\ company' = [company EXCEPT ![i].active = active]
  /\ UNCHANGED <<schema, object, grants, freemium, announced, restored, lost, filing>>

\* DELETE /api/Company, with the permissions (ON DELETE CASCADE); tables and
\* objects stay.
DeleteCompany(i) ==
  /\ Exists(i)
  /\ company' = [company EXCEPT ![i] = NoRow]
  /\ grants' = {g \in grants : g[2] # i}
  /\ UNCHANGED <<schema, object, freemium, announced, restored, lost, filing>>

\* The worker could not use the certificates (CreateQuery.markErrorInCerts).
InvalidateCerts(i) ==
  /\ "certs" \in CompanyFaults
  /\ Exists(i) /\ company[i].valid
  /\ company' = [company EXCEPT ![i].valid = FALSE]
  /\ UNCHANGED <<schema, object, grants, freemium, announced, restored, lost, filing>>

CompaniesNext ==
  \/ \E k \in Filing :
       \/ \E how \in {"user", "admin"}, w \in Place, c \in Certificate :
            Create(k, how, w, c) \/ CreateUncounted(k, how, w, c)
       \/ EnsureNoRFCInFreemiumAccounts(k)
       \/ \E i \in CompanyId : RunTenantMigrations(k, i)
       \/ InsertCompany(k)
       \/ \E i \in CompanyId, c \in Certificate : UploadCer(k, i, c)
       \/ \E e \in Ext : Upload(k, e)
       \/ SetFlags(k)
       \/ RequestRestoreTrial(k)
       \/ GrantRole(k)
       \/ PublishCompanyCreated(k)
       \/ PublishLost(k)
       \/ AdminLicense(k)
       \/ CallFails(k)
  \/ \E i \in CompanyId :
       \/ \E active \in BOOLEAN : UpdateCompany(i, active)
       \/ DeleteCompany(i)
       \/ InvalidateCerts(i)

CompaniesSpec == CompaniesInit /\ [][CompaniesNext]_companiesVars

-----------------------------------------------------------------------------
(* Properties *)

\* A company that exists has its tables, whatever call failed half-way: handlers open
\* a session on its schema without looking ("we never persist a company whose schema
\* is empty").
CompanyHasTables == \A i \in CompanyId : Exists(i) => i \in schema

\* Inserted: the call that inserts a row in this step, and its company.
Inserts(k, i) == ~Exists(i) /\ Exists(i)' /\ filing[k].id = i /\ Step(k, "insert")

\* A second company of an RFC in a workspace needs two calls that overlap, or a count
\* that failed: no sequence of calls, of deactivations and of failures half-way makes
\* one otherwise.
SecondNeedsOverlap ==
  [][\A k \in Filing, i \in CompanyId :
       LET r == Info[filing[k].cert].rfc IN
       Inserts(k, i) /\ ~filing[k].blind /\ r \notin ExemptRfc =>
         SameRfc(filing[k].ws, r) \subseteq filing[k].missed]_companiesVars

\* An RFC gets past the limit of freemium workspaces only by calls that overlap or by
\* a query that failed.
FreemiumNeedsOverlap ==
  [][\A k \in Filing, i \in CompanyId :
       LET r == Info[filing[k].cert].rfc IN
       Inserts(k, i) /\ ~filing[k].blind /\ r \notin SpecialRfc =>
         Cardinality(InFreemium(r) \ filing[k].missed) < MaxSameCompanyInTrials]_companiesVars

\* A call says that the certificates are there and valid only when certificate, key
\* and passphrase in storage are those of one upload, unless another call stored its
\* own meanwhile.
FlagsFollowObjects ==
  [][\A k \in Filing :
       Step(k, "flags") /\ filing'[k].step # "flags" /\ filing[k].alone
         /\ filing'[k].id = filing[k].id =>
           \A e \in Ext : object[filing[k].id][e] = filing[k].cert]_companiesVars

\* The first synchronisation of a company is asked for twice only by two uploads that
\* overlap: certificates renewed or replaced later do not start it again.
AnnouncedTwiceNeedsOverlap ==
  [][\A k \in Filing :
       Step(k, "publish") /\ filing'[k].step # "publish" =>
         LET i == filing[k].id IN
         announced'[i] = announced[i] \/ announced[i] = 0
           \/ filing[k].seen < announced[i]]_companiesVars

\* A company with certificates has been announced, or a call is about to, unless a
\* call on it failed or the event was lost.
CertifiedIsAnnounced ==
  \A i \in CompanyId :
    Exists(i) /\ company[i].have /\ announced[i] = 0 =>
      \/ i \in lost
      \/ \E k \in Filing : /\ filing[k].id = i
                           /\ filing[k].step \in {"grant", "restore", "publish"}

\* A company whose certificates are good is announced, and once: whatever fails or
\* overlaps, its first synchronisation is asked for by the upload that made it new.
AnnouncedOnce == []CertifiedIsAnnounced /\ AnnouncedTwiceNeedsOverlap

\* What createFromCerts counts before it inserts a row holds for the row, unless calls
\* overlap or a count fails.
LimitsNeedOverlap == SecondNeedsOverlap /\ FreemiumNeedsOverlap

=============================================================================
