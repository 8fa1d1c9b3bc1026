---------------------------- MODULE CompaniesProofs ----------------------------
(***************************************************************************)
(* Proofs about Companies, CompanySettings, and the module db on which the *)
(* tables of a company rest, for every number of companies, workspaces and *)
(* calls, of connections, loops, replicas and versions.                    *)
(*   IInv: what a call that has counted still knows: every company that it *)
(*   would find now and did not then was inserted since ("missed").        *)
(*   CertIInv: how far each call has come with the objects, the flags and  *)
(*   the announcement of its company, which no other call has before the   *)
(*   row is there.                                                         *)
(*   SettingsIInv: what a call read is what is stored, but for what it     *)
(*   missed; and what it has changed so far is what it was asked for.      *)
(*   TenantPool: when no connection is free each has an owner, and a       *)
(*   handler that waits has at most one, so some handler that is at work   *)
(*   has two.                                                              *)
(*   Migrations: what a replica read or applied is recorded, without a gap *)
(*   (ReadIsRecorded); the version it works on is the first that is        *)
(*   missing there (AtIsFirst): so the versions recorded have no gap       *)
(*   either, and the primary key lets each in once.                        *)
(***************************************************************************)
EXTENDS Companies, CompanySettings, TenantPool, Migrations, FiniteSetTheorems, TLAPS

Field == {"step", "how", "ws", "cert", "id", "todo", "first", "missed", "alone", "seen", "blind"}

Shape == DOMAIN filing = Filing /\ \A k \in Filing : DOMAIN filing[k] = Field

Rows == company \in [CompanyId -> CompanyRow \cup {NoRow}]

RfcOf(k) == Info[filing[k].cert].rfc

Counts(k) == filing[k].step \in {"freemium", "schema", "insert"}

\* A call that has counted: where and for which certificate, and its company once the
\* tables of that are there.
CountsWell(k) ==
  Counts(k) => /\ filing[k].ws \in Place /\ filing[k].cert \in Certificate
               /\ filing[k].step = "insert" => filing[k].id \in CompanyId \cap schema

\* The companies of its RFC were inserted since it counted them.
KnowsSame(k) ==
  Counts(k) /\ ~filing[k].blind /\ RfcOf(k) \notin ExemptRfc =>
    SameRfc(filing[k].ws, RfcOf(k)) \subseteq filing[k].missed

\* But for those inserted since, the freemium workspaces are below the limit.
KnowsFreemium(k) ==
  filing[k].step \in {"schema", "insert"} /\ ~filing[k].blind /\ RfcOf(k) \notin SpecialRfc =>
    Cardinality(InFreemium(RfcOf(k)) \ filing[k].missed) < MaxSameCompanyInTrials

IInv ==
  /\ Shape
  /\ Rows
  /\ CompanyHasTables
  /\ \A k \in Filing : CountsWell(k)
  /\ \A k \in Filing : KnowsSame(k)
  /\ \A k \in Filing : KnowsFreemium(k)

-----------------------------------------------------------------------------
(* What the invariant needs of a step *)

\* No row appears, or changes its workspace or its RFC, and no workspace becomes
\* freemium: nothing more is found by a count.
NoMore ==
  /\ \A i \in CompanyId : Exists(i)' =>
       Exists(i) /\ company'[i].ws = company[i].ws /\ company'[i].rfc = company[i].rfc
  /\ freemium' \subseteq freemium

LEMMA NoMoreFound ==
  ASSUME NoMore
  PROVE  /\ \A w, r : SameRfc(w, r)' \subseteq SameRfc(w, r)
         /\ \A r : InFreemium(r)' \subseteq InFreemium(r)
BY DEF NoMore, SameRfc, InFreemium, Exists

LEMMA InFreemiumFinite ==
  ASSUME NEW r, NEW S, S \subseteq InFreemium(r) PROVE IsFiniteSet(S)
BY CompaniesAssumption, FS_Subset DEF InFreemium

LEMMA FewerInFreemium ==
  ASSUME NEW S, NEW T, S \subseteq T, IsFiniteSet(T), Cardinality(T) < MaxSameCompanyInTrials
  PROVE  Cardinality(S) < MaxSameCompanyInTrials
<1>1. Cardinality(S) <= Cardinality(T) /\ IsFiniteSet(S)
  BY FS_Subset
<1>2. Cardinality(S) \in Nat /\ Cardinality(T) \in Nat
  BY <1>1, FS_CardinalityType
<1> QED
  BY <1>1, <1>2, CompaniesAssumption

\* A call goes on as it was, as far as the counts are concerned.
Same(k) == /\ filing'[k].step = filing[k].step /\ filing'[k].ws = filing[k].ws
           /\ filing'[k].cert = filing[k].cert /\ filing'[k].id = filing[k].id
           /\ filing'[k].missed = filing[k].missed /\ filing'[k].blind = filing[k].blind

LEMMA SameKnows ==
  ASSUME IInv, NoMore, schema \subseteq schema', NEW k \in Filing, Same(k)
  PROVE  CountsWell(k)' /\ KnowsSame(k)' /\ KnowsFreemium(k)'
<1>1. CountsWell(k)'
  BY DEF IInv, CountsWell, Counts, Same
<1>2. RfcOf(k)' = RfcOf(k)
  BY DEF Same, RfcOf
<1>3. KnowsSame(k)'
  BY <1>2, NoMoreFound DEF IInv, KnowsSame, Counts, Same
<1>4. KnowsFreemium(k)'
  <2> SUFFICES ASSUME filing[k].step \in {"schema", "insert"}, ~filing[k].blind,
                      RfcOf(k) \notin SpecialRfc
               PROVE  Cardinality(InFreemium(RfcOf(k))' \ filing[k].missed)
                        < MaxSameCompanyInTrials
    BY <1>2 DEF KnowsFreemium, Same, InFreemium
  <2>1. Cardinality(InFreemium(RfcOf(k)) \ filing[k].missed) < MaxSameCompanyInTrials
    BY DEF IInv, KnowsFreemium
  <2> QED
    BY <1>2, <2>1, NoMoreFound, InFreemiumFinite, FewerInFreemium
<1> QED
  BY <1>1, <1>3, <1>4

LEMMA NoCountKnows ==
  ASSUME NEW k \in Filing, ~Counts(k)'
  PROVE  CountsWell(k)' /\ KnowsSame(k)' /\ KnowsFreemium(k)'
BY DEF Counts, CountsWell, KnowsSame, KnowsFreemium

\* A step in which every call goes on as it was, or does not count.
LEMMA QuietStep ==
  ASSUME IInv, Shape', Rows', NoMore, schema \subseteq schema',
         \A k \in Filing : Same(k) \/ ~Counts(k)'
  PROVE  IInv'
<1>1. CompanyHasTables'
  BY DEF IInv, NoMore, CompanyHasTables
<1>2. \A k \in Filing : CountsWell(k)' /\ KnowsSame(k)' /\ KnowsFreemium(k)'
  BY SameKnows, NoCountKnows
<1> QED
  BY <1>1, <1>2 DEF IInv


-----------------------------------------------------------------------------
(* One lemma per action *)

LEMMA Unchanged ==
  ASSUME IInv, NEW k \in Filing, UNCHANGED <<company, freemium>>,
         \A j \in Filing : j # k => filing'[j] = filing[j]
  PROVE  /\ NoMore /\ Rows'
         /\ \A j \in Filing : j # k => Same(j)
BY DEF IInv, NoMore, Rows, Same, Exists

LEMMA CreateStep ==
  ASSUME IInv, NEW k \in Filing, NEW how \in {"user", "admin"}, NEW w \in Place,
         NEW c \in Certificate, Create(k, how, w, c)
  PROVE  IInv'
<1>1. /\ \A j \in Filing : j # k => filing'[j] = filing[j]
      /\ filing'[k].step = "freemium" /\ filing'[k].ws = w /\ filing'[k].cert = c
      /\ filing'[k].missed = {}
      /\ Shape'
  BY DEF IInv, Shape, Field, Create, NoFiling
<1>2. UNCHANGED <<company, schema, freemium>>
  BY DEF Create
<1>3. NoMore /\ Rows' /\ \A j \in Filing : j # k => Same(j)
  BY <1>1, <1>2, Unchanged
<1>4. CompanyHasTables'
  BY <1>2 DEF IInv, CompanyHasTables, Exists
<1>5. SameRfc(w, Info[c].rfc) = {} \/ Info[c].rfc \in ExemptRfc
  BY DEF Create
<1>6. CountsWell(k)' /\ KnowsFreemium(k)'
  BY <1>1 DEF CountsWell, KnowsFreemium, Counts
<1>7. KnowsSame(k)'
  BY <1>1, <1>3, <1>5, NoMoreFound DEF KnowsSame, RfcOf
<1>8. \A j \in Filing : j # k => CountsWell(j)' /\ KnowsSame(j)' /\ KnowsFreemium(j)'
  BY <1>2, <1>3, SameKnows
<1> QED
  BY <1>1, <1>3, <1>4, <1>6, <1>7, <1>8 DEF IInv

LEMMA CreateUncountedStep ==
  ASSUME IInv, NEW k \in Filing, NEW how \in {"user", "admin"}, NEW w \in Place,
         NEW c \in Certificate, CreateUncounted(k, how, w, c)
  PROVE  IInv'
<1>1. /\ \A j \in Filing : j # k => filing'[j] = filing[j]
      /\ filing'[k].step = "freemium" /\ filing'[k].ws = w /\ filing'[k].cert = c
      /\ filing'[k].blind = TRUE
      /\ Shape'
  BY DEF IInv, Shape, Field, CreateUncounted, NoFiling
<1>2. UNCHANGED <<company, schema, freemium>>
  BY DEF CreateUncounted
<1>3. NoMore /\ Rows' /\ \A j \in Filing : j # k => Same(j)
  BY <1>1, <1>2, Unchanged
<1>4. CompanyHasTables'
  BY <1>2 DEF IInv, CompanyHasTables, Exists
<1>5. CountsWell(k)' /\ KnowsFreemium(k)' /\ KnowsSame(k)'
  BY <1>1 DEF CountsWell, KnowsFreemium, KnowsSame, Counts
<1>6. \A j \in Filing : j # k => CountsWell(j)' /\ KnowsSame(j)' /\ KnowsFreemium(j)'
  BY <1>2, <1>3, SameKnows
<1> QED
  BY <1>1, <1>3, <1>4, <1>5, <1>6 DEF IInv

\* A call that counts goes from one step to another.
LEMMA AdvanceStep ==
  ASSUME IInv, NEW k \in Filing, Shape', UNCHANGED <<company, freemium>>,
         schema \subseteq schema',
         \A j \in Filing : j # k => filing'[j] = filing[j],
         Counts(k), Counts(k)',
         filing'[k].ws = filing[k].ws, filing'[k].cert = filing[k].cert,
         filing'[k].missed = filing[k].missed,
         filing'[k].step = "insert" => filing'[k].id \in CompanyId \cap schema',
         filing[k].blind => filing'[k].blind,
         KnowsFreemium(k)'
  PROVE  IInv'
<1>1. NoMore /\ Rows' /\ \A j \in Filing : j # k => Same(j)
  BY Unchanged
<1>2. CompanyHasTables'
  BY DEF IInv, CompanyHasTables, Exists
<1>3. CountsWell(k)'
  BY DEF IInv, CountsWell
<1>4. KnowsSame(k)'
  BY <1>1, NoMoreFound DEF IInv, KnowsSame, RfcOf
<1>5. \A j \in Filing : j # k => CountsWell(j)' /\ KnowsSame(j)' /\ KnowsFreemium(j)'
  BY <1>1, SameKnows
<1> QED
  BY <1>1, <1>2, <1>3, <1>4, <1>5 DEF IInv

LEMMA EnsureNoRFCStep ==
  ASSUME IInv, NEW k \in Filing, EnsureNoRFCInFreemiumAccounts(k)
  PROVE  IInv'
<1>1. UNCHANGED <<company, schema, freemium>> /\ filing[k].step = "freemium"
  BY DEF EnsureNoRFCInFreemiumAccounts, Step
<1>2. CASE FreemiumAllows(RfcOf(k)) /\ GoOn(k, "schema")
  <2>1. /\ \A j \in Filing : j # k => filing'[j] = filing[j]
        /\ filing'[k].step = "schema" /\ filing'[k].ws = filing[k].ws
        /\ filing'[k].cert = filing[k].cert /\ filing'[k].missed = filing[k].missed
        /\ filing'[k].blind = filing[k].blind
        /\ Shape'
    BY <1>2 DEF IInv, Shape, Field, GoOn
  <2>2. RfcOf(k)' = RfcOf(k) /\ InFreemium(RfcOf(k))' = InFreemium(RfcOf(k))
    BY <1>1, <2>1 DEF RfcOf, InFreemium, Exists
  <2>3. KnowsFreemium(k)'
    <3> SUFFICES ASSUME RfcOf(k) \notin SpecialRfc
                 PROVE  Cardinality(InFreemium(RfcOf(k)) \ filing[k].missed)
                          < MaxSameCompanyInTrials
      BY <2>1, <2>2 DEF KnowsFreemium
    <3>1. Cardinality(InFreemium(RfcOf(k))) < MaxSameCompanyInTrials
      BY <1>2 DEF FreemiumAllows
    <3> QED
      BY <3>1, InFreemiumFinite, FewerInFreemium
  <2> QED
    BY <1>1, <2>1, <2>3, AdvanceStep DEF Counts
<1>3. CASE Done(k)
  <2>1. /\ \A j \in Filing : j # k => filing'[j] = filing[j]
        /\ filing'[k].step = "done"
        /\ Shape'
    BY <1>3 DEF IInv, Shape, Field, Done, NoFiling
  <2> QED
    BY <1>1, <2>1, Unchanged, QuietStep DEF Counts
<1>4. CASE filing' = [filing EXCEPT ![k].step = "schema", ![k].blind = TRUE]
  <2>1. /\ \A j \in Filing : j # k => filing'[j] = filing[j]
        /\ filing'[k].step = "schema" /\ filing'[k].ws = filing[k].ws
        /\ filing'[k].cert = filing[k].cert /\ filing'[k].missed = filing[k].missed
        /\ filing'[k].blind = TRUE
        /\ Shape'
    BY <1>4 DEF IInv, Shape, Field
  <2>2. KnowsFreemium(k)'
    BY <2>1 DEF KnowsFreemium
  <2> QED
    BY <1>1, <2>1, <2>2, AdvanceStep DEF Counts
<1> QED
  BY <1>2, <1>3, <1>4 DEF EnsureNoRFCInFreemiumAccounts, RfcOf

LEMMA RunTenantMigrationsStep ==
  ASSUME IInv, NEW k \in Filing, NEW i \in CompanyId, RunTenantMigrations(k, i)
  PROVE  IInv'
<1>1. /\ UNCHANGED <<company, freemium>> /\ schema' = schema \cup {i}
      /\ filing[k].step = "schema"
  BY DEF RunTenantMigrations, Step
<1>2. /\ \A j \in Filing : j # k => filing'[j] = filing[j]
      /\ filing'[k].step = "insert" /\ filing'[k].id = i /\ filing'[k].ws = filing[k].ws
      /\ filing'[k].cert = filing[k].cert /\ filing'[k].missed = filing[k].missed
      /\ filing'[k].blind = filing[k].blind
      /\ Shape'
  BY DEF RunTenantMigrations, IInv, Shape, Field
<1>3. KnowsFreemium(k)'
  BY <1>1, <1>2 DEF IInv, KnowsFreemium, RfcOf, InFreemium, Exists
<1> QED
  BY <1>1, <1>2, <1>3, AdvanceStep DEF Counts

LEMMA InsertCompanyStep ==
  ASSUME IInv, NEW k \in Filing, InsertCompany(k) PROVE IInv'
<1> DEFINE new == filing[k].id
<1>1. /\ filing[k].step = "insert" /\ UNCHANGED <<schema, freemium>>
      /\ company' = [company EXCEPT ![new] = NewCompany(k)]
  BY DEF InsertCompany, Step
<1>2. Counts(k) /\ CountsWell(k)
  BY <1>1 DEF IInv, Counts
<1>3. new \in CompanyId \cap schema /\ filing[k].ws \in Place /\ filing[k].cert \in Certificate
  BY <1>1, <1>2 DEF CountsWell
<1>4. NewCompany(k) \in CompanyRow
  BY <1>3, CompaniesAssumption DEF NewCompany, CompanyRow
<1>5. Rows' /\ \A i \in CompanyId : i # new => company'[i] = company[i]
  BY <1>1, <1>4 DEF IInv, Rows
<1>6. CompanyHasTables'
  BY <1>1, <1>3, <1>5 DEF IInv, CompanyHasTables, Exists
<1>7. /\ Shape'
      /\ filing'[k].step = "cer"
      /\ \A j \in Filing : j # k /\ Counts(j) =>
           /\ filing'[j].step = filing[j].step /\ filing'[j].ws = filing[j].ws
           /\ filing'[j].cert = filing[j].cert /\ filing'[j].id = filing[j].id
           /\ filing'[j].missed = filing[j].missed \cup {new}
           /\ filing'[j].blind = filing[j].blind
      /\ \A j \in Filing : j # k /\ ~Counts(j) => filing'[j] = filing[j]
  BY DEF InsertCompany, Counting, Counts, IInv, Shape, Field
<1> HIDE DEF new
<1>8. /\ \A w, r : SameRfc(w, r)' \subseteq SameRfc(w, r) \cup {new}
      /\ \A r : InFreemium(r)' \subseteq InFreemium(r) \cup {new}
  BY <1>1, <1>5 DEF SameRfc, InFreemium, Exists
<1>9. ASSUME NEW j \in Filing, j # k, Counts(j)
      PROVE  CountsWell(j)' /\ KnowsSame(j)' /\ KnowsFreemium(j)'
  <2>1. CountsWell(j)'
    BY <1>1, <1>7, <1>9 DEF IInv, CountsWell, Counts
  <2>2. RfcOf(j)' = RfcOf(j)
    BY <1>7, <1>9 DEF RfcOf
  <2>3. KnowsSame(j)'
    BY <1>7, <1>8, <1>9, <2>2 DEF IInv, KnowsSame, Counts
  <2>4. KnowsFreemium(j)'
    <3> SUFFICES ASSUME filing[j].step \in {"schema", "insert"}, ~filing[j].blind,
                        RfcOf(j) \notin SpecialRfc
                 PROVE  Cardinality(InFreemium(RfcOf(j))' \ (filing[j].missed \cup {new}))
                          < MaxSameCompanyInTrials
      BY <1>7, <1>9, <2>2 DEF KnowsFreemium, InFreemium
    <3>1. Cardinality(InFreemium(RfcOf(j)) \ filing[j].missed) < MaxSameCompanyInTrials
      BY DEF IInv, KnowsFreemium
    <3>2. InFreemium(RfcOf(j))' \ (filing[j].missed \cup {new})
            \subseteq InFreemium(RfcOf(j)) \ filing[j].missed
      BY <1>8, <2>2
    <3> QED
      BY <3>1, <3>2, InFreemiumFinite, FewerInFreemium
  <2> QED
    BY <2>1, <2>3, <2>4
<1>10. ASSUME NEW j \in Filing, j = k \/ ~Counts(j)
       PROVE  CountsWell(j)' /\ KnowsSame(j)' /\ KnowsFreemium(j)'
  <2>1. ~Counts(j)'
    BY <1>7, <1>10 DEF Counts
  <2> QED
    BY <2>1, NoCountKnows
<1> QED
  BY <1>5, <1>6, <1>7, <1>9, <1>10 DEF IInv

\* A step of a call that has inserted, or that brings certificates.
LEMMA AfterInsertStep ==
  ASSUME IInv, NEW k \in Filing, Shape', Rows', NoMore, schema \subseteq schema',
         ~Counts(k)', \A j \in Filing : j # k => Same(j)
  PROVE  IInv'
BY QuietStep

LEMMA UploadCerStep ==
  ASSUME IInv, NEW k \in Filing, NEW i \in CompanyId, NEW c \in Certificate, UploadCer(k, i, c)
  PROVE  IInv'
<1>1. /\ \A j \in Filing : j # k => filing'[j] = filing[j]
      /\ filing'[k].step = "cer" /\ Shape'
  BY DEF IInv, Shape, Field, UploadCer, NoFiling
<1>2. UNCHANGED <<company, schema, freemium>>
  BY DEF UploadCer
<1> QED
  BY <1>1, <1>2, Unchanged, AfterInsertStep DEF Counts

LEMMA UploadStep ==
  ASSUME IInv, NEW k \in Filing, NEW e \in Ext, Upload(k, e) PROVE IInv'
<1>1. UNCHANGED <<company, schema, freemium>>
  BY DEF Upload
<1>2. AfterExt(e) \in {"key", "txt", "flags"}
  BY DEF AfterExt, Ext
<1>3. Shape' /\ filing'[k].step = AfterExt(e) /\ \A j \in Filing : j # k => Same(j)
  BY DEF IInv, Shape, Field, Upload, Same
<1>4. NoMore /\ Rows'
  BY <1>1 DEF IInv, NoMore, Rows, Exists
<1> QED
  BY <1>1, <1>2, <1>3, <1>4, AfterInsertStep DEF Counts

LEMMA SetFlagsStep ==
  ASSUME IInv, NEW k \in Filing, SetFlags(k) PROVE IInv'
<1>1. /\ Shape' /\ filing'[k].step \in {"grant", "restore", "done"}
      /\ \A j \in Filing : j # k => Same(j)
  BY DEF IInv, Shape, Field, SetFlags, Certified, Done, NoFiling, Same
<1>2. NoMore /\ Rows' /\ UNCHANGED schema
  BY DEF IInv, SetFlags, NoMore, Rows, CompanyRow, Exists
<1> QED
  BY <1>1, <1>2, AfterInsertStep DEF Counts

\* The steps that write neither rows nor tables.
LEMMA LaterStep ==
  ASSUME IInv, NEW k \in Filing,
         \/ RequestRestoreTrial(k) \/ GrantRole(k) \/ PublishCompanyCreated(k)
         \/ PublishLost(k) \/ AdminLicense(k) \/ CallFails(k)
  PROVE  IInv'
<1>1. UNCHANGED <<company, schema>> /\ freemium' \subseteq freemium
  BY DEF RequestRestoreTrial, GrantRole, PublishCompanyCreated, PublishLost, AdminLicense,
         CallFails
<1>2. NoMore /\ Rows'
  BY <1>1 DEF IInv, NoMore, Rows, Exists
<1>3. CASE RequestRestoreTrial(k)
  <2>1. Shape' /\ filing'[k].step = "publish" /\ \A j \in Filing : j # k => Same(j)
    BY <1>3 DEF IInv, Shape, Field, RequestRestoreTrial, GoOn, Same
  <2> QED
    BY <1>1, <1>2, <2>1, AfterInsertStep DEF Counts
<1>4. CASE GrantRole(k)
  <2>1. /\ Shape' /\ filing'[k].step \in {"grant", "publish", "license"}
        /\ \A j \in Filing : j # k => Same(j)
    BY <1>4 DEF IInv, Shape, Field, GrantRole, Same
  <2> QED
    BY <1>1, <1>2, <2>1, AfterInsertStep DEF Counts
<1>5. CASE PublishCompanyCreated(k) \/ PublishLost(k)
  <2>1. AfterPublish(k)
    BY <1>5 DEF PublishCompanyCreated, PublishLost
  <2>2. Shape' /\ filing'[k].step \in {"grant", "done"} /\ \A j \in Filing : j # k => Same(j)
    BY <2>1 DEF IInv, Shape, Field, AfterPublish, Done, NoFiling, Same
  <2> QED
    BY <1>1, <1>2, <2>2, AfterInsertStep DEF Counts
<1>6. CASE AdminLicense(k) \/ CallFails(k)
  <2>1. Done(k)
    BY <1>6 DEF AdminLicense, CallFails
  <2>2. Shape' /\ filing'[k].step = "done" /\ \A j \in Filing : j # k => Same(j)
    BY <2>1 DEF IInv, Shape, Field, Done, NoFiling, Same
  <2> QED
    BY <1>1, <1>2, <2>2, AfterInsertStep DEF Counts
<1> QED
  BY <1>3, <1>4, <1>5, <1>6

LEMMA CompanyStep ==
  ASSUME IInv, NEW i \in CompanyId,
         (\E active \in BOOLEAN : UpdateCompany(i, active)) \/ DeleteCompany(i)
           \/ InvalidateCerts(i)
  PROVE  IInv'
<1>1. UNCHANGED <<schema, freemium, filing>>
  BY DEF UpdateCompany, DeleteCompany, InvalidateCerts
<1>2. Shape' /\ \A k \in Filing : Same(k)
  BY <1>1 DEF IInv, Shape, Same
<1>3. ASSUME NEW active \in BOOLEAN, UpdateCompany(i, active) PROVE NoMore /\ Rows'
  BY <1>3 DEF IInv, UpdateCompany, NoMore, Rows, CompanyRow, Exists
<1>4. ASSUME DeleteCompany(i) PROVE NoMore /\ Rows'
  BY <1>4 DEF IInv, DeleteCompany, NoMore, Rows, Exists
<1>5. ASSUME InvalidateCerts(i) PROVE NoMore /\ Rows'
  BY <1>5 DEF IInv, InvalidateCerts, NoMore, Rows, CompanyRow, Exists
<1> QED
  BY <1>1, <1>2, <1>3, <1>4, <1>5, QuietStep

-----------------------------------------------------------------------------

LEMMA InitIInv == CompaniesInit => IInv
<1> SUFFICES ASSUME CompaniesInit PROVE IInv
  OBVIOUS
<1>1. /\ Shape
      /\ \A k \in Filing : filing[k].step = "none"
  BY DEF CompaniesInit, Shape, Field, NoFiling
<1>2. PICK shells \in SUBSET CompanyId, w \in Place, r \in Rfc :
        /\ company = [i \in CompanyId |->
             IF i \in shells
             THEN [ws |-> w, rfc |-> r, active |-> TRUE, have |-> FALSE, valid |-> FALSE]
             ELSE NoRow]
        /\ schema = shells
  BY DEF CompaniesInit
<1>3. [ws |-> w, rfc |-> r, active |-> TRUE, have |-> FALSE, valid |-> FALSE] \in CompanyRow
  BY DEF CompanyRow
<1>4. Rows
  BY <1>2, <1>3 DEF Rows
<1>5. CompanyHasTables
  BY <1>2 DEF CompanyHasTables, Exists
<1>6. \A k \in Filing : CountsWell(k) /\ KnowsSame(k) /\ KnowsFreemium(k)
  BY <1>1 DEF Counts, CountsWell, KnowsSame, KnowsFreemium
<1> QED
  BY <1>1, <1>4, <1>5, <1>6 DEF IInv

LEMMA NextIInv ==
  ASSUME IInv, [CompaniesNext]_companiesVars PROVE IInv'
<1>1. CASE \E k \in Filing, how \in {"user", "admin"}, w \in Place, c \in Certificate :
             Create(k, how, w, c) \/ CreateUncounted(k, how, w, c)
  BY <1>1, CreateStep, CreateUncountedStep
<1>2. CASE \E k \in Filing : EnsureNoRFCInFreemiumAccounts(k)
  BY <1>2, EnsureNoRFCStep
<1>3. CASE \E k \in Filing, i \in CompanyId : RunTenantMigrations(k, i)
  BY <1>3, RunTenantMigrationsStep
<1>4. CASE \E k \in Filing : InsertCompany(k)
  BY <1>4, InsertCompanyStep
<1>5. CASE \E k \in Filing, i \in CompanyId, c \in Certificate : UploadCer(k, i, c)
  BY <1>5, UploadCerStep
<1>6. CASE \E k \in Filing, e \in Ext : Upload(k, e)
  BY <1>6, UploadStep
<1>7. CASE \E k \in Filing : SetFlags(k)
  BY <1>7, SetFlagsStep
<1>8. CASE \E k \in Filing : \/ RequestRestoreTrial(k) \/ GrantRole(k)
                             \/ PublishCompanyCreated(k) \/ PublishLost(k)
                             \/ AdminLicense(k) \/ CallFails(k)
  BY <1>8, LaterStep
<1>9. CASE \E i \in CompanyId : \/ \E active \in BOOLEAN : UpdateCompany(i, active)
                                \/ DeleteCompany(i)
                                \/ InvalidateCerts(i)
  BY <1>9, CompanyStep
<1>10. CASE UNCHANGED companiesVars
  <2>1. Shape' /\ Rows' /\ NoMore /\ UNCHANGED schema /\ \A k \in Filing : Same(k)
    BY <1>10 DEF companiesVars, IInv, Shape, Rows, NoMore, Exists, Same
  <2> QED
    BY <2>1, QuietStep
<1> QED
  BY <1>1, <1>2, <1>3, <1>4, <1>5, <1>6, <1>7, <1>8, <1>9, <1>10 DEF CompaniesNext

\* The invariant holds throughout.
THEOREM Invariance == CompaniesSpec => []IInv
<1>1. IInv /\ [CompaniesNext]_companiesVars => IInv'
  BY NextIInv
<1> QED
  BY InitIInv, <1>1, PTL DEF CompaniesSpec

\* A company that exists has its tables, whatever call failed half-way
\* (CompanyHasTables).
THEOREM CompanyHasTablesHolds == CompaniesSpec => []CompanyHasTables
<1>1. IInv => CompanyHasTables
  BY DEF IInv
<1> QED
  BY Invariance, <1>1, PTL

\* A second company of an RFC in a workspace needs calls that overlap, or a count that
\* failed (SecondNeedsOverlap).
THEOREM SecondNeedsOverlapHolds == CompaniesSpec => SecondNeedsOverlap
<1> DEFINE Second ==
      \A k \in Filing, i \in CompanyId :
        LET r == Info[filing[k].cert].rfc IN
        Inserts(k, i) /\ ~filing[k].blind /\ r \notin ExemptRfc =>
          SameRfc(filing[k].ws, r) \subseteq filing[k].missed
<1>1. IInv => Second
  BY DEF IInv, KnowsSame, Counts, RfcOf, Inserts, Step
<1>2. IInv /\ [CompaniesNext]_companiesVars => [Second]_companiesVars
  BY <1>1
<1> QED
  BY Invariance, <1>2, PTL DEF CompaniesSpec, SecondNeedsOverlap

\* An RFC gets past the limit of freemium workspaces only by calls that overlap, or by
\* a query that failed (FreemiumNeedsOverlap).
THEOREM FreemiumNeedsOverlapHolds == CompaniesSpec => FreemiumNeedsOverlap
<1> DEFINE Below ==
      \A k \in Filing, i \in CompanyId :
        LET r == Info[filing[k].cert].rfc IN
        Inserts(k, i) /\ ~filing[k].blind /\ r \notin SpecialRfc =>
          Cardinality(InFreemium(r) \ filing[k].missed) < MaxSameCompanyInTrials
<1>1. IInv => Below
  BY DEF IInv, KnowsFreemium, RfcOf, Inserts, Step
<1>2. IInv /\ [CompaniesNext]_companiesVars => [Below]_companiesVars
  BY <1>1
<1> QED
  BY Invariance, <1>2, PTL DEF CompaniesSpec, FreemiumNeedsOverlap

\* Both limits that a creation counts hold but for overlaps and failed counts
\* (LimitsNeedOverlap).
THEOREM LimitsNeedOverlapHolds == CompaniesSpec => LimitsNeedOverlap
BY SecondNeedsOverlapHolds, FreemiumNeedsOverlapHolds DEF LimitsNeedOverlap

-----------------------------------------------------------------------------
(* Certificates and announcements *)

UserRoles == <<<<"user", "OPERATOR">>, <<"user", "PAYROLL">>>>
UserLast == <<<<"user", "PAYROLL">>>>
AdminRoles == <<<<"admin", "OPERATOR">>, <<"admin", "PAYROLL">>>>
AdminLast == <<<<"admin", "PAYROLL">>>>

Steps == {"none", "freemium", "schema", "insert", "restore", "publish", "grant", "license",
          "flags", "done"} \cup Ext

Filings == [step : Steps, how : {"none", "user", "admin", "upload"}, ws : Place \cup {NoId},
            cert : Certificate \cup {NoCert}, id : CompanyId \cup {NoId},
            todo : {<<>>, UserRoles, UserLast, AdminRoles, AdminLast}, first : BOOLEAN,
            missed : SUBSET CompanyId, alone : BOOLEAN, seen : Nat, blind : BOOLEAN]

CertTypes ==
  /\ company \in [CompanyId -> CompanyRow \cup {NoRow}]
  /\ object \in [CompanyId -> [Ext -> Certificate \cup {NoCert}]]
  /\ announced \in [CompanyId -> Nat]
  /\ filing \in [Filing -> Filings]

\* A call that has its company.
Holds(k) == filing[k].step \in {"insert", "restore", "publish", "grant", "license", "flags"} \cup Ext

\* The objects of a call that stored alone are its own, as far as it has come.
ObjectsFollow(k) ==
  LET i == filing[k].id IN
  filing[k].alone =>
    /\ filing[k].step \in {"key", "txt", "flags"} => object[i]["cer"] = filing[k].cert
    /\ filing[k].step \in {"txt", "flags"} => object[i]["key"] = filing[k].cert
    /\ filing[k].step = "flags" => object[i]["txt"] = filing[k].cert

\* The company has certificates already when an upload found that it does, and does
\* from the flags on; an upload that found none came before the first announcement.
HaveFollows(k) ==
  LET i == filing[k].id IN
  /\ filing[k].how = "upload" /\ ~filing[k].first
       /\ filing[k].step \in Ext \cup {"flags"} /\ Exists(i) => company[i].have
  /\ filing[k].step \in {"restore", "publish", "grant", "license"} /\ Exists(i) => company[i].have
  /\ filing[k].step \in {"freemium", "schema", "insert"} => filing[k].how # "upload"
  /\ filing[k].how # "upload" \/ filing[k].first => filing[k].seen = 0
  /\ filing[k].step \in {"restore", "publish", "grant"} => filing[k].how # "upload" \/ filing[k].first

\* A company that is about to be inserted is its call's alone.
IdIsNew(k) ==
  LET i == filing[k].id IN
  filing[k].step = "insert" => /\ ~Exists(i) /\ announced[i] = 0
                               /\ \A j \in Filing : j # k /\ Holds(j) => filing[j].id # i

CallOK(k) ==
  /\ Holds(k) => filing[k].id \in CompanyId \cap schema
  /\ filing[k].how # "upload" /\ filing[k].step \in Ext \cup {"flags"} => filing[k].todo = UserRoles
  /\ ObjectsFollow(k)
  /\ HaveFollows(k)
  /\ IdIsNew(k)

\* A call that is about to announce company i.
Announces(k, i) ==
  /\ filing[k].id = i
  /\ \/ filing[k].step \in {"restore", "publish"}
     \/ filing[k].step = "grant" /\ filing[k].todo \in {UserRoles, UserLast}

CompanyOK(i) ==
  /\ Exists(i) => i \in schema /\ (company[i].valid => company[i].have)
  /\ announced[i] > 0 => i \in schema /\ (Exists(i) => company[i].have)
  /\ Exists(i) /\ company[i].have /\ announced[i] = 0 =>
       i \in lost \/ \E k \in Filing : Announces(k, i)

CertIInv ==
  /\ CertTypes
  /\ \A k \in Filing : CallOK(k)
  /\ \A i \in CompanyId : CompanyOK(i)

\* What a step does not touch in a call.
SameCall(k) ==
  /\ filing'[k].step = filing[k].step /\ filing'[k].how = filing[k].how
  /\ filing'[k].cert = filing[k].cert /\ filing'[k].id = filing[k].id
  /\ filing'[k].todo = filing[k].todo /\ filing'[k].first = filing[k].first
  /\ filing'[k].seen = filing[k].seen /\ (filing'[k].alone => filing[k].alone)

\* A company keeps its certificates, or is gone.
KeepsHave(i) == company'[i] # NoRow => Exists(i) /\ (company[i].have => company'[i].have)

LEMMA OtherCall ==
  ASSUME NEW k \in Filing, CallOK(k), SameCall(k), schema \subseteq schema',
         Holds(k) => KeepsHave(filing[k].id),
         filing'[k].alone /\ filing[k].step \in {"key", "txt", "flags"} =>
           object'[filing[k].id] = object[filing[k].id],
         filing[k].step = "insert" =>
           /\ announced'[filing[k].id] = announced[filing[k].id]
           /\ \A j \in Filing : j # k /\ Holds(j)' => filing'[j].id # filing[k].id
  PROVE  CallOK(k)'
<1>1. Holds(k)' = Holds(k)
  BY DEF Holds, SameCall
<1>2. ObjectsFollow(k)'
  BY DEF CallOK, ObjectsFollow, SameCall
<1>3. HaveFollows(k)'
  BY DEF CallOK, HaveFollows, SameCall, KeepsHave, Holds, Exists
<1>4. IdIsNew(k)'
  BY DEF CallOK, IdIsNew, SameCall, KeepsHave, Holds, Exists
<1> QED
  BY <1>1, <1>2, <1>3, <1>4 DEF CallOK, SameCall

LEMMA SameCompany ==
  ASSUME NEW i \in CompanyId, CompanyOK(i), schema \subseteq schema', lost \subseteq lost',
         announced'[i] = announced[i],
         Exists(i)' => /\ Exists(i) /\ company'[i].have = company[i].have
                       /\ (company'[i].valid => company[i].valid),
         \A k \in Filing : Announces(k, i) => Announces(k, i)' \/ i \in lost'
  PROVE  CompanyOK(i)'
BY DEF CompanyOK, Exists

\* A step of one call that leaves the tables, the objects and what was announced.
LEMMA OneCallStep ==
  ASSUME CertIInv, NEW k \in Filing, CertTypes', schema \subseteq schema', lost \subseteq lost',
         UNCHANGED <<company, object, announced>>,
         \A j \in Filing : j # k => filing'[j] = filing[j],
         CallOK(k)',
         Holds(k)' => \/ Holds(k) /\ filing'[k].id = filing[k].id
                      \/ filing'[k].id \notin schema \/ Exists(filing'[k].id),
         \A i \in CompanyId : Announces(k, i) => Announces(k, i)' \/ i \in lost'
  PROVE  CertIInv'
<1>1. ASSUME NEW j \in Filing, j # k
      PROVE  CallOK(j)'
  <2>1. SameCall(j) /\ CallOK(j)
    BY <1>1 DEF CertIInv, SameCall
  <2>2. KeepsHave(filing[j].id)
    BY DEF KeepsHave, Exists
  <2>3. ASSUME filing[j].step = "insert", NEW l \in Filing, l # j, Holds(l)'
        PROVE  filing'[l].id # filing[j].id
    <3>1. filing[j].id \in CompanyId \cap schema /\ IdIsNew(j)
      BY <2>1, <2>3 DEF CallOK, Holds
    <3>2. CASE l # k
      BY <2>3, <3>1, <3>2 DEF IdIsNew, Holds
    <3>3. CASE l = k
      BY <2>3, <3>1, <3>3 DEF IdIsNew
    <3> QED
      BY <3>2, <3>3
  <2> QED
    BY <2>1, <2>2, <2>3, OtherCall
<1>2. ASSUME NEW i \in CompanyId
      PROVE  CompanyOK(i)'
  <2>1. CompanyOK(i) /\ (Exists(i)' <=> Exists(i)) /\ company' = company
    BY DEF CertIInv, Exists
  <2>2. \A j \in Filing : j # k /\ Announces(j, i) => Announces(j, i)'
    BY DEF Announces
  <2> QED
    BY <2>1, <2>2, SameCompany
<1> QED
  BY <1>1, <1>2 DEF CertIInv

\* A call takes a new record: the others keep theirs.
LEMMA FilingUpdate ==
  ASSUME CertTypes, NEW k \in Filing, NEW new \in Filings,
         filing' = [filing EXCEPT ![k] = new]
  PROVE  /\ filing' \in [Filing -> Filings]
         /\ filing'[k] = new
         /\ \A j \in Filing : j # k => filing'[j] = filing[j]
BY DEF CertTypes

LEMMA DoneCert ==
  ASSUME CertIInv, NEW k \in Filing, Done(k), schema \subseteq schema', lost \subseteq lost',
         UNCHANGED <<company, object, announced>>,
         \A i \in CompanyId : Announces(k, i) => i \in lost'
  PROVE  CertIInv'
<1> DEFINE new == [NoFiling EXCEPT !.step = "done"]
<1>1. /\ new \in Filings /\ new.step = "done"
      /\ new.how = "none" /\ new.seen = 0
  BY DEF NoFiling, Filings, Steps
<1>2. filing' = [filing EXCEPT ![k] = new]
  BY DEF Done
<1> HIDE DEF new
<1>3. CertTypes' /\ filing'[k] = new /\ \A j \in Filing : j # k => filing'[j] = filing[j]
  BY <1>1, <1>2 DEF CertIInv, CertTypes
<1>4. ~Holds(k)' /\ CallOK(k)'
  BY <1>1, <1>3 DEF Holds, CallOK, ObjectsFollow, HaveFollows, IdIsNew, Ext
<1> QED
  BY <1>3, <1>4, OneCallStep

\* The calls begin, and get a company.
LEMMA BeginCert ==
  ASSUME CertIInv, NEW k \in Filing,
         \/ \E how \in {"user", "admin"}, w \in Place, c \in Certificate :
              Create(k, how, w, c) \/ CreateUncounted(k, how, w, c)
         \/ EnsureNoRFCInFreemiumAccounts(k)
         \/ \E i \in CompanyId : RunTenantMigrations(k, i)
  PROVE  CertIInv'
<1>1. UNCHANGED <<company, object, announced, lost>> /\ schema \subseteq schema'
  BY DEF Create, CreateUncounted, EnsureNoRFCInFreemiumAccounts, RunTenantMigrations
<1>2. ~Holds(k)
  BY DEF Create, CreateUncounted, EnsureNoRFCInFreemiumAccounts, RunTenantMigrations, Step,
         Holds, Ext
<1>3. \A i : ~Announces(k, i)
  BY <1>2 DEF Announces, Holds
<1>a. filing[k].step \in {"freemium", "schema"} => filing[k].how # "upload"
  BY DEF CertIInv, CallOK, HaveFollows
<1>4. ASSUME NEW how \in {"user", "admin"}, NEW w \in Place, NEW c \in Certificate,
             Create(k, how, w, c) \/ CreateUncounted(k, how, w, c)
      PROVE  CertIInv'
  <2> DEFINE counted == [NoFiling EXCEPT !.step = "freemium", !.how = how, !.ws = w, !.cert = c]
             uncounted == [NoFiling EXCEPT !.step = "freemium", !.how = how, !.ws = w, !.cert = c,
                                           !.blind = TRUE]
  <2>1. /\ counted \in Filings /\ counted.step = "freemium" /\ counted.seen = 0
        /\ uncounted \in Filings /\ uncounted.step = "freemium" /\ uncounted.seen = 0
        /\ counted.how # "upload" /\ uncounted.how # "upload"
    BY DEF NoFiling, Filings, Steps
  <2>2. PICK new \in {counted, uncounted} : filing' = [filing EXCEPT ![k] = new]
    BY <1>4 DEF Create, CreateUncounted
  <2> HIDE DEF counted, uncounted
  <2>4. CertTypes' /\ filing'[k] = new /\ \A j \in Filing : j # k => filing'[j] = filing[j]
    BY <1>1, <2>1, <2>2, FilingUpdate DEF CertIInv, CertTypes
  <2>3. ~Holds(k)' /\ CallOK(k)'
    BY <2>1, <2>4 DEF Holds, CallOK, ObjectsFollow, HaveFollows, IdIsNew, Ext
  <2> QED
    BY <1>1, <1>3, <2>4, <2>3, OneCallStep
<1>5. CASE EnsureNoRFCInFreemiumAccounts(k)
  <2>1. CASE Done(k)
    BY <1>1, <1>3, <2>1, DoneCert
  <2>2. CASE GoOn(k, "schema") \/ filing' = [filing EXCEPT ![k].step = "schema", ![k].blind = TRUE]
    <3>0. filing[k] \in Filings /\ CertTypes
      BY DEF CertIInv, CertTypes
    <3> DEFINE went == [filing[k] EXCEPT !.step = "schema"]
               blinded == [filing[k] EXCEPT !.step = "schema", !.blind = TRUE]
    <3>1. PICK new \in Filings :
            /\ new.step = "schema" /\ new.seen = filing[k].seen
            /\ new.how = filing[k].how /\ new.first = filing[k].first
            /\ filing' = [filing EXCEPT ![k] = new]
      <4>1. CASE GoOn(k, "schema")
        <5>1. filing' = [filing EXCEPT ![k] = went]
          BY <4>1 DEF GoOn
        <5>2. /\ went \in Filings /\ went.step = "schema" /\ went.seen = filing[k].seen
              /\ went.how = filing[k].how /\ went.first = filing[k].first
          BY <3>0 DEF Filings, Steps
        <5> QED
          BY <5>1, <5>2
      <4>2. CASE filing' = [filing EXCEPT ![k].step = "schema", ![k].blind = TRUE]
        <5>1. filing' = [filing EXCEPT ![k] = blinded]
          BY <3>0, <4>2 DEF CertTypes, Filings
        <5>2. /\ blinded \in Filings /\ blinded.step = "schema" /\ blinded.seen = filing[k].seen
              /\ blinded.how = filing[k].how /\ blinded.first = filing[k].first
          BY <3>0 DEF Filings, Steps
        <5> QED
          BY <5>1, <5>2
      <4> QED
        BY <2>2, <4>1, <4>2
    <3>2. CertTypes' /\ filing'[k] = new /\ \A j \in Filing : j # k => filing'[j] = filing[j]
      BY <1>1, <3>0, <3>1, FilingUpdate DEF CertTypes
    <3>a. filing[k].how # "upload"
      BY <1>5, <1>a DEF EnsureNoRFCInFreemiumAccounts, Step
    <3>3. ~Holds(k)' /\ CallOK(k)'
      BY <3>1, <3>2, <3>a DEF CertIInv, Holds, CallOK, ObjectsFollow, HaveFollows, IdIsNew, Ext
    <3> QED
      BY <1>1, <1>3, <3>2, <3>3, OneCallStep
  <2> QED
    BY <1>5, <2>1, <2>2 DEF EnsureNoRFCInFreemiumAccounts
<1>6. ASSUME NEW i \in CompanyId, RunTenantMigrations(k, i)
      PROVE  CertIInv'
  <2> DEFINE new == [filing[k] EXCEPT !.step = "insert", !.id = i]
  <2>0. filing[k] \in Filings /\ CertTypes
    BY DEF CertIInv, CertTypes
  <2>a. filing' = [filing EXCEPT ![k] = new]
    BY <1>6, <2>0 DEF RunTenantMigrations, CertTypes, Filings
  <2>b. /\ new \in Filings /\ new.step = "insert" /\ new.id = i
        /\ new.seen = filing[k].seen
        /\ new.how = filing[k].how /\ new.first = filing[k].first
    BY <2>0 DEF Filings, Steps
  <2> HIDE DEF new
  <2>2. CertTypes' /\ filing'[k] = new /\ \A j \in Filing : j # k => filing'[j] = filing[j]
    BY <1>1, <2>0, <2>a, <2>b, FilingUpdate DEF CertTypes
  <2>1. /\ filing'[k].step = "insert" /\ filing'[k].id = i
        /\ filing'[k].seen = filing[k].seen
        /\ filing'[k].how = filing[k].how /\ filing'[k].first = filing[k].first
        /\ i \notin schema /\ i \in schema'
    BY <1>6, <2>b, <2>2 DEF RunTenantMigrations
  <2>3. ~Exists(i) /\ announced[i] = 0
    BY <2>1 DEF CertIInv, CompanyOK, CertTypes
  <2>4. IdIsNew(k)'
    <3>1. \A j \in Filing : j # k /\ Holds(j)' => filing'[j].id \in schema
      BY <2>2 DEF CertIInv, CallOK, Holds
    <3> QED
      BY <1>1, <2>1, <2>3, <3>1 DEF IdIsNew, Exists
  <2>c. filing[k].how # "upload"
    BY <1>6, <1>a DEF RunTenantMigrations, Step
  <2>5. CallOK(k)'
    BY <2>1, <2>4, <2>c DEF CertIInv, CallOK, ObjectsFollow, HaveFollows, Ext
  <2> QED
    BY <1>1, <1>3, <2>1, <2>2, <2>5, OneCallStep
<1> QED
  BY <1>4, <1>5, <1>6

LEMMA UploadCerCert ==
  ASSUME CertIInv, NEW k \in Filing, NEW i \in CompanyId, NEW c \in Certificate,
         UploadCer(k, i, c)
  PROVE  CertIInv'
<1>1. UNCHANGED <<company, schema, object, announced, lost>> /\ Exists(i)
  BY DEF UploadCer
<1>2. \A j : ~Announces(k, j)
  BY DEF UploadCer, Step, Announces
<1>3. company[i] \in CompanyRow /\ announced[i] \in Nat
  BY <1>1 DEF CertIInv, CertTypes, Exists
<1>4. /\ filing'[k] \in Filings /\ filing'[k].step = "cer" /\ filing'[k].how = "upload"
      /\ filing'[k].id = i /\ filing'[k].seen = announced[i]
      /\ filing'[k].first = (~company[i].have /\ ~company[i].valid)
      /\ filing' = [filing EXCEPT ![k] = filing'[k]]
  <2>1. company[i].ws \in Place /\ (~company[i].have /\ ~company[i].valid) \in BOOLEAN
    BY <1>3 DEF CompanyRow
  <2> QED
    BY <1>3, <2>1 DEF UploadCer, NoFiling, Filings, Steps, Ext, CertIInv, CertTypes, IsNew
<1>5. CertTypes' /\ \A j \in Filing : j # k => filing'[j] = filing[j]
  BY <1>1, <1>4 DEF CertIInv, CertTypes
<1>6. HaveFollows(k)'
  <2>1. company[i].valid => company[i].have
    BY <1>1 DEF CertIInv, CompanyOK
  <2>2. announced[i] > 0 => company[i].have
    BY <1>1 DEF CertIInv, CompanyOK
  <2>3. filing'[k].first => filing'[k].seen = 0
    <3>1. filing'[k].first => ~company[i].have
      BY <1>4
    <3>2. ~(announced[i] > 0) => announced[i] = 0
      BY <1>3
    <3> QED
      BY <1>4, <2>2, <3>1, <3>2
  <2>4. ~filing'[k].first => company'[i].have
    BY <1>1, <1>3, <1>4, <2>1 DEF CompanyRow
  <2> QED
    BY <1>4, <2>3, <2>4 DEF HaveFollows, Ext
<1>7. i \in schema
  BY <1>1 DEF CertIInv, CompanyOK
<1>8. CallOK(k)'
  BY <1>1, <1>4, <1>6, <1>7 DEF CallOK, ObjectsFollow, IdIsNew, Ext
<1> QED
  BY <1>1, <1>2, <1>4, <1>5, <1>8, OneCallStep

\* The steps of a call after the flags.
LEMMA LaterCert ==
  ASSUME CertIInv, NEW k \in Filing,
         RequestRestoreTrial(k) \/ GrantRole(k) \/ PublishLost(k)
  PROVE  CertIInv'
<1>1. /\ UNCHANGED <<company, object, announced, schema>> /\ lost \subseteq lost'
      /\ Holds(k) /\ filing[k].step \in {"restore", "grant", "publish"}
  BY DEF RequestRestoreTrial, GrantRole, PublishLost, Step, Holds
<1>2. CertTypes /\ filing[k] \in Filings /\ CallOK(k) /\ filing[k].id \in CompanyId \cap schema
  BY <1>1 DEF CertIInv, CertTypes, CallOK
<1>3. ASSUME NEW s \in {"publish", "grant", "license"},
             NEW todo \in {<<>>, UserRoles, UserLast, AdminRoles, AdminLast},
             filing' = [filing EXCEPT ![k] = [filing[k] EXCEPT !.step = s, !.todo = todo]],
             \A i \in CompanyId : Announces(k, i) =>
               i \in lost' \/ s = "publish" \/ (s = "grant" /\ todo \in {UserRoles, UserLast})
      PROVE  CertIInv'
  <2> DEFINE new == [filing[k] EXCEPT !.step = s, !.todo = todo]
  <2>1. /\ new \in Filings /\ new.step = s /\ new.todo = todo
        /\ new.how = filing[k].how /\ new.cert = filing[k].cert /\ new.id = filing[k].id
        /\ new.first = filing[k].first /\ new.seen = filing[k].seen
    BY <1>2 DEF Filings, Steps
  <2>2. filing' = [filing EXCEPT ![k] = new]
    BY <1>3
  <2> HIDE DEF new
  <2>3. CertTypes' /\ filing'[k] = new /\ \A j \in Filing : j # k => filing'[j] = filing[j]
    BY <1>1, <1>2, <2>1, <2>2, FilingUpdate DEF CertTypes
  <2>4. CallOK(k)'
    BY <1>1, <1>2, <2>1, <2>3 DEF CallOK, ObjectsFollow, HaveFollows, IdIsNew, Holds, Ext, Exists
  <2>5. \A i \in CompanyId : Announces(k, i) => Announces(k, i)' \/ i \in lost'
    BY <1>3, <2>1, <2>3 DEF Announces
  <2> QED
    BY <1>1, <2>1, <2>3, <2>4, <2>5, OneCallStep
<1>4. CASE RequestRestoreTrial(k)
  <2>1. filing' = [filing EXCEPT ![k] = [filing[k] EXCEPT !.step = "publish", !.todo = filing[k].todo]]
    BY <1>2, <1>4 DEF RequestRestoreTrial, GoOn, CertTypes, Filings
  <2> QED
    BY <1>2, <1>3, <2>1 DEF Filings
<1>5. CASE GrantRole(k)
  <2>1. PICK rest, s :
          /\ rest = Tail(filing[k].todo)
          /\ s = IF rest # <<>> THEN "grant"
                 ELSE IF Head(filing[k].todo)[1] = "user" THEN "publish" ELSE "license"
    OBVIOUS
  <2>2. filing' = [filing EXCEPT ![k].todo = rest, ![k].step = s]
    BY <1>5, <2>1 DEF GrantRole
  <2>3. filing' = [filing EXCEPT ![k] = [filing[k] EXCEPT !.step = s, !.todo = rest]]
    BY <1>2, <2>2 DEF CertTypes, Filings
  <2>4. filing[k].todo \in {UserRoles, UserLast, AdminRoles, AdminLast}
    BY <1>2, <1>5 DEF GrantRole, Filings
  <2>5. CASE filing[k].todo = UserRoles
    <3>1. rest = UserLast /\ s = "grant"
      BY <2>1, <2>5 DEF UserRoles, UserLast
    <3> QED
      BY <1>3, <2>3, <3>1
  <2>6. CASE filing[k].todo = UserLast
    <3>1. rest = <<>> /\ s = "publish"
      BY <2>1, <2>6 DEF UserLast
    <3> QED
      BY <1>3, <2>3, <3>1
  <2>7. ASSUME filing[k].todo \in {AdminRoles, AdminLast}, NEW i \in CompanyId
        PROVE  ~Announces(k, i)
    BY <1>5, <2>7 DEF GrantRole, Step, Announces, UserRoles, UserLast, AdminRoles, AdminLast
  <2>8. CASE filing[k].todo = AdminRoles
    <3>1. rest = AdminLast /\ s = "grant"
      BY <2>1, <2>8 DEF AdminRoles, AdminLast
    <3> QED
      BY <1>3, <2>3, <2>7, <2>8, <3>1
  <2>9. CASE filing[k].todo = AdminLast
    <3>1. rest = <<>> /\ s = "license"
      BY <2>1, <2>9 DEF AdminLast
    <3> QED
      BY <1>3, <2>3, <2>7, <2>9, <3>1
  <2> QED
    BY <2>4, <2>5, <2>6, <2>8, <2>9
<1>6. CASE PublishLost(k)
  <2>1. \A i \in CompanyId : Announces(k, i) => i \in lost'
    BY <1>6 DEF PublishLost, Announces
  <2>2. CASE Done(k)
    BY <1>1, <2>1, <2>2, DoneCert
  <2>3. CASE filing' = [filing EXCEPT ![k].step = "grant", ![k].todo = AdminRoles]
    <3>1. filing' = [filing EXCEPT ![k] = [filing[k] EXCEPT !.step = "grant", !.todo = AdminRoles]]
      BY <1>2, <2>3 DEF CertTypes, Filings
    <3> QED
      BY <1>3, <2>1, <3>1
  <2> QED
    BY <1>6, <2>2, <2>3 DEF PublishLost, AfterPublish, AdminRoles
<1> QED
  BY <1>4, <1>5, <1>6

\* A call ends: licensed, or failed.
LEMMA EndCert ==
  ASSUME CertIInv, NEW k \in Filing, AdminLicense(k) \/ CallFails(k)
  PROVE  CertIInv'
<1>1. /\ Done(k) /\ UNCHANGED <<company, object, announced, schema>> /\ lost \subseteq lost'
  BY DEF AdminLicense, CallFails
<1>2. ASSUME NEW i \in CompanyId, Announces(k, i) PROVE i \in lost'
  <2>1. CallFails(k) /\ filing[k].id = i
    BY <1>2 DEF AdminLicense, Step, Announces
  <2>2. i # NoId
    BY CompaniesAssumption
  <2> QED
    BY <2>1, <2>2 DEF CallFails
<1> QED
  BY <1>1, <1>2, DoneCert

LEMMA PublishCert ==
  ASSUME CertIInv, NEW k \in Filing, PublishCompanyCreated(k)
  PROVE  CertIInv'
<1> DEFINE i == filing[k].id
<1>1. /\ UNCHANGED <<company, object, schema, lost>> /\ filing[k].step = "publish"
      /\ announced' = [announced EXCEPT ![i] = @ + 1]
      /\ AfterPublish(k)
  BY DEF PublishCompanyCreated, Step
<1>2. CertTypes /\ filing[k] \in Filings /\ CallOK(k) /\ Holds(k) /\ i \in CompanyId \cap schema
  BY <1>1 DEF CertIInv, CertTypes, CallOK, Holds
<1>3. PICK new \in Filings :
        /\ filing' = [filing EXCEPT ![k] = new]
        /\ \/ new.step = "done" /\ new.how = "none" /\ new.seen = 0
           \/ /\ new.step = "grant" /\ new.how = "admin" /\ new.seen = filing[k].seen
              /\ new.id = i
  <2>1. CASE filing[k].how = "admin"
    <3> DEFINE admin == [filing[k] EXCEPT !.step = "grant", !.todo = AdminRoles]
    <3>1. filing' = [filing EXCEPT ![k] = admin]
      BY <1>1, <1>2, <2>1 DEF AfterPublish, AdminRoles, CertTypes, Filings
    <3>2. /\ admin \in Filings /\ admin.step = "grant" /\ admin.how = "admin"
          /\ admin.seen = filing[k].seen /\ admin.id = i
      BY <1>2, <2>1 DEF Filings, Steps
    <3> QED
      BY <3>1, <3>2
  <2>2. CASE filing[k].how # "admin"
    <3> DEFINE done == [NoFiling EXCEPT !.step = "done"]
    <3>1. filing' = [filing EXCEPT ![k] = done]
      BY <1>1, <2>2 DEF AfterPublish, Done
    <3>2. done \in Filings /\ done.step = "done" /\ done.how = "none" /\ done.seen = 0
      BY DEF NoFiling, Filings, Steps
    <3> QED
      BY <3>1, <3>2
  <2> QED
    BY <2>1, <2>2
<1> HIDE DEF i
<1>4. /\ CertTypes' /\ filing'[k] = new /\ \A j \in Filing : j # k => filing'[j] = filing[j]
      /\ announced'[i] = announced[i] + 1
      /\ \A j \in CompanyId : j # i => announced'[j] = announced[j]
  BY <1>1, <1>2, <1>3, FilingUpdate DEF CertTypes
<1>5. CallOK(k)'
  BY <1>1, <1>2, <1>3, <1>4 DEF CallOK, ObjectsFollow, HaveFollows, IdIsNew, Holds, Ext, Exists, i
<1>6. ASSUME NEW j \in Filing, j # k PROVE CallOK(j)'
  <2>1. SameCall(j) /\ CallOK(j) /\ KeepsHave(filing[j].id)
    BY <1>1, <1>4, <1>6 DEF CertIInv, SameCall, KeepsHave, Exists
  <2>2. ASSUME filing[j].step = "insert"
        PROVE  /\ announced'[filing[j].id] = announced[filing[j].id]
               /\ \A l \in Filing : l # j /\ Holds(l)' => filing'[l].id # filing[j].id
    <3>1. filing[j].id \in CompanyId /\ IdIsNew(j)
      BY <2>1, <2>2 DEF CallOK, Holds
    <3>2. filing[j].id # i /\ \A l \in Filing : l # j /\ Holds(l) => filing[l].id # filing[j].id
      BY <1>2, <1>6, <2>2, <3>1 DEF IdIsNew, i
    <3>3. \A l \in Filing : Holds(l)' => Holds(l) /\ filing'[l].id = filing[l].id
      BY <1>2, <1>3, <1>4 DEF Holds, Ext, i
    <3> QED
      BY <1>4, <3>1, <3>2, <3>3
  <2> QED
    BY <1>1, <2>1, <2>2, OtherCall
<1>7. ASSUME NEW j \in CompanyId PROVE CompanyOK(j)'
  <2>1. CompanyOK(j)
    BY DEF CertIInv
  <2>2. CASE j = i
    <3>1. announced'[j] # 0
      BY <1>2, <1>4, <2>2 DEF CertTypes
    <3>2. Exists(j) => company[j].have
      BY <1>1, <1>2, <2>2 DEF CallOK, HaveFollows, i
    <3> QED
      BY <1>1, <1>2, <2>1, <2>2, <3>1, <3>2 DEF CompanyOK, Exists
  <2>3. CASE j # i
    <3>1. \A l \in Filing : Announces(l, j) => Announces(l, j)'
      BY <1>4, <2>3 DEF Announces, i
    <3> QED
      BY <1>1, <1>4, <2>1, <2>3, <3>1, SameCompany DEF Exists
  <2> QED
    BY <2>2, <2>3
<1> QED
  BY <1>4, <1>5, <1>6, <1>7 DEF CertIInv

LEMMA UploadCert ==
  ASSUME CertIInv, NEW k \in Filing, NEW e \in Ext, Upload(k, e)
  PROVE  CertIInv'
<1> DEFINE i == filing[k].id
<1>1. /\ UNCHANGED <<company, schema, announced, lost>> /\ filing[k].step = e
      /\ object' = [object EXCEPT ![i][e] = filing[k].cert]
      /\ filing' = [j \in Filing |->
           IF j = k THEN [filing[k] EXCEPT !.step = AfterExt(e)]
           ELSE IF j \in Storing(i) THEN [filing[j] EXCEPT !.alone = FALSE]
           ELSE filing[j]]
  BY DEF Upload, Step
<1>2. CertTypes /\ CallOK(k) /\ i \in CompanyId \cap schema /\ \A j \in Filing : filing[j] \in Filings
  BY <1>1 DEF CertIInv, CertTypes, CallOK, Holds
<1>3. AfterExt(e) \in {"key", "txt", "flags"}
  BY DEF AfterExt, Ext
<1>4. ASSUME NEW j \in Filing, j # k
      PROVE  /\ filing'[j] \in Filings /\ SameCall(j)
             /\ j \in Storing(i) => ~filing'[j].alone
  BY <1>1, <1>2, <1>4 DEF Filings, SameCall
<1>5. /\ filing'[k] \in Filings /\ filing'[k].step = AfterExt(e)
      /\ filing'[k].how = filing[k].how /\ filing'[k].cert = filing[k].cert
      /\ filing'[k].id = i /\ filing'[k].todo = filing[k].todo
      /\ filing'[k].first = filing[k].first /\ filing'[k].seen = filing[k].seen
      /\ filing'[k].alone = filing[k].alone
  BY <1>1, <1>2, <1>3 DEF Filings, Steps, Ext
<1>6. /\ object'[i][e] = filing[k].cert /\ \A f \in Ext : f # e => object'[i][f] = object[i][f]
      /\ \A j \in CompanyId : j # i => object'[j] = object[j]
      /\ object' \in [CompanyId -> [Ext -> Certificate \cup {NoCert}]]
  BY <1>1, <1>2 DEF CertTypes, Filings
<1>7. CertTypes'
  <2>1. filing' \in [Filing -> Filings]
    BY <1>1, <1>4, <1>5
  <2> QED
    BY <1>1, <1>2, <1>6, <2>1 DEF CertTypes
<1> HIDE DEF i
<1>8. CallOK(k)'
  <2>1. ObjectsFollow(k)'
    BY <1>1, <1>2, <1>5, <1>6 DEF CallOK, ObjectsFollow, AfterExt, Ext, i
  <2>2. HaveFollows(k)'
    BY <1>1, <1>2, <1>3, <1>5 DEF CallOK, HaveFollows, Exists, Ext, i
  <2> QED
    BY <1>1, <1>2, <1>3, <1>5, <2>1, <2>2 DEF CallOK, IdIsNew, Holds, Ext
<1>9. ASSUME NEW j \in Filing, j # k PROVE CallOK(j)'
  <2>1. SameCall(j) /\ CallOK(j) /\ KeepsHave(filing[j].id)
    BY <1>1, <1>4, <1>9 DEF CertIInv, KeepsHave, Exists
  <2>2. ASSUME filing'[j].alone, filing[j].step \in {"key", "txt", "flags"}
        PROVE  object'[filing[j].id] = object[filing[j].id]
    <3>1. filing[j].id \in CompanyId
      BY <2>1, <2>2 DEF CallOK, Holds, Ext
    <3>2. filing[j].id # i
      BY <1>4, <1>9, <2>2 DEF Storing, Ext
    <3> QED
      BY <1>6, <3>1, <3>2
  <2>3. ASSUME filing[j].step = "insert", NEW l \in Filing, l # j, Holds(l)'
        PROVE  filing'[l].id # filing[j].id
    <3>1. Holds(l) /\ filing'[l].id = filing[l].id
      BY <1>1, <1>4, <1>5, <2>3 DEF Holds, SameCall, i
    <3> QED
      BY <2>1, <2>3, <3>1 DEF CallOK, IdIsNew
  <2> QED
    BY <1>1, <2>1, <2>2, <2>3, OtherCall
<1>10. ASSUME NEW j \in CompanyId PROVE CompanyOK(j)'
  <2>1. CompanyOK(j) /\ \A l \in Filing : Announces(l, j) => Announces(l, j)'
    BY <1>1, <1>4 DEF CertIInv, Announces, SameCall, Ext
  <2> QED
    BY <1>1, <2>1, SameCompany DEF Exists
<1> QED
  BY <1>7, <1>8, <1>9, <1>10 DEF CertIInv

LEMMA InsertCert ==
  ASSUME IInv, CertIInv, NEW k \in Filing, InsertCompany(k)
  PROVE  CertIInv'
<1> DEFINE i == filing[k].id
<1>1. /\ UNCHANGED <<schema, object, announced, lost>> /\ filing[k].step = "insert"
      /\ company' = [company EXCEPT ![i] = NewCompany(k)]
      /\ filing' = [j \in Filing |->
           IF j = k THEN [filing[k] EXCEPT !.step = "cer", !.missed = {}, !.blind = FALSE,
                                           !.todo = UserRoles]
           ELSE IF j \in Counting THEN [filing[j] EXCEPT !.missed = @ \cup {i}]
           ELSE filing[j]]
  BY DEF InsertCompany, Step, UserRoles
<1>2. CertTypes /\ CallOK(k) /\ i \in CompanyId \cap schema /\ \A j \in Filing : filing[j] \in Filings
  BY <1>1 DEF CertIInv, CertTypes, CallOK, Holds
<1>3. Rows'
  BY InsertCompanyStep DEF IInv
<1>4. ASSUME NEW j \in Filing, j # k PROVE filing'[j] \in Filings /\ SameCall(j)
  BY <1>1, <1>2, <1>4 DEF Filings, SameCall
<1>5. /\ filing'[k] \in Filings /\ filing'[k].step = "cer" /\ filing'[k].todo = UserRoles
      /\ filing'[k].how = filing[k].how /\ filing'[k].id = i
      /\ filing'[k].first = filing[k].first /\ filing'[k].seen = filing[k].seen
  BY <1>1, <1>2, ZenonT(40) DEF Filings, Steps, Ext
<1>6. CertTypes'
  <2>1. filing' \in [Filing -> Filings]
    BY <1>1, <1>4, <1>5
  <2> QED
    BY <1>1, <1>2, <1>3, <2>1 DEF CertTypes, Rows
<1>7. /\ company'[i] = NewCompany(k) /\ \A j \in CompanyId : j # i => company'[j] = company[j]
  BY <1>1, <1>2 DEF CertTypes
<1> HIDE DEF i
<1>8. \A j \in Filing : j # k /\ Holds(j) => filing[j].id # i
  BY <1>1, <1>2 DEF CallOK, IdIsNew, i
<1>9. CallOK(k)'
  BY <1>1, <1>2, <1>5 DEF CallOK, ObjectsFollow, HaveFollows, IdIsNew, Holds, Ext
<1>10. ASSUME NEW j \in Filing, j # k PROVE CallOK(j)'
  <2>1. SameCall(j) /\ CallOK(j) /\ (Holds(j) => KeepsHave(filing[j].id))
    BY <1>4, <1>7, <1>8, <1>10 DEF CertIInv, CallOK, KeepsHave, Exists
  <2>2. ASSUME filing[j].step = "insert", NEW l \in Filing, l # j, Holds(l)'
        PROVE  filing'[l].id # filing[j].id
    <3>1. Holds(l) /\ filing'[l].id = filing[l].id
      BY <1>1, <1>4, <1>5, <2>2 DEF Holds, SameCall, i
    <3> QED
      BY <2>1, <2>2, <3>1 DEF CallOK, IdIsNew
  <2> QED
    BY <1>1, <2>1, <2>2, OtherCall
<1>11. ASSUME NEW j \in CompanyId PROVE CompanyOK(j)'
  <2>1. CompanyOK(j)
    BY DEF CertIInv
  <2>2. CASE j = i
    <3>1. announced'[j] = 0 /\ ~company'[j].have /\ ~company'[j].valid
      BY <1>1, <1>2, <1>7, <2>2 DEF CallOK, IdIsNew, NewCompany, i
    <3> QED
      BY <1>1, <1>2, <2>2, <3>1 DEF CompanyOK
  <2>3. CASE j # i
    <3>1. \A l \in Filing : Announces(l, j) => Announces(l, j)'
      BY <1>1, <1>4 DEF Announces, SameCall
    <3> QED
      BY <1>1, <1>7, <2>1, <2>3, <3>1, SameCompany DEF Exists
  <2> QED
    BY <2>2, <2>3
<1> QED
  BY <1>6, <1>9, <1>10, <1>11 DEF CertIInv

LEMMA SetFlagsCert ==
  ASSUME IInv, CertIInv, NEW k \in Filing, SetFlags(k)
  PROVE  CertIInv'
<1> DEFINE i == filing[k].id
<1>1. /\ UNCHANGED <<schema, object, announced, lost>> /\ filing[k].step = "flags"
      /\ company' = IF Exists(i) THEN [company EXCEPT ![i].have = TRUE, ![i].valid = TRUE]
                    ELSE company
  BY DEF SetFlags, Step
<1>2. CertTypes /\ CallOK(k) /\ i \in CompanyId \cap schema /\ filing[k] \in Filings
  BY <1>1 DEF CertIInv, CertTypes, CallOK, Holds
<1>3. Rows'
  BY SetFlagsStep DEF IInv
<1>4. /\ company'[i] # NoRow => Exists(i) /\ company'[i].have
      /\ \A j \in CompanyId : j # i => company'[j] = company[j]
  <2>1. Exists(i) => company[i] \in CompanyRow
    BY <1>2 DEF CertTypes, Exists
  <2>2. CASE ~Exists(i)
    BY <1>1, <2>2 DEF Exists
  <2>3. CASE Exists(i)
    <3>1. company' = [company EXCEPT ![i].have = TRUE, ![i].valid = TRUE]
      BY <1>1, <2>3
    <3>2. company'[i].have
      BY <1>2, <2>1, <2>3, <3>1 DEF CertTypes, CompanyRow
    <3>3. \A j \in CompanyId : j # i => company'[j] = company[j]
      BY <1>2, <3>1 DEF CertTypes
    <3> QED
      BY <2>3, <3>2, <3>3
  <2> QED
    BY <2>2, <2>3
<1>5. PICK new \in Filings :
        /\ filing' = [filing EXCEPT ![k] = new]
        /\ \/ /\ new.step = "done" /\ new.how = "none" /\ new.seen = 0
              /\ filing[k].how = "upload" /\ ~filing[k].first
           \/ /\ new.step \in {"grant", "restore"} /\ new.how = filing[k].how
              /\ new.id = i /\ new.todo = filing[k].todo /\ new.first = filing[k].first
              /\ new.seen = filing[k].seen
              /\ filing[k].how # "upload" \/ filing[k].first
              /\ new.step = "grant" => filing[k].how # "upload"
  <2>1. CASE \E s \in {"grant", "restore"} :
               Certified(k, s) /\ (filing[k].how # "upload" \/ filing[k].first)
                 /\ (s = "grant" => filing[k].how # "upload")
    <3>1. PICK s \in {"grant", "restore"} :
            Certified(k, s) /\ (filing[k].how # "upload" \/ filing[k].first)
              /\ (s = "grant" => filing[k].how # "upload")
      BY <2>1
    <3> DEFINE went == [filing[k] EXCEPT !.step = s, !.alone = TRUE]
    <3>2. /\ went \in Filings /\ went.step = s /\ went.how = filing[k].how
          /\ went.id = i /\ went.todo = filing[k].todo /\ went.first = filing[k].first
          /\ went.seen = filing[k].seen
      BY <1>2, <3>1 DEF Filings, Steps
    <3>3. filing' = [filing EXCEPT ![k] = went]
      BY <3>1 DEF Certified
    <3> QED
      BY <3>1, <3>2, <3>3
  <2>2. CASE Done(k) /\ filing[k].how = "upload" /\ ~filing[k].first
    <3> DEFINE done == [NoFiling EXCEPT !.step = "done"]
    <3>1. filing' = [filing EXCEPT ![k] = done]
      BY <2>2 DEF Done
    <3>2. done \in Filings /\ done.step = "done" /\ done.how = "none" /\ done.seen = 0
      BY DEF NoFiling, Filings, Steps
    <3> QED
      BY <2>2, <3>1, <3>2
  <2> QED
    BY <2>1, <2>2 DEF SetFlags
<1> HIDE DEF i
<1>6. CertTypes' /\ filing'[k] = new /\ \A j \in Filing : j # k => filing'[j] = filing[j]
  <2>1. /\ filing' \in [Filing -> Filings]
        /\ filing'[k] = new /\ \A j \in Filing : j # k => filing'[j] = filing[j]
    BY <1>2, <1>5, FilingUpdate
  <2> QED
    BY <1>1, <1>2, <1>3, <2>1 DEF CertTypes, Rows
<1>7. CallOK(k)'
  <2>1. HaveFollows(k)'
    BY <1>1, <1>2, <1>4, <1>5, <1>6 DEF CallOK, HaveFollows, Ext, Exists
  <2> QED
    BY <1>1, <1>2, <1>5, <1>6, <2>1 DEF CallOK, ObjectsFollow, IdIsNew, Holds, Ext
<1>8. ASSUME NEW j \in Filing, j # k PROVE CallOK(j)'
  <2>1. SameCall(j) /\ CallOK(j)
    BY <1>6, <1>8 DEF CertIInv, SameCall
  <2>2. Holds(j) => KeepsHave(filing[j].id)
    BY <1>4, <2>1 DEF CallOK, KeepsHave, Exists
  <2>3. ASSUME filing[j].step = "insert", NEW l \in Filing, l # j, Holds(l)'
        PROVE  filing'[l].id # filing[j].id
    <3>1. Holds(l) /\ filing'[l].id = filing[l].id
      BY <1>1, <1>5, <1>6, <2>3 DEF Holds, Ext, i
    <3> QED
      BY <2>1, <2>3, <3>1 DEF CallOK, IdIsNew
  <2> QED
    BY <1>1, <2>1, <2>2, <2>3, OtherCall
<1>9. ASSUME NEW j \in CompanyId PROVE CompanyOK(j)'
  <2>1. CompanyOK(j) /\ ~Announces(k, j)
    BY <1>1 DEF CertIInv, Announces
  <2>2. \A l \in Filing : Announces(l, j) => Announces(l, j)'
    BY <1>6, <2>1 DEF Announces
  <2>3. CASE j # i
    BY <1>1, <1>4, <2>1, <2>2, <2>3, SameCompany DEF Exists
  <2>4. CASE j = i
    <3>1. ASSUME Exists(j), announced[j] = 0
          PROVE  j \in lost \/ \E l \in Filing : Announces(l, j)'
      <4>1. CASE new.step = "done"
        <5>1. company[j].have
          BY <1>1, <1>2, <1>5, <2>4, <3>1, <4>1 DEF CallOK, HaveFollows, i
        <5> QED
          BY <2>1, <2>2, <3>1, <5>1 DEF CompanyOK
      <4>2. CASE new.step \in {"grant", "restore"}
        <5>1. new.step = "grant" => new.todo = UserRoles
          BY <1>1, <1>2, <1>5, <4>2 DEF CallOK, i
        <5> QED
          BY <1>5, <1>6, <2>4, <4>2, <5>1 DEF Announces
      <4> QED
        BY <1>5, <4>1, <4>2
    <3> QED
      BY <1>1, <1>2, <1>4, <2>4, <3>1 DEF CompanyOK, Exists
  <2> QED
    BY <2>3, <2>4
<1> QED
  BY <1>6, <1>7, <1>8, <1>9 DEF CertIInv

\* A company is changed or deleted: no call moves.
LEMMA OtherCert ==
  ASSUME IInv, CertIInv, NEW i \in CompanyId,
         (\E active \in BOOLEAN : UpdateCompany(i, active)) \/ DeleteCompany(i)
           \/ InvalidateCerts(i)
  PROVE  CertIInv'
<1>1. UNCHANGED <<schema, object, announced, lost, filing>>
  BY DEF UpdateCompany, DeleteCompany, InvalidateCerts
<1>2. CertTypes
  BY DEF CertIInv
<1>3. CertTypes'
  <2>1. Rows'
    BY CompanyStep DEF IInv
  <2> QED
    BY <1>1, <1>2, <2>1 DEF CertTypes, Rows
<1>4. \A j \in CompanyId :
        Exists(j)' => /\ Exists(j) /\ company'[j].have = company[j].have
                      /\ (company'[j].valid => company[j].valid)
  <2>0. \A j \in CompanyId : Exists(j) => company[j] \in CompanyRow
    BY <1>2 DEF CertTypes, Exists
  <2>1. ASSUME NEW active \in BOOLEAN, UpdateCompany(i, active)
        PROVE  Exists(i) /\ company'[i].have = company[i].have /\ company'[i].valid = company[i].valid
               /\ \A j \in CompanyId : j # i => company'[j] = company[j]
    BY <1>2, <2>0, <2>1 DEF UpdateCompany, CertTypes, CompanyRow
  <2>2. ASSUME InvalidateCerts(i)
        PROVE  Exists(i) /\ company'[i].have = company[i].have /\ company[i].valid
               /\ \A j \in CompanyId : j # i => company'[j] = company[j]
    BY <1>2, <2>0, <2>2 DEF InvalidateCerts, CertTypes, CompanyRow
  <2>3. ASSUME DeleteCompany(i)
        PROVE  company'[i] = NoRow /\ \A j \in CompanyId : j # i => company'[j] = company[j]
    BY <1>2, <2>3 DEF DeleteCompany, CertTypes
  <2> QED
    BY <2>1, <2>2, <2>3 DEF Exists
<1>5. ASSUME NEW j \in Filing PROVE CallOK(j)'
  <2>1. SameCall(j) /\ CallOK(j)
    BY <1>1 DEF CertIInv, SameCall
  <2>2. Holds(j) => KeepsHave(filing[j].id)
    BY <1>4, <2>1 DEF CallOK, KeepsHave, Exists
  <2>3. ASSUME filing[j].step = "insert", NEW l \in Filing, l # j, Holds(l)'
        PROVE  filing'[l].id # filing[j].id
    BY <1>1, <2>1, <2>3 DEF CallOK, IdIsNew, Holds
  <2> QED
    BY <1>1, <2>1, <2>2, <2>3, OtherCall
<1>6. ASSUME NEW j \in CompanyId PROVE CompanyOK(j)'
  <2>1. CompanyOK(j) /\ \A l \in Filing : Announces(l, j) => Announces(l, j)'
    BY <1>1 DEF CertIInv, Announces
  <2> QED
    BY <1>1, <1>4, <2>1, SameCompany
<1> QED
  BY <1>3, <1>5, <1>6 DEF CertIInv

LEMMA CertInit == CompaniesInit => CertIInv
<1> SUFFICES ASSUME CompaniesInit PROVE CertIInv
  OBVIOUS
<1>1. PICK shells \in SUBSET CompanyId, w \in Place, r \in Rfc :
        /\ company = [i \in CompanyId |->
             IF i \in shells
             THEN [ws |-> w, rfc |-> r, active |-> TRUE, have |-> FALSE, valid |-> FALSE]
             ELSE NoRow]
        /\ schema = shells
  BY DEF CompaniesInit
<1>2. [ws |-> w, rfc |-> r, active |-> TRUE, have |-> FALSE, valid |-> FALSE] \in CompanyRow
  BY DEF CompanyRow
<1>3. /\ filing = [k \in Filing |-> NoFiling] /\ NoFiling \in Filings
      /\ NoFiling.step = "none" /\ NoFiling.how = "none" /\ NoFiling.seen = 0
      /\ announced = [i \in CompanyId |-> 0]
      /\ object = [i \in CompanyId |-> [e \in Ext |-> NoCert]]
  BY DEF CompaniesInit, NoFiling, Filings, Steps
<1>4. CertTypes
  <2>1. company \in [CompanyId -> CompanyRow \cup {NoRow}]
    BY <1>1, <1>2
  <2> QED
    BY <1>3, <2>1 DEF CertTypes
<1>5. ASSUME NEW k \in Filing PROVE CallOK(k)
  BY <1>3 DEF CallOK, ObjectsFollow, HaveFollows, IdIsNew, Holds, Ext
<1>6. ASSUME NEW i \in CompanyId PROVE CompanyOK(i)
  BY <1>1, <1>3 DEF CompanyOK, Exists
<1> QED
  BY <1>4, <1>5, <1>6 DEF CertIInv

LEMMA CertNext ==
  ASSUME IInv, CertIInv, [CompaniesNext]_companiesVars PROVE CertIInv'
<1>1. CASE \E k \in Filing :
             \/ \E how \in {"user", "admin"}, w \in Place, c \in Certificate :
                  Create(k, how, w, c) \/ CreateUncounted(k, how, w, c)
             \/ EnsureNoRFCInFreemiumAccounts(k)
             \/ \E i \in CompanyId : RunTenantMigrations(k, i)
  BY <1>1, BeginCert
<1>2. CASE \E k \in Filing : InsertCompany(k)
  BY <1>2, InsertCert
<1>3. CASE \E k \in Filing, i \in CompanyId, c \in Certificate : UploadCer(k, i, c)
  BY <1>3, UploadCerCert
<1>4. CASE \E k \in Filing, e \in Ext : Upload(k, e)
  BY <1>4, UploadCert
<1>5. CASE \E k \in Filing : SetFlags(k)
  BY <1>5, SetFlagsCert
<1>6. CASE \E k \in Filing : RequestRestoreTrial(k) \/ GrantRole(k) \/ PublishLost(k)
  BY <1>6, LaterCert
<1>7. CASE \E k \in Filing : PublishCompanyCreated(k)
  BY <1>7, PublishCert
<1>8. CASE \E k \in Filing : AdminLicense(k) \/ CallFails(k)
  BY <1>8, EndCert
<1>9. CASE \E i \in CompanyId : \/ \E active \in BOOLEAN : UpdateCompany(i, active)
                                \/ DeleteCompany(i)
                                \/ InvalidateCerts(i)
  BY <1>9, OtherCert
<1>10. CASE UNCHANGED companiesVars
  <2>1. UNCHANGED <<company, schema, object, announced, lost, filing>>
    BY <1>10 DEF companiesVars
  <2>2. CertTypes'
    BY <2>1 DEF CertIInv, CertTypes
  <2>3. ASSUME NEW k \in Filing PROVE CallOK(k)'
    BY <2>1 DEF CertIInv, CallOK, ObjectsFollow, HaveFollows, IdIsNew, Holds, Exists
  <2>4. ASSUME NEW i \in CompanyId PROVE CompanyOK(i)'
    BY <2>1 DEF CertIInv, CompanyOK, Announces, Exists
  <2> QED
    BY <2>2, <2>3, <2>4 DEF CertIInv
<1> QED
  BY <1>1, <1>2, <1>3, <1>4, <1>5, <1>6, <1>7, <1>8, <1>9, <1>10 DEF CompaniesNext

\* The objects a call has uploaded and the flags it has read are those of its own
\* certificates until the row is written.
LEMMA CertInvariance == CompaniesSpec => []CertIInv
<1>1. IInv /\ CertIInv /\ [CompaniesNext]_companiesVars => CertIInv'
  BY CertNext
<1> QED
  BY CertInit, Invariance, <1>1, PTL DEF CompaniesSpec

\* Good certificates are those of one upload, but for uploads that overlap
\* (FlagsFollowObjects).
THEOREM FlagsFollowObjectsHolds == CompaniesSpec => FlagsFollowObjects
<1> DEFINE Follow ==
      \A k \in Filing :
        Step(k, "flags") /\ filing'[k].step # "flags" /\ filing[k].alone
          /\ filing'[k].id = filing[k].id =>
            \A e \in Ext : object[filing[k].id][e] = filing[k].cert
<1>1. CertIInv => Follow
  BY DEF CertIInv, CallOK, ObjectsFollow, Step, Ext
<1>2. CertIInv /\ [CompaniesNext]_companiesVars => [Follow]_companiesVars
  BY <1>1
<1> QED
  BY CertInvariance, <1>2, PTL DEF CompaniesSpec, FlagsFollowObjects

\* A company with good certificates is announced, and once but for uploads that
\* overlap (AnnouncedOnce).
THEOREM AnnouncedOnceHolds == CompaniesSpec => AnnouncedOnce
<1> DEFINE Twice ==
      \A k \in Filing :
        Step(k, "publish") /\ filing'[k].step # "publish" =>
          LET i == filing[k].id IN
          announced'[i] = announced[i] \/ announced[i] = 0
            \/ filing[k].seen < announced[i]
<1>1. CertIInv => CertifiedIsAnnounced
  BY DEF CertIInv, CompanyOK, Announces, CertifiedIsAnnounced
<1>2. CertIInv => Twice
  <2> SUFFICES ASSUME CertIInv, NEW k \in Filing, filing[k].step = "publish"
               PROVE  announced[filing[k].id] = 0 \/ filing[k].seen < announced[filing[k].id]
    BY DEF Step
  <2>1. filing[k].id \in CompanyId /\ filing[k].seen = 0
    BY DEF CertIInv, CallOK, HaveFollows, Holds
  <2>2. announced[filing[k].id] \in Nat
    BY <2>1 DEF CertIInv, CertTypes
  <2> QED
    BY <2>1, <2>2
<1>3. CertIInv /\ [CompaniesNext]_companiesVars => [Twice]_companiesVars
  BY <1>2
<1> QED
  BY CertInvariance, <1>1, <1>3, PTL DEF CompaniesSpec, AnnouncedOnce, AnnouncedTwiceNeedsOverlap

-----------------------------------------------------------------------------
(* Settings *)

SettingCall == [step : SettingStep, key : DataKey \cup {"none"},
                seen : [DataKey -> Setter \cup {Unset}], missed : SUBSET DataKey]

\* What a call read is what the column holds, but for the keys it missed.
SettingIInv ==
  /\ data \in [DataKey -> Setter \cup {Unset}]
  /\ setting \in [Setter -> SettingCall]
  /\ \A s \in Setter : setting[s].step = "write" =>
       /\ setting[s].key \in DataKey
       /\ \A k \in DataKey : setting[s].seen[k] # data[k] => k \in setting[s].missed

Type == NotificationType \cup {"ERROR"}

ConfigRow == [user : Member, type : Type, by : Rewriting \cup {"before"}]

ConfigCall == [step : {"none", "next", "change", "done"}, want : [Member -> SUBSET NotificationType],
               left : SUBSET Member, user : Member \cup {Unset}, current : SUBSET Type,
               added : SUBSET ConfigRow, removed : SUBSET ConfigRow,
               missed : SUBSET (Member \X Type)]

ConfigTypes ==
  /\ configs \in SUBSET ConfigRow
  /\ config \in [Rewriting -> ConfigCall]

\* The users of a call: still to come, the one whose types it has read, and those it
\* has changed.
Touches(c, u) == \E r \in config[c].added \cup config[c].removed : r.user = u

Reading(c, u) == config[c].step = "change" /\ config[c].user = u

HasRow(u, t) == \E r \in configs : r.user = u /\ r.type = t

\* The types read are those of the committed rows, but for what the call missed.
ReadWell(c) ==
  config[c].step = "change" =>
    LET u == config[c].user IN
    /\ u \in Member /\ config[c].want[u] # {} /\ u \notin config[c].left
    /\ \A t \in Type : <<u, t>> \notin config[c].missed =>
         (t \in config[c].current <=> HasRow(u, t))

\* The rows that a call leaves for a user it has changed.
Leaves(c, u, t) ==
  \/ \E r \in config[c].added : r.user = u /\ r.type = t
  \/ \E r \in configs \ config[c].removed : r.user = u /\ r.type = t

ChangedWell(c, u) ==
  IF config[c].want[u] = {} \/ u \in config[c].left \/ Reading(c, u) THEN ~Touches(c, u)
  ELSE \A t \in Type : <<u, t>> \notin config[c].missed =>
         (Leaves(c, u, t) <=> t \in config[c].want[u])

ConfigOK(c) ==
  config[c].step \in {"next", "change"} =>
    /\ \A u \in config[c].left : config[c].want[u] # {}
    /\ ReadWell(c)
    /\ \A u \in Member : ChangedWell(c, u)

ConfigIInv == ConfigTypes /\ \A c \in Rewriting : ConfigOK(c)

SettingsIInv == SettingIInv /\ ConfigIInv

LEMMA ReadDataStep ==
  ASSUME SettingIInv, NEW s \in Setter, NEW k \in DataKey, ReadData(s, k)
  PROVE  SettingIInv'
BY DEF SettingIInv, ReadData, SettingCall, SettingStep

LEMMA WriteDataStep ==
  ASSUME SettingIInv, NEW s \in Setter, WriteData(s)
  PROVE  SettingIInv'
<1>1. /\ setting[s] \in SettingCall /\ setting[s].key \in DataKey
      /\ data' = [setting[s].seen EXCEPT ![setting[s].key] = s]
  BY DEF SettingIInv, WriteData
<1>2. data' \in [DataKey -> Setter \cup {Unset}]
  BY <1>1 DEF SettingCall
<1>3. ASSUME NEW t \in Setter
      PROVE  /\ setting'[t] \in SettingCall
             /\ setting'[t].step = "write" =>
                  /\ setting'[t].key \in DataKey
                  /\ \A k \in DataKey : setting'[t].seen[k] # data'[k] => k \in setting'[t].missed
  <2>1. CASE t = s
    <3>1. setting'[t] = [NoSetting EXCEPT !.step = "done"]
      BY <2>1 DEF WriteData
    <3> QED
      BY <3>1 DEF NoSetting, SettingCall, SettingStep
  <2>2. CASE t # s /\ setting[t].step = "write"
    <3>1. /\ setting[t] \in SettingCall
          /\ setting'[t] = [setting[t] EXCEPT !.missed = @ \cup {k \in DataKey : data'[k] # data[k]}]
      BY <2>2 DEF SettingIInv, WriteData
    <3>2. /\ setting'[t] \in SettingCall
          /\ setting'[t].key = setting[t].key /\ setting'[t].seen = setting[t].seen
          /\ setting'[t].missed = setting[t].missed \cup {k \in DataKey : data'[k] # data[k]}
      BY <3>1 DEF SettingCall
    <3> QED
      BY <2>2, <3>2 DEF SettingIInv
  <2>3. CASE t # s /\ setting[t].step # "write"
    BY <2>3 DEF SettingIInv, WriteData
  <2> QED
    BY <2>1, <2>2, <2>3
<1>4. setting' \in [Setter -> SettingCall]
  <2>1. setting' = [t \in Setter |-> setting'[t]]
    BY DEF WriteData
  <2> QED
    BY <1>3, <2>1
<1> QED
  BY <1>2, <1>3, <1>4 DEF SettingIInv

LEMMA WriteDataFailsStep ==
  ASSUME SettingIInv, NEW s \in Setter, WriteDataFails(s)
  PROVE  SettingIInv'
BY DEF SettingIInv, WriteDataFails, NoSetting, SettingCall, SettingStep

\* A call that changes only its own record.
LEMMA OwnConfigStep ==
  ASSUME ConfigIInv, NEW c \in Rewriting, NEW new \in ConfigCall,
         config' = [config EXCEPT ![c] = new], UNCHANGED configs, ConfigOK(c)'
  PROVE  ConfigIInv'
<1>1. ConfigTypes' /\ \A d \in Rewriting : d # c => config'[d] = config[d]
  BY DEF ConfigIInv, ConfigTypes
<1>2. ASSUME NEW d \in Rewriting, d # c PROVE ConfigOK(d)'
  BY <1>1, <1>2 DEF ConfigIInv, ConfigOK, ReadWell, ChangedWell, Touches, Reading, HasRow, Leaves
<1> QED
  BY <1>1, <1>2 DEF ConfigIInv

LEMMA SetConfigStep ==
  ASSUME ConfigIInv, NEW c \in Rewriting, NEW want \in [Member -> SUBSET NotificationType],
         SetConfig(c, want)
  PROVE  ConfigIInv'
<1> DEFINE new == [NoConfig EXCEPT !.step = "next", !.want = want,
                                   !.left = {u \in Member : want[u] # {}}]
<1>1. /\ new \in ConfigCall /\ new.step = "next" /\ new.want = want
      /\ new.left = {u \in Member : want[u] # {}} /\ new.added = {} /\ new.removed = {}
  BY DEF NoConfig, ConfigCall
<1>2. config' = [config EXCEPT ![c] = new] /\ UNCHANGED configs
  BY DEF SetConfig
<1> HIDE DEF new
<1>3. config'[c] = new
  BY <1>1, <1>2 DEF ConfigIInv, ConfigTypes
<1>4. ConfigOK(c)'
  BY <1>1, <1>3 DEF ConfigOK, ReadWell, ChangedWell, Touches
<1> QED
  BY <1>1, <1>2, <1>4, OwnConfigStep

LEMMA ReadConfigsStep ==
  ASSUME ConfigIInv, NEW c \in Rewriting, NEW u \in Member, ReadConfigs(c, u)
  PROVE  ConfigIInv'
<1> DEFINE current == {r.type : r \in {q \in configs : q.user = u}}
           new == [config[c] EXCEPT !.step = "change", !.user = u, !.left = @ \ {u},
                                    !.current = current]
<1>0. /\ config[c] \in ConfigCall /\ configs \subseteq ConfigRow /\ UNCHANGED configs
      /\ config[c].step = "next" /\ u \in config[c].left /\ ConfigOK(c)
  BY DEF ConfigIInv, ConfigTypes, ReadConfigs
<1>1. current \subseteq Type /\ \A t : t \in current <=> HasRow(u, t)
  BY <1>0 DEF ConfigRow, HasRow
<1> HIDE DEF current
<1>2. /\ new \in ConfigCall /\ new.step = "change" /\ new.user = u
      /\ new.left = config[c].left \ {u} /\ new.current = current
      /\ new.want = config[c].want /\ new.added = config[c].added
      /\ new.removed = config[c].removed /\ new.missed = config[c].missed
  BY <1>0, <1>1 DEF ConfigCall
<1>3. config' = [config EXCEPT ![c] = new]
  BY <1>0 DEF ReadConfigs, ConfigIInv, ConfigTypes, ConfigCall, current
<1> HIDE DEF new
<1>4. config'[c] = new
  BY <1>2, <1>3 DEF ConfigIInv, ConfigTypes
<1>5. ChangedWell(c, u) /\ ~Touches(c, u)
  BY <1>0 DEF ConfigOK, ChangedWell
<1>6. ReadWell(c)'
  <2>1. config[c].want[u] # {}
    BY <1>0 DEF ConfigOK
  <2> QED
    BY <1>0, <1>1, <1>2, <1>4, <2>1 DEF ReadWell, HasRow
<1>7. ASSUME NEW v \in Member PROVE ChangedWell(c, v)'
  BY <1>0, <1>2, <1>4, <1>5 DEF ConfigOK, ChangedWell, Touches, Reading, Leaves
<1>8. ConfigOK(c)'
  BY <1>0, <1>2, <1>4, <1>6, <1>7 DEF ConfigOK
<1> QED
  BY <1>0, <1>2, <1>3, <1>8, OwnConfigStep

LEMMA ChangeConfigsStep ==
  ASSUME ConfigIInv, NEW c \in Rewriting, ChangeConfigs(c)
  PROVE  ConfigIInv'
<1> DEFINE missing == Missing(c)
           obsolete == Obsolete(c)
           new == [config[c] EXCEPT !.step = "next", !.user = Unset, !.current = {},
                                    !.added = @ \cup missing, !.removed = @ \cup obsolete]
<1>0. /\ config[c] \in ConfigCall /\ configs \subseteq ConfigRow /\ UNCHANGED configs
      /\ config[c].step = "change" /\ ConfigOK(c) /\ ReadWell(c)
  BY DEF ConfigIInv, ConfigTypes, ConfigOK, ChangeConfigs
<1>1. PICK u \in Member : u = config[c].user
  BY <1>0 DEF ReadWell
<1>2. /\ \A r \in missing : r.user = u /\ r.type \in config[c].want[u] \ config[c].current
      /\ \A t \in config[c].want[u] \ config[c].current : \E r \in missing : r.type = t
      /\ missing \subseteq ConfigRow
  <2>1. config[c].want[u] \subseteq Type
    BY <1>0, <1>1 DEF ConfigCall, Type
  <2>2. missing = {[user |-> u, type |-> t, by |-> c] : t \in config[c].want[u] \ config[c].current}
    BY <1>1 DEF Missing
  <2> HIDE DEF missing
  <2>3. ASSUME NEW t \in config[c].want[u] \ config[c].current
        PROVE  \E r \in missing : r.type = t
    <3>1. [user |-> u, type |-> t, by |-> c] \in missing
      BY <2>2
    <3> QED
      BY <3>1
  <2>5. \A r \in missing : r.user = u /\ r.type \in config[c].want[u] \ config[c].current
    BY <2>2
  <2>4. missing \subseteq ConfigRow
    BY <2>1, <2>2 DEF ConfigRow
  <2> QED
    BY <2>3, <2>4, <2>5
<1>3. obsolete = {r \in configs : r.user = u /\ r.type \in config[c].current \ config[c].want[u]}
  BY <1>1 DEF Obsolete
<1> HIDE DEF missing, obsolete
<1>4. /\ new \in ConfigCall /\ new.step = "next" /\ new.left = config[c].left
      /\ new.want = config[c].want /\ new.added = config[c].added \cup missing
      /\ new.removed = config[c].removed \cup obsolete /\ new.missed = config[c].missed
  BY <1>0, <1>2, <1>3 DEF ConfigCall
<1>5. config' = [config EXCEPT ![c] = new]
  BY <1>0 DEF ChangeConfigs, ConfigIInv, ConfigTypes, ConfigCall, missing, obsolete
<1> HIDE DEF new
<1>6. config'[c] = new
  BY <1>4, <1>5 DEF ConfigIInv, ConfigTypes
<1>7. ASSUME NEW v \in Member PROVE ChangedWell(c, v)'
  <2>1. ChangedWell(c, v)
    BY <1>0 DEF ConfigOK
  <2>2. CASE v # u
    <3>1. ~Reading(c, v) /\ ~Reading(c, v)'
      BY <1>1, <1>4, <1>6, <2>2 DEF Reading
    <3>2. Touches(c, v)' <=> Touches(c, v)
      BY <1>0, <1>2, <1>3, <1>4, <1>6, <2>2 DEF Touches
    <3>3. \A t \in Type : Leaves(c, v, t)' <=> Leaves(c, v, t)
      BY <1>0, <1>2, <1>3, <1>4, <1>6, <2>2 DEF Leaves
    <3> QED
      BY <1>0, <1>4, <1>6, <2>1, <3>1, <3>2, <3>3 DEF ChangedWell
  <2>3. CASE v = u
    <3>1. ~Touches(c, u)
      BY <1>0, <1>1, <2>1, <2>3 DEF ChangedWell, Reading
    <3>2. ASSUME NEW t \in Type, <<u, t>> \notin config[c].missed
          PROVE  Leaves(c, u, t)' <=> t \in config[c].want[u]
      <4>1. t \in config[c].current <=> HasRow(u, t)
        BY <1>0, <1>1, <3>2 DEF ReadWell
      <4>2. Leaves(c, u, t)' <=> \/ \E r \in missing : r.type = t
                                \/ \E r \in configs \ obsolete : r.user = u /\ r.type = t
        BY <1>0, <1>2, <1>4, <1>6, <3>1 DEF Leaves, Touches
      <4> QED
        BY <1>2, <1>3, <4>1, <4>2 DEF HasRow
    <3>3. config[c].want[u] # {} /\ u \notin config[c].left
      BY <1>0, <1>1 DEF ReadWell
    <3> QED
      BY <1>4, <1>6, <2>3, <3>2, <3>3 DEF ChangedWell, Reading
  <2> QED
    BY <2>2, <2>3
<1>8. ConfigOK(c)'
  BY <1>0, <1>4, <1>6, <1>7 DEF ConfigOK, ReadWell
<1> QED
  BY <1>0, <1>4, <1>5, <1>8, OwnConfigStep

LEMMA ClosedOK ==
  ASSUME NEW c \in Rewriting, config'[c] = Closed
  PROVE  Closed \in ConfigCall /\ ConfigOK(c)'
BY DEF Closed, NoConfig, ConfigCall, ConfigOK

LEMMA RollbackStep ==
  ASSUME ConfigIInv, NEW c \in Rewriting, RollbackConfigs(c)
  PROVE  ConfigIInv'
<1>1. config' = [config EXCEPT ![c] = Closed] /\ UNCHANGED configs
  BY DEF RollbackConfigs
<1>2. config'[c] = Closed
  BY <1>1 DEF ConfigIInv, ConfigTypes
<1> QED
  BY <1>1, <1>2, ClosedOK, OwnConfigStep

LEMMA CommitStep ==
  ASSUME ConfigIInv, NEW c \in Rewriting, CommitConfigs(c)
  PROVE  ConfigIInv'
<1> DEFINE changed == {<<r.user, r.type>> : r \in config[c].removed \cup config[c].added}
<1>1. /\ configs' = (configs \ config[c].removed) \cup config[c].added
      /\ config[c] \in ConfigCall /\ configs \subseteq ConfigRow
  BY DEF CommitConfigs, ConfigIInv, ConfigTypes
<1>2. config'[c] = Closed
  BY DEF CommitConfigs
<1>3. ASSUME NEW d \in Rewriting, d # c, config[d].step \in {"next", "change"}
      PROVE  /\ config'[d] \in ConfigCall
             /\ config'[d].step = config[d].step /\ config'[d].want = config[d].want
             /\ config'[d].left = config[d].left /\ config'[d].user = config[d].user
             /\ config'[d].current = config[d].current /\ config'[d].added = config[d].added
             /\ config'[d].removed = config[d].removed \ config[c].removed
             /\ config'[d].missed = config[d].missed \cup changed
  <2>1. config'[d] = [config[d] EXCEPT !.missed = @ \cup changed, !.removed = @ \ config[c].removed]
    BY <1>3 DEF CommitConfigs
  <2>2. config[d] \in ConfigCall /\ changed \subseteq Member \X Type
    BY <1>1 DEF ConfigIInv, ConfigTypes, ConfigCall, ConfigRow
  <2> HIDE DEF changed
  <2> QED
    BY <2>1, <2>2, ZenonT(40) DEF ConfigCall
<1>4. ASSUME NEW d \in Rewriting, d # c, config[d].step \notin {"next", "change"}
      PROVE  config'[d] = config[d]
  BY <1>4 DEF CommitConfigs
<1>5. ConfigTypes'
  <2>1. configs' \subseteq ConfigRow
    BY <1>1 DEF ConfigCall
  <2>2. config' = [d \in Rewriting |-> config'[d]]
    BY DEF CommitConfigs
  <2>3. \A d \in Rewriting : config'[d] \in ConfigCall
    BY <1>2, <1>3, <1>4, ClosedOK DEF ConfigIInv, ConfigTypes
  <2> QED
    BY <2>1, <2>2, <2>3 DEF ConfigTypes
<1>6. \A u, t : <<u, t>> \notin changed =>
        \A r : r.user = u /\ r.type = t => (r \in configs' <=> r \in configs) /\ r \notin config[c].removed
  BY <1>1
<1> HIDE DEF changed
<1>7. ASSUME NEW d \in Rewriting, d # c, config[d].step \in {"next", "change"}
      PROVE  ReadWell(d)' /\ \A u \in Member : ChangedWell(d, u)'
  <2>1. ReadWell(d) /\ \A u \in Member : ChangedWell(d, u)
    BY <1>7 DEF ConfigIInv, ConfigOK
  <2>2. ReadWell(d)'
    <3>1. ASSUME NEW u, NEW t, <<u, t>> \notin changed PROVE HasRow(u, t)' <=> HasRow(u, t)
      BY <1>6, <3>1 DEF HasRow
    <3> QED
      BY <1>3, <1>7, <2>1, <3>1 DEF ReadWell
  <2>3. ASSUME NEW u \in Member PROVE ChangedWell(d, u)'
    <3>1. Touches(d, u)' => Touches(d, u)
      BY <1>3, <1>7 DEF Touches
    <3>2. Reading(d, u)' <=> Reading(d, u)
      BY <1>3, <1>7 DEF Reading
    <3>3. ASSUME NEW t, <<u, t>> \notin changed PROVE Leaves(d, u, t)' <=> Leaves(d, u, t)
      BY <1>3, <1>6, <1>7, <3>3 DEF Leaves
    <3> QED
      BY <1>3, <1>7, <2>1, <3>1, <3>2, <3>3 DEF ChangedWell
  <2> QED
    BY <2>2, <2>3
<1>8. ASSUME NEW d \in Rewriting PROVE ConfigOK(d)'
  <2>1. CASE d = c
    BY <1>2, <2>1, ClosedOK
  <2>2. CASE d # c /\ config[d].step \in {"next", "change"}
    BY <1>3, <1>7, <2>2 DEF ConfigIInv, ConfigOK
  <2>3. CASE d # c /\ config[d].step \notin {"next", "change"}
    BY <1>4, <2>3 DEF ConfigOK
  <2> QED
    BY <2>1, <2>2, <2>3
<1> QED
  BY <1>5, <1>8 DEF ConfigIInv

LEMMA SettingsInitInv == SettingsInit => SettingsIInv
<1> SUFFICES ASSUME SettingsInit PROVE SettingsIInv
  OBVIOUS
<1>1. SettingIInv
  BY DEF SettingsInit, SettingIInv, NoSetting, SettingCall, SettingStep
<1>2. ConfigTypes
  BY DEF SettingsInit, ConfigTypes, ConfigRow, ConfigCall, NoConfig, Type
<1>3. \A c \in Rewriting : config[c].step = "none"
  BY DEF SettingsInit, NoConfig
<1> QED
  BY <1>1, <1>2, <1>3 DEF SettingsIInv, ConfigIInv, ConfigOK

LEMMA SettingsNextInv ==
  ASSUME SettingsIInv, [SettingsNext]_settingsVars PROVE SettingsIInv'
<1>1. CASE DataNext
  <2>1. SettingIInv'
    BY <1>1, ReadDataStep, WriteDataStep, WriteDataFailsStep DEF DataNext, SettingsIInv
  <2>2. UNCHANGED <<configs, config>>
    BY <1>1 DEF DataNext, ReadData, WriteData, WriteDataFails
  <2> QED
    BY <2>1, <2>2 DEF SettingsIInv, ConfigIInv, ConfigTypes, ConfigOK, ReadWell, ChangedWell,
                      Touches, Reading, HasRow, Leaves
<1>2. CASE ConfigsNext
  <2>1. ConfigIInv'
    BY <1>2, SetConfigStep, ReadConfigsStep, ChangeConfigsStep, CommitStep, RollbackStep
       DEF ConfigsNext, SettingsIInv
  <2>2. UNCHANGED <<data, setting>>
    BY <1>2 DEF ConfigsNext, SetConfig, ReadConfigs, ChangeConfigs, CommitConfigs, RollbackConfigs
  <2> QED
    BY <2>1, <2>2 DEF SettingsIInv, SettingIInv
<1>3. CASE UNCHANGED settingsVars
  BY <1>3 DEF settingsVars, SettingsIInv, SettingIInv, ConfigIInv, ConfigTypes, ConfigOK, ReadWell,
              ChangedWell, Touches, Reading, HasRow, Leaves
<1> QED
  BY <1>1, <1>2, <1>3 DEF SettingsNext

\* A call that nobody overlapped still holds the settings the row has.
LEMMA SettingsInvariance == SettingsSpec => []SettingsIInv
<1>1. SettingsIInv /\ [SettingsNext]_settingsVars => SettingsIInv'
  BY SettingsNextInv
<1> QED
  BY SettingsInitInv, <1>1, PTL DEF SettingsSpec

\* A call writes a key that is not its own only where it had missed a change.
LEMMA OnlyMissedWritten ==
  ASSUME SettingsIInv, [SettingsNext]_settingsVars, NEW k \in DataKey, data'[k] # data[k]
  PROVE  \E s \in Setter : /\ setting[s].step = "write" /\ setting'[s].step = "done"
                           /\ (k = setting[s].key \/ k \in setting[s].missed)
<1>1. PICK s \in Setter : WriteData(s)
  BY DEF SettingsNext, DataNext, ConfigsNext, settingsVars, ReadData, WriteDataFails, SetConfig,
         ReadConfigs, ChangeConfigs, CommitConfigs, RollbackConfigs
<1>2. /\ setting[s].step = "write" /\ setting[s] \in SettingCall
      /\ data' = [setting[s].seen EXCEPT ![setting[s].key] = s]
      /\ setting'[s] = [NoSetting EXCEPT !.step = "done"]
  BY <1>1 DEF WriteData, SettingsIInv, SettingIInv
<1>3. setting'[s].step = "done"
  BY <1>2 DEF NoSetting
<1>4. k # setting[s].key => data'[k] = setting[s].seen[k]
  BY <1>2 DEF SettingCall
<1>5. k = setting[s].key \/ k \in setting[s].missed
  BY <1>2, <1>4 DEF SettingsIInv, SettingIInv
<1> QED
  BY <1>2, <1>3, <1>5

\* What a commit leaves to each user.
LEMMA CommitLeaves ==
  ASSUME SettingsIInv, [SettingsNext]_settingsVars, NEW c \in Rewriting,
         config[c].step = "next", config'[c].step = "done", configs' # configs,
         NEW u \in Member, NEW t \in NotificationType
  PROVE  IF config[c].want[u] = {} THEN t \in TypesOf(u)' <=> t \in TypesOf(u)
         ELSE (t \in TypesOf(u)' <=> t \in config[c].want[u])
                \/ <<u, t>> \in config[c].missed
<1>1. PICK d \in Rewriting : CommitConfigs(d)
  BY DEF SettingsNext, DataNext, ConfigsNext, settingsVars, ReadData, WriteData, WriteDataFails,
         SetConfig, ReadConfigs, ChangeConfigs, RollbackConfigs
<1>2. d = c
  <2>1. ASSUME d # c PROVE FALSE
    <3>1. config'[c] = [config[c] EXCEPT
               !.missed = @ \cup {<<r.user, r.type>> : r \in config[d].removed \cup config[d].added},
               !.removed = @ \ config[d].removed]
      BY <1>1, <2>1 DEF CommitConfigs
    <3>2. config[c] \in ConfigCall
      BY DEF SettingsIInv, ConfigIInv, ConfigTypes
    <3>3. config'[c].step = config[c].step
      BY <3>1, <3>2 DEF ConfigCall
    <3> QED
      BY <3>3
  <2> QED
    BY <2>1
<1>3. /\ config[c].left = {} /\ configs' = (configs \ config[c].removed) \cup config[c].added
      /\ ChangedWell(c, u) /\ ~Reading(c, u)
  BY <1>1, <1>2 DEF CommitConfigs, SettingsIInv, ConfigIInv, ConfigOK, Reading
<1>4. (t \in TypesOf(u)' <=> Leaves(c, u, t)) /\ (t \in TypesOf(u) <=> HasRow(u, t))
  BY <1>3 DEF TypesOf, Leaves, HasRow
<1>5. CASE config[c].want[u] = {}
  <2>1. ~Touches(c, u)
    BY <1>3, <1>5 DEF ChangedWell
  <2> QED
    BY <1>4, <1>5, <2>1 DEF Touches, Leaves, HasRow
<1>6. CASE config[c].want[u] # {}
  <2>1. <<u, t>> \notin config[c].missed => (Leaves(c, u, t) <=> t \in config[c].want[u])
    BY <1>3, <1>6 DEF ChangedWell, Type
  <2> QED
    BY <1>4, <1>6, <2>1
<1> QED
  BY <1>5, <1>6

\* A setting of a company or of the notifications of its users is lost only by calls
\* that overlap (SettingsNeedOverlap).
THEOREM SettingsNeedOverlapHolds == SettingsSpec => SettingsNeedOverlap
<1> DEFINE Kept ==
      \A k \in DataKey : data'[k] # data[k] =>
        \E s \in Setter : /\ setting[s].step = "write" /\ setting'[s].step = "done"
                          /\ (k = setting[s].key \/ k \in setting[s].missed)
    Asked ==
      \A c \in Rewriting : config[c].step = "next" /\ config'[c].step = "done" /\ configs' # configs =>
        \A u \in Member, t \in NotificationType :
          IF config[c].want[u] = {} THEN t \in TypesOf(u)' <=> t \in TypesOf(u)
          ELSE (t \in TypesOf(u)' <=> t \in config[c].want[u])
                 \/ <<u, t>> \in config[c].missed
<1>1. SettingsIInv /\ [SettingsNext]_settingsVars => Kept
  BY OnlyMissedWritten
<1>2. SettingsIInv /\ [SettingsNext]_settingsVars => Asked
  BY CommitLeaves
<1>3. SettingsIInv /\ [SettingsNext]_settingsVars => [Kept]_settingsVars /\ [Asked]_settingsVars
  BY <1>1, <1>2
<1> QED
  BY SettingsInvariance, <1>3, PTL DEF SettingsSpec, SettingsNeedOverlap, SettingKept,
     ConfigIsWhatWasAsked

-----------------------------------------------------------------------------
(* TenantPool *)

\* The values of the variables.
PoolTypeOK ==
  /\ path \in [Conn -> Schema \cup {Public}]
  /\ held \in [Conn -> Handler \cup {NoHandler}]
  /\ run \in [Handler -> Session]

HasConn(h) == run[h].step \in {"set", "work", "second", "plain"}

\* Who has which connections, and the search_path of the first of them.
HoldsConns ==
  /\ \A h \in Handler : HasConn(h) => /\ run[h].conn \in Conn
                                      /\ held[run[h].conn] = h
  /\ \A h \in Handler : run[h].step = "plain" =>
       run[h].second \in Conn /\ held[run[h].second] = h
  /\ \A c \in Conn : ~Free(c) =>
       LET h == held[c] IN
       \/ HasConn(h) /\ run[h].conn = c
       \/ run[h].step = "plain" /\ run[h].second = c

\* The search_path of a session at work.
OwnPath ==
  \A h \in Handler :
    run[h].step \in {"work", "second", "plain"} => path[run[h].conn] = run[h].schema

PoolIInv == PoolTypeOK /\ HoldsConns /\ OwnPath

-----------------------------------------------------------------------------

LEMMA PoolInitIInv == PoolInit => PoolIInv
<1> SUFFICES ASSUME PoolInit PROVE PoolIInv
  OBVIOUS
<1>1. NoSession \in Session
  BY DEF NoSession, Session
<1>2. PoolTypeOK
  BY <1>1 DEF PoolInit, PoolTypeOK
<1>3. \A h \in Handler : run[h].step = "idle"
  BY DEF PoolInit, NoSession
<1>4. HoldsConns
  BY <1>3 DEF PoolInit, HoldsConns, Free, HasConn
<1>5. OwnPath
  BY <1>3 DEF OwnPath
<1> QED
  BY <1>2, <1>4, <1>5 DEF PoolIInv

LEMMA BeginStep ==
  ASSUME PoolIInv, NEW h \in Handler, NEW s \in Schema, Begin(h, s) PROVE PoolIInv'
<1> DEFINE new == [NoSession EXCEPT !.step = "acquire", !.schema = s]
<1>1. new \in Session /\ new.step = "acquire"
  BY DEF NoSession, Session
<1> HIDE DEF new
<1>2. /\ run' = [run EXCEPT ![h] = new]
      /\ run[h].step = "idle"
      /\ UNCHANGED <<path, held>>
  BY DEF Begin, new
<1>3. PoolTypeOK'
  BY <1>1, <1>2 DEF PoolIInv, PoolTypeOK
<1>4. \A g \in Handler : g # h => run'[g] = run[g]
  BY <1>2 DEF PoolIInv, PoolTypeOK
<1>5. run'[h].step = "acquire"
  BY <1>1, <1>2 DEF PoolIInv, PoolTypeOK
<1>6. HoldsConns'
  BY <1>2, <1>4, <1>5, TenantPoolAssumption DEF PoolIInv, PoolTypeOK, HoldsConns, Free, HasConn
<1>7. OwnPath'
  BY <1>2, <1>4, <1>5 DEF PoolIInv, OwnPath
<1> QED
  BY <1>3, <1>6, <1>7 DEF PoolIInv

LEMMA TenantConnStep ==
  ASSUME PoolIInv, NEW h \in Handler, NEW c \in Conn, TenantConn(h, c) PROVE PoolIInv'
BY TenantPoolAssumption
   DEF TenantConn, PoolIInv, PoolTypeOK, HoldsConns, OwnPath, Session, Free, HasConn

LEMMA SetSearchPathStep ==
  ASSUME PoolIInv, NEW h \in Handler, SetSearchPath(h) PROVE PoolIInv'
BY TenantPoolAssumption
   DEF SetSearchPath, PoolIInv, PoolTypeOK, HoldsConns, OwnPath, Session, Free, HasConn

LEMMA SetSearchPathFailsStep ==
  ASSUME PoolIInv, NEW h \in Handler, SetSearchPathFails(h) PROVE PoolIInv'
BY TenantPoolAssumption
   DEF SetSearchPathFails, PoolIInv, PoolTypeOK, HoldsConns, OwnPath, Session, NoSession, Free, HasConn

LEMMA NeedSecondStep ==
  ASSUME PoolIInv, NEW h \in Handler, NeedSecond(h) PROVE PoolIInv'
BY TenantPoolAssumption
   DEF NeedSecond, PoolIInv, PoolTypeOK, HoldsConns, OwnPath, Session, Free, HasConn

LEMMA AcquireSecondStep ==
  ASSUME PoolIInv, NEW h \in Handler, NEW c \in Conn, AcquireSecond(h, c) PROVE PoolIInv'
BY TenantPoolAssumption
   DEF AcquireSecond, PoolIInv, PoolTypeOK, HoldsConns, OwnPath, Session, Free, HasConn

LEMMA ReleaseSecondStep ==
  ASSUME PoolIInv, NEW h \in Handler, ReleaseSecond(h) PROVE PoolIInv'
BY TenantPoolAssumption
   DEF ReleaseSecond, PoolIInv, PoolTypeOK, HoldsConns, OwnPath, Session, Free, HasConn

LEMMA CloseConnStep ==
  ASSUME PoolIInv, NEW h \in Handler, CloseConn(h) PROVE PoolIInv'
BY TenantPoolAssumption
   DEF CloseConn, PoolIInv, PoolTypeOK, HoldsConns, OwnPath, Session, NoSession, Free, HasConn

LEMMA FreeConnStep ==
  ASSUME PoolIInv, NEW c \in Conn, Expire(c) \/ ApplyTenantDDL(c) PROVE PoolIInv'
BY TenantPoolAssumption
   DEF Expire, ApplyTenantDDL, PoolIInv, PoolTypeOK, HoldsConns, OwnPath, Session, Free, HasConn

-----------------------------------------------------------------------------

\* The invariant holds throughout.
THEOREM PoolInvariance == PoolSpec => []PoolIInv
<1>1. PoolIInv /\ [PoolNext]_poolVars => PoolIInv'
  <2> SUFFICES ASSUME PoolIInv, [PoolNext]_poolVars PROVE PoolIInv'
    OBVIOUS
  <2>1. CASE \E h \in Handler, s \in Schema : Begin(h, s)
    BY <2>1, BeginStep
  <2>2. CASE \E h \in Handler, c \in Conn : TenantConn(h, c)
    BY <2>2, TenantConnStep
  <2>3. CASE \E h \in Handler, c \in Conn : AcquireSecond(h, c)
    BY <2>3, AcquireSecondStep
  <2>4. CASE \E h \in Handler : SetSearchPath(h)
    BY <2>4, SetSearchPathStep
  <2>5. CASE \E h \in Handler : SetSearchPathFails(h)
    BY <2>5, SetSearchPathFailsStep
  <2>6. CASE \E h \in Handler : NeedSecond(h)
    BY <2>6, NeedSecondStep
  <2>7. CASE \E h \in Handler : ReleaseSecond(h)
    BY <2>7, ReleaseSecondStep
  <2>8. CASE \E h \in Handler : CloseConn(h)
    BY <2>8, CloseConnStep
  <2>9. CASE \E c \in Conn : Expire(c) \/ ApplyTenantDDL(c)
    BY <2>9, FreeConnStep
  <2>10. CASE UNCHANGED poolVars
    BY <2>10 DEF poolVars, PoolIInv, PoolTypeOK, HoldsConns, OwnPath, Free, HasConn
  <2> QED
    BY <2>1, <2>2, <2>3, <2>4, <2>5, <2>6, <2>7, <2>8, <2>9, <2>10 DEF PoolNext
<1> QED
  BY PoolInitIInv, <1>1, PTL DEF PoolSpec

\* No statement of a session reaches the tables of another company (OwnTables), for
\* every number of connections and of handlers.
THEOREM OwnTablesHolds == PoolSpec => []OwnTables
<1>1. PoolIInv => OwnTables
  <2> SUFFICES ASSUME PoolIInv PROVE OwnTables
    OBVIOUS
  <2>1. ASSUME NEW h \in Handler, run[h].step \in {"work", "second", "plain"},
               NEW t \in TenantTable
        PROVE  Finds(run[h].conn, t) = run[h].schema
    BY <2>1 DEF PoolIInv, OwnPath, Finds
  <2>2. ASSUME NEW h \in Handler, NEW t \in PublicTable
        PROVE  Finds(run[h].second, t) = Public
    BY TenantPoolAssumption DEF Finds
  <2> QED
    BY <2>1, <2>2 DEF OwnTables
<1> QED
  BY PoolInvariance, <1>1, PTL

\* The handlers never all wait while the pool is empty (NotStuck): who waits has at
\* most one connection, so their number bounds the connections that are taken.
THEOREM NotStuckHolds == PoolSpec => []NotStuck
<1>1. PoolIInv => NotStuck
  <2> SUFFICES ASSUME PoolIInv, \A c \in Conn : ~Free(c),
                      \A h \in Handler : Waits(h) \/ run[h].step = "idle"
               PROVE  FALSE
    BY DEF NotStuck
  <2> DEFINE owner == [c \in Conn |-> held[c]]
  <2>1. \A h \in Handler : run[h].step \in {"acquire", "second", "idle"}
    BY DEF Waits
  <2>2. \A c \in Conn : held[c] \in Handler
    BY DEF PoolIInv, PoolTypeOK, Free
  <2>3. \A c \in Conn : run[held[c]].conn = c
    BY <2>1, <2>2 DEF PoolIInv, HoldsConns, HasConn
  <2>4. owner \in Injection(Conn, Handler)
    BY <2>2, <2>3 DEF Injection, IsInjective
  <2>5. Cardinality(Conn) <= Cardinality(Handler)
    BY <2>4, TenantPoolAssumption, FS_Injection
  <2>6. Cardinality(Conn) \in Nat /\ Cardinality(Handler) \in Nat
    BY TenantPoolAssumption, FS_CardinalityType
  <2> QED
    BY <2>5, <2>6, TenantPoolAssumption
<1> QED
  BY PoolInvariance, <1>1, PTL

-----------------------------------------------------------------------------
(* Migrations *)

ReadIsRecorded == \A r \in Replica : boot[r].applied \subseteq recorded

AtIsFirst ==
  \A r \in Replica : boot[r].step \in {"exec", "record"} =>
    /\ boot[r].at \in Version
    /\ \A u \in Version : u < boot[r].at => u \in boot[r].applied

UpIsComplete == \A r \in Replica : boot[r].step = "up" => Version \subseteq boot[r].applied

MigrationsIInv == /\ MigrationsTypeOK
        /\ AppliedOnceInOrder
        /\ ReadIsRecorded
        /\ AtIsFirst
        /\ UpIsComplete

-----------------------------------------------------------------------------

LEMMA VersionIsNat == Version \subseteq Nat
BY MigrationsAssumption DEF Version

LEMMA MigrationsInitIInv == MigrationsInit => MigrationsIInv
<1> SUFFICES ASSUME MigrationsInit PROVE MigrationsIInv
  OBVIOUS
<1>1. Down \in Booting
  BY MigrationsAssumption DEF Down, Booting
<1>2. MigrationsTypeOK
  BY <1>1 DEF MigrationsInit, MigrationsTypeOK
<1>3. AppliedOnceInOrder
  BY DEF MigrationsInit, AppliedOnceInOrder
<1>4. ReadIsRecorded /\ AtIsFirst /\ UpIsComplete
  BY DEF MigrationsInit, ReadIsRecorded, AtIsFirst, UpIsComplete, Down
<1> QED
  BY <1>2, <1>3, <1>4 DEF MigrationsIInv

\* A step of one replica that records nothing.
LEMMA BootStep ==
  ASSUME MigrationsIInv, NEW r \in Replica, NEW b \in Booting,
         boot' = [boot EXCEPT ![r] = b], UNCHANGED <<recorded, ran>>,
         b.applied \subseteq recorded,
         b.step \in {"exec", "record"} =>
           b.at \in Version /\ \A u \in Version : u < b.at => u \in b.applied,
         b.step = "up" => Version \subseteq b.applied
  PROVE  MigrationsIInv'
<1>1. \A s \in Replica : boot'[s] = IF s = r THEN b ELSE boot[s]
  BY DEF MigrationsIInv, MigrationsTypeOK
<1>2. MigrationsTypeOK'
  BY DEF MigrationsIInv, MigrationsTypeOK
<1>3. AppliedOnceInOrder'
  BY DEF MigrationsIInv, AppliedOnceInOrder
<1>4. ReadIsRecorded'
  BY <1>1 DEF MigrationsIInv, ReadIsRecorded
<1>5. AtIsFirst'
  BY <1>1 DEF MigrationsIInv, AtIsFirst
<1>6. UpIsComplete'
  BY <1>1 DEF MigrationsIInv, UpIsComplete
<1> QED
  BY <1>2, <1>3, <1>4, <1>5, <1>6 DEF MigrationsIInv

LEMMA ReadAppliedStep ==
  ASSUME MigrationsIInv, NEW r \in Replica, ReadApplied(r) PROVE MigrationsIInv'
<1> DEFINE b == [step |-> "apply", applied |-> recorded, at |-> 0]
<1>1. b \in Booting
  BY MigrationsAssumption DEF MigrationsIInv, MigrationsTypeOK, Booting
<1>2. boot' = [boot EXCEPT ![r] = b] /\ UNCHANGED <<recorded, ran>>
  BY DEF ReadApplied
<1>3. b.step = "apply" /\ b.applied = recorded
  OBVIOUS
<1> HIDE DEF b
<1> QED
  BY <1>1, <1>2, <1>3, BootStep

LEMMA BeginMigrationStep ==
  ASSUME MigrationsIInv, NEW r \in Replica, BeginMigration(r) PROVE MigrationsIInv'
<1>1. PICK v \in Pending(r) :
        /\ \A u \in Pending(r) : v <= u
        /\ boot' = [boot EXCEPT ![r] = [step |-> "exec", applied |-> boot[r].applied, at |-> v]]
  BY DEF BeginMigration
<1> DEFINE b == [step |-> "exec", applied |-> boot[r].applied, at |-> v]
<1>2. v \in Version
  BY <1>1 DEF Pending
<1>3. boot[r] \in Booting
  BY DEF MigrationsIInv, MigrationsTypeOK
<1>4. /\ b \in Booting
      /\ b.step = "exec" /\ b.at = v /\ b.applied = boot[r].applied
  BY <1>2, <1>3, MigrationsAssumption DEF Booting, Version
<1>5. boot' = [boot EXCEPT ![r] = b]
  BY <1>1
<1> HIDE DEF b
<1>6. ASSUME NEW u \in Version, u < v PROVE u \in boot[r].applied
  <2>1. ~(v <= u)
    BY <1>2, <1>6, VersionIsNat
  <2> QED
    BY <1>1, <2>1 DEF Pending
<1>7. b.applied \subseteq recorded /\ UNCHANGED <<recorded, ran>>
  BY <1>4 DEF MigrationsIInv, ReadIsRecorded, BeginMigration
<1> QED
  BY <1>2, <1>4, <1>5, <1>6, <1>7, BootStep

LEMMA ExecMigrationStep ==
  ASSUME MigrationsIInv, NEW r \in Replica, ExecMigration(r) PROVE MigrationsIInv'
<1> DEFINE b == [boot[r] EXCEPT !.step = "record"]
<1>1. boot[r] \in Booting
  BY DEF MigrationsIInv, MigrationsTypeOK
<1>2. /\ b \in Booting
      /\ b.step = "record" /\ b.at = boot[r].at /\ b.applied = boot[r].applied
  BY <1>1 DEF Booting
<1>3. boot' = [boot EXCEPT ![r] = b] /\ UNCHANGED <<recorded, ran>>
  BY <1>1 DEF ExecMigration, Booting
<1> HIDE DEF b
<1>4. b.at \in Version /\ \A u \in Version : u < b.at => u \in b.applied
  BY <1>2 DEF MigrationsIInv, AtIsFirst, ExecMigration
<1>5. b.applied \subseteq recorded
  BY <1>2 DEF MigrationsIInv, ReadIsRecorded
<1> QED
  BY <1>2, <1>3, <1>4, <1>5, BootStep

LEMMA CommitMigrationStep ==
  ASSUME MigrationsIInv, NEW r \in Replica, CommitMigration(r) PROVE MigrationsIInv'
<1> DEFINE v == boot[r].at
           b == [step |-> "apply", applied |-> boot[r].applied \cup {v}, at |-> 0]
<1>1. boot[r] \in Booting /\ boot[r].step = "record"
  BY DEF MigrationsIInv, MigrationsTypeOK, CommitMigration
<1>2. /\ v \in Version /\ v \notin recorded
      /\ \A u \in Version : u < v => u \in recorded
  BY <1>1 DEF MigrationsIInv, AtIsFirst, ReadIsRecorded, CommitMigration
<1>3. /\ b \in Booting
      /\ b.step = "apply" /\ b.applied = boot[r].applied \cup {v}
  BY <1>1, <1>2, MigrationsAssumption DEF Booting
<1>4. boot' = [boot EXCEPT ![r] = b]
  BY DEF CommitMigration
<1>5. recorded' = recorded \cup {v} /\ ran' = [ran EXCEPT ![v] = @ + 1]
  BY DEF CommitMigration
<1> HIDE DEF b, v
<1>6. \A s \in Replica : boot'[s] = IF s = r THEN b ELSE boot[s]
  BY <1>4 DEF MigrationsIInv, MigrationsTypeOK
<1>7. MigrationsTypeOK'
  BY <1>2, <1>3, <1>4, <1>5 DEF MigrationsIInv, MigrationsTypeOK
<1>8. AppliedOnceInOrder'
  <2>1. ASSUME NEW u \in Version
        PROVE  ran'[u] = IF u \in recorded' THEN 1 ELSE 0
    BY <1>2, <1>5, <2>1 DEF MigrationsIInv, MigrationsTypeOK, AppliedOnceInOrder
  <2>2. ASSUME NEW w \in recorded', NEW u \in Version, u < w
        PROVE  u \in recorded'
    BY <1>2, <1>5, <2>2 DEF MigrationsIInv, AppliedOnceInOrder
  <2> QED
    BY <2>1, <2>2 DEF AppliedOnceInOrder
<1>9. ReadIsRecorded'
  BY <1>3, <1>5, <1>6 DEF MigrationsIInv, ReadIsRecorded
<1>10. AtIsFirst' /\ UpIsComplete'
  BY <1>3, <1>6 DEF MigrationsIInv, AtIsFirst, UpIsComplete
<1> QED
  BY <1>7, <1>8, <1>9, <1>10 DEF MigrationsIInv

LEMMA ServeStep ==
  ASSUME MigrationsIInv, NEW r \in Replica, Serve(r) PROVE MigrationsIInv'
<1> DEFINE b == [boot[r] EXCEPT !.step = "up"]
<1>1. boot[r] \in Booting
  BY DEF MigrationsIInv, MigrationsTypeOK
<1>2. b \in Booting /\ b.step = "up" /\ b.applied = boot[r].applied
  BY <1>1 DEF Booting
<1>3. boot' = [boot EXCEPT ![r] = b] /\ UNCHANGED <<recorded, ran>>
  BY <1>1 DEF Serve, Booting
<1> HIDE DEF b
<1>4. Version \subseteq b.applied
  BY <1>2 DEF Serve, Pending
<1>5. b.applied \subseteq recorded
  BY <1>2 DEF MigrationsIInv, ReadIsRecorded
<1> QED
  BY <1>2, <1>3, <1>4, <1>5, BootStep

LEMMA ExitOrDieStep ==
  ASSUME MigrationsIInv, NEW r \in Replica, ExitOrDie(r) PROVE MigrationsIInv'
<1>1. /\ Down \in Booting
      /\ Down.step = "down" /\ Down.applied = {}
  BY MigrationsAssumption DEF Down, Booting
<1>2. boot' = [boot EXCEPT ![r] = Down] /\ UNCHANGED <<recorded, ran>>
  BY DEF ExitOrDie
<1> QED
  BY <1>1, <1>2, BootStep

-----------------------------------------------------------------------------

\* The invariant holds throughout.
THEOREM MigrationsInvariance == MigrationsSpec => []MigrationsIInv
<1>1. MigrationsIInv /\ [MigrationsNext]_migrationsVars => MigrationsIInv'
  <2> SUFFICES ASSUME MigrationsIInv, [MigrationsNext]_migrationsVars PROVE MigrationsIInv'
    OBVIOUS
  <2>1. CASE MigrationsNext
    BY <2>1, ReadAppliedStep, BeginMigrationStep, ExecMigrationStep, CommitMigrationStep,
       ServeStep, ExitOrDieStep DEF MigrationsNext
  <2>2. CASE UNCHANGED migrationsVars
    BY <2>2 DEF migrationsVars, MigrationsIInv, MigrationsTypeOK, AppliedOnceInOrder, ReadIsRecorded,
                AtIsFirst, UpIsComplete
  <2> QED
    BY <2>1, <2>2
<1> QED
  BY MigrationsInitIInv, <1>1, PTL DEF MigrationsSpec

\* Every version that is recorded was run once, and those before it too, however many
\* replicas start and die together (AppliedOnceInOrder).
THEOREM AppliedOnceInOrderHolds == MigrationsSpec => []AppliedOnceInOrder
<1>1. MigrationsIInv => AppliedOnceInOrder
  BY DEF MigrationsIInv
<1> QED
  BY MigrationsInvariance, <1>1, PTL

\* A replica serves only on a complete schema (ServesComplete).
THEOREM ServesCompleteHolds == MigrationsSpec => []ServesComplete
<1>1. MigrationsIInv => ServesComplete
  BY DEF MigrationsIInv, MigrationsTypeOK, ReadIsRecorded, UpIsComplete, ServesComplete
<1> QED
  BY MigrationsInvariance, <1>1, PTL

=============================================================================
