----------------------------- MODULE PastoWorkers -----------------------------
(***************************************************************************)
(* The workers of the ADD and the companies they report.  A workspace buys *)
(* a worker at Pasto, the worker's credentials are sent to it, and it then *)
(* reports the list of its companies, with which the table pasto_company   *)
(* is brought in line statement by statement, without a transaction.       *)
(*                                                                         *)
(* Left out: LOCAL_INFRA, where Pasto is not called; a purchase that Pasto *)
(* accepts with an answer without an id, which is stored as an empty one.  *)
(***************************************************************************)
EXTENDS Naturals, FiniteSets

CONSTANTS
  Site,        \* workspaces
  Purchase,    \* calls of CreateWorker, each made once (a bound of the model)
  Firm,        \* companies, which may be linked to a company of the ADD
  RawId,       \* ids as the ADD writes them
  Lower,       \* Lower[i]: i in lower case, as the table has it
  Report,      \* deliveries of the list, each made once (a bound of the model)
  PastoFaults  \* subset of {"login", "pasto", "answer", "db", "kill"}

PastoId == {Lower[i] : i \in RawId}

ASSUME PastoWorkersAssumption ==
  /\ Lower \in [RawId -> RawId]
  /\ \A p \in PastoId : Lower[p] = p

VARIABLES
  made,      \* made[w]: workers that Pasto has made for workspace w
  site,      \* site[w]: columns of the row of workspace w
  purchase,  \* the calls of CreateWorker
  orphaned,  \* history: workspaces that did not hear of, or could not store, a worker
  connector, \* connector[w]: Pasto has the credentials of the worker of w
  refused,   \* history: workspaces whose credentials Pasto did not take
  reset,     \* licences: those Pasto has reset, and those announced as reset
  owner,     \* owner[p]: the workspaces with a row for company p of the ADD
  link,      \* pairs <<firm, company of the ADD>> (column of company, a foreign key)
  report     \* the deliveries of the list

workerVars == <<made, site, purchase, orphaned>>
configVars == <<connector, refused, reset>>
listVars == <<owner, link, report>>
pastoVars == <<workerVars, configVars, listVars>>

\* "worker" is the number Pasto gave, 0 for none.  "missed" is a history: a worker
\* was being made when the call looked, or has been made since.
NoPurchase == [step |-> "none", site |-> CHOOSE w \in Site : TRUE, worker |-> 0, missed |-> FALSE]

NoReport == [step |-> "none", site |-> CHOOSE w \in Site : TRUE, listed |-> {}, existing |-> {},
             todo |-> {}, alone |-> TRUE]

PastoInit ==
  /\ made = [w \in Site |-> 0]
  /\ site = [w \in Site |-> [worker |-> 0, installed |-> FALSE]]
  /\ purchase = [k \in Purchase |-> NoPurchase]
  /\ orphaned = {}
  /\ connector = [w \in Site |-> FALSE]
  /\ refused = {}
  /\ reset = [done |-> {}, announced |-> {}]
  /\ owner = [p \in PastoId |-> {}]
  /\ link = {}
  /\ report = [d \in Report |-> NoReport]

-----------------------------------------------------------------------------
(* Workers *)

\* A worker was made for the workspace and is not stored yet.
BeingStored(w) == \E j \in Purchase : purchase[j].step = "store" /\ purchase[j].site = w

\* Variant: nobody looks whether there is a worker.
CreateWorkerUnchecked(k, w) ==
  /\ purchase[k].step = "none"
  /\ purchase' = [purchase EXCEPT ![k] = [NoPurchase EXCEPT !.step = "buy", !.site = w,
                                            !.missed = BeingStored(w)]]
  /\ UNCHANGED <<made, site, orphaned, configVars, listVars>>

\* The row is read: a workspace with a worker is refused.
CreateWorker(k, w) ==
  /\ purchase[k].step = "none"
  /\ site[w].worker = 0
  /\ purchase' = [purchase EXCEPT ![k] = [NoPurchase EXCEPT !.step = "buy", !.site = w,
                                            !.missed = BeingStored(w)]]
  /\ UNCHANGED <<made, site, orphaned, configVars, listVars>>

\* Bought: the calls after Pasto has made worker n for k.
Bought(k, n, step) ==
  [j \in Purchase |->
     IF j = k THEN [purchase[k] EXCEPT !.step = step, !.worker = n]
     ELSE IF purchase[j].step = "buy" /\ purchase[j].site = purchase[k].site
     THEN [purchase[j] EXCEPT !.missed = TRUE]
     ELSE purchase[j]]

BuyWorker(k) ==
  /\ purchase[k].step = "buy"
  /\ LET w == purchase[k].site IN
     /\ made' = [made EXCEPT ![w] = @ + 1]
     /\ purchase' = Bought(k, made[w] + 1, "store")
  /\ UNCHANGED <<site, orphaned, configVars, listVars>>

\* Pasto makes the worker, and its answer is lost or cannot be read.
BuyWorkerUnheard(k) ==
  /\ "answer" \in PastoFaults
  /\ purchase[k].step = "buy"
  /\ LET w == purchase[k].site IN
     /\ made' = [made EXCEPT ![w] = @ + 1]
     /\ orphaned' = orphaned \cup {w}
     /\ purchase' = Bought(k, 0, "done")
  /\ UNCHANGED <<site, configVars, listVars>>

BuyWorkerRefused(k) ==
  /\ {"login", "pasto", "kill"} \cap PastoFaults # {}
  /\ purchase[k].step = "buy"
  /\ purchase' = [purchase EXCEPT ![k].step = "done"]
  /\ UNCHANGED <<made, site, orphaned, configVars, listVars>>

\* UPDATE of the workspace, and the event with the worker that was stored.
StoreWorker(k) ==
  /\ purchase[k].step = "store"
  /\ site' = [site EXCEPT ![purchase[k].site].worker = purchase[k].worker]
  /\ purchase' = [purchase EXCEPT ![k].step = "done"]
  /\ UNCHANGED <<made, orphaned, configVars, listVars>>

StoreWorkerFails(k) ==
  /\ {"db", "kill"} \cap PastoFaults # {}
  /\ purchase[k].step = "store"
  /\ orphaned' = orphaned \cup {purchase[k].site}
  /\ purchase' = [purchase EXCEPT ![k].step = "done"]
  /\ UNCHANGED <<made, site, configVars, listVars>>

-----------------------------------------------------------------------------
(* Configuration and licence *)

\* The worker reports its database: the credentials go to Pasto, and the workspace is
\* marked as installed even when Pasto does not take them.  A login that fails, or a
\* report with an error, ends the call.
ConfigWebhook(w) ==
  /\ \/ connector' = [connector EXCEPT ![w] = TRUE] /\ UNCHANGED refused
     \/ "pasto" \in PastoFaults /\ refused' = refused \cup {w} /\ UNCHANGED connector
  /\ \/ site' = [site EXCEPT ![w].installed = TRUE]
     \/ "db" \in PastoFaults /\ UNCHANGED site
  /\ UNCHANGED <<made, purchase, orphaned, reset, listVars>>

\* The event follows an answer 200 only; the answer, or the event, may be lost.
ResetLicense(w) ==
  /\ reset' \in {[done |-> reset.done \cup {w}, announced |-> reset.announced \cup {w}],
                 [reset EXCEPT !.done = @ \cup {w}]}
  /\ UNCHANGED <<workerVars, connector, refused, listVars>>

-----------------------------------------------------------------------------
(* The list of companies *)

\* Variant: ids are compared as the ADD writes them.
ListedAsWritten(ids) == ids

\* Rows with every field, their ids in lower case.
Listed(ids) == {Lower[i] : i \in ids}

\* The calls that are at work on the table.
Running(d) == report[d].step \in {"delete", "upsert"}

RowsOf(w) == {p \in PastoId : w \in owner[p]}

\* A list that is empty is refused; one without a complete row empties the table.
CompanyWebhook(d, w, ids) ==
  /\ report[d].step = "none"
  /\ report' = [e \in Report |->
       IF e = d THEN [step |-> "delete", site |-> w, listed |-> Listed(ids), existing |-> RowsOf(w),
                      todo |-> Listed(ids),
                      alone |-> \A f \in Report \ {d} : ~Running(f)]
       ELSE IF Running(e) THEN [report[e] EXCEPT !.alone = FALSE]
       ELSE report[e]]
  /\ UNCHANGED <<workerVars, configVars, owner, link>>

ToDelete(d) == report[d].existing \ report[d].listed

\* With the rows go the links to them (ON DELETE SET NULL).
DeleteMissing(d) ==
  /\ report[d].step = "delete"
  /\ LET w == report[d].site
         gone == {p \in ToDelete(d) : w \in owner[p]}
     IN /\ owner' = [p \in PastoId |-> IF p \in gone THEN {} ELSE owner[p]]
        /\ link' = {l \in link : l[2] \notin gone}
  /\ report' = [report EXCEPT ![d].step = "upsert"]
  /\ UNCHANGED <<workerVars, configVars>>

\* The rows of the list in the order of a Go map: one that existed is updated, another
\* inserted (a UUID, so in lower case), which the primary key refuses for the company
\* of another workspace.  Both errors are logged.
Upsert(d, p) ==
  /\ report[d].step = "upsert" /\ p \in report[d].todo
  /\ owner' = IF p \notin report[d].existing /\ owner[Lower[p]] = {}
              THEN [owner EXCEPT ![Lower[p]] = {report[d].site}] ELSE owner
  /\ report' = [report EXCEPT ![d].todo = @ \ {p}]
  /\ UNCHANGED <<workerVars, configVars, link>>

\* A statement fails and is logged: the next one runs.
StatementFails(d) ==
  /\ "db" \in PastoFaults
  /\ \/ report[d].step = "delete"
        /\ report' = [report EXCEPT ![d].step = "upsert", ![d].alone = FALSE]
     \/ \E p \in report[d].todo :
          /\ report[d].step = "upsert"
          /\ report' = [report EXCEPT ![d].todo = @ \ {p}, ![d].alone = FALSE]
  /\ UNCHANGED <<workerVars, configVars, owner, link>>

ReportEnds(d) ==
  /\ report[d].step = "upsert" /\ report[d].todo = {}
  /\ report' = [report EXCEPT ![d] = [NoReport EXCEPT !.step = "done"]]
  /\ UNCHANGED <<workerVars, configVars, owner, link>>

ReportDies(d) ==
  /\ "kill" \in PastoFaults
  /\ Running(d)
  /\ report' = [report EXCEPT ![d] = [NoReport EXCEPT !.step = "died"]]
  /\ UNCHANGED <<workerVars, configVars, owner, link>>

\* PUT /api/Company: a company is linked to a row of the table, of whichever workspace.
Link(f, p) ==
  /\ owner[p] # {}
  /\ link' = {l \in link : l[1] # f} \cup {<<f, p>>}
  /\ UNCHANGED <<workerVars, configVars, owner, report>>

WorkersNext ==
  \E k \in Purchase :
    \/ \E w \in Site : CreateWorker(k, w)
    \/ BuyWorker(k)
    \/ BuyWorkerUnheard(k)
    \/ BuyWorkerRefused(k)
    \/ StoreWorker(k)
    \/ StoreWorkerFails(k)

ConfigNext == \E w \in Site : ConfigWebhook(w) \/ ResetLicense(w)

ListNext ==
  \/ \E d \in Report :
       \/ \E w \in Site, ids \in SUBSET RawId : CompanyWebhook(d, w, ids)
       \/ DeleteMissing(d)
       \/ \E p \in RawId : Upsert(d, p)
       \/ StatementFails(d)
       \/ ReportEnds(d)
       \/ ReportDies(d)
  \/ \E f \in Firm, p \in PastoId : Link(f, p)

PastoNext == WorkersNext \/ ConfigNext \/ ListNext

PastoSpec == PastoInit /\ [][PastoNext]_pastoVars

-----------------------------------------------------------------------------
(* Properties *)

\* A workspace buys a second worker only when two calls overlap, or when a worker was
\* made that the workspace never stored: neither refusals of Pasto nor calls made
\* again after a success lead to one.
SecondWorkerNeedsOverlap ==
  [][\A k \in Purchase, w \in Site :
       made'[w] > made[w] /\ made[w] > 0 /\ purchase[k].site = w
         /\ purchase[k].step = "buy" /\ purchase'[k].step # "buy" =>
           purchase[k].missed \/ w \in orphaned]_pastoVars

\* What is stored or announced, Pasto has done: a workspace is installed after its
\* worker got credentials, or Pasto refused them; a reset is announced after Pasto
\* made it.
PastoDidIt ==
  /\ \A w \in Site : site[w].installed => connector[w] \/ w \in refused
  /\ reset.announced \subseteq reset.done

\* The companies that the list names.
Named(d) == {Lower[i] : i \in report[d].listed}

\* After a list that no other overlapped and of which no statement failed, the
\* workspace has the companies listed, but for those of other workspaces.
ListIsKept ==
  [][\A d \in Report :
       report[d].step = "upsert" /\ report'[d].step = "done" /\ report[d].alone =>
         RowsOf(report[d].site) =
           {p \in Named(d) : owner[p] \subseteq {report[d].site}}]_pastoVars

\* The link of a company to its company of the ADD is cut only by a list without it,
\* however lists and links interleave, or when the company is linked anew.
LinkIsKept ==
  [][\A l \in link : l \notin link' =>
       \/ \E p \in PastoId : <<l[1], p>> \in link' \ link
       \/ \E d \in Report : /\ report[d].step = "delete" /\ report'[d].step = "upsert"
                            /\ l[2] \notin Named(d)]_pastoVars

\* What a workspace stores and what Pasto made agree: one worker, with credentials, and
\* no reset that was not made, but for the failures and overlaps that are named.
WorkersAgree == SecondWorkerNeedsOverlap /\ []PastoDidIt

\* A list is applied as it is, and the links of the companies on it survive it.
ListsAreApplied == ListIsKept /\ LinkIsKept

=============================================================================
