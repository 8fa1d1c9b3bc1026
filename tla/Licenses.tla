------------------------------- MODULE Licenses -------------------------------
(***************************************************************************)
(* Workspaces with their licence, a JSON document in one column, and the   *)
(* subscriptions that the owners have at Stripe.  The handlers read the    *)
(* licence, change a key of it in memory and write it back whole; the one  *)
(* that changes a subscription makes several calls to Stripe, one after    *)
(* the other, and looks at few of their errors.  A deployment talks to     *)
(* Stripe or mocks it (MOCK_STRIPE).                                       *)
(*                                                                         *)
(* Faults: "list", Stripe's lists come back empty (their errors are not    *)
(* looked at); "cancel", "create" and "finalize", the call fails; "db", a  *)
(* statement fails; "kill", the process stops.                             *)
(* Bounds: Caller calls at a time; MaxSubscriptions.                       *)
(***************************************************************************)
EXTENDS Naturals, Sequences

CONSTANTS
  Workspace,
  Owner,            \* the user who owns each workspace
  LicenseKey,       \* the keys of a licence
  Caller,
  MaxSubscriptions,
  Mock,             \* the values of MOCK_STRIPE considered
  LicenseFaults

ASSUME LicensesAssumption ==
  /\ {"details", "stripe_status"} \subseteq LicenseKey
  /\ LicenseKey \cap {"products", "limits"} = {}
  /\ MaxSubscriptions \in Nat

VARIABLES
  mock,
  workspace,   \* the rows that exist
  subs,        \* Stripe's subscriptions, oldest first, by customer
  setter,      \* the calls in flight
  late,        \* history: calls whose licence or subscription changed meanwhile
  unserved     \* history: customers whose new subscription was not created

licensesVars == <<mock, workspace, subs, setter, late, unserved>>

Customer == {Owner[w] : w \in Workspace}

\* The value of "details" is an object, with the products and the limits of the
\* workspace; every other key is of one part.
PartsOf(k) == IF k = "details" THEN {"products", "limits"} ELSE {k}

LicensePart == (LicenseKey \ {"details"}) \cup PartsOf("details")

\* What the licence was created with, or what a call has written; a "details" that
\* is no object has no parts.
LicenseValue == Caller \cup {"default", "admin", "active", "absent"}

License == [LicensePart -> LicenseValue]

DefaultLicense == [p \in LicensePart |-> "default"]

WithParts(license, parts, v) == [p \in LicensePart |-> IF p \in parts THEN v ELSE license[p]]

StripeStatus == {"trial", "active"}

WorkspaceRow == [license : License, status : StripeStatus]

\* "ended" is a history: whether a call of the backend has cancelled it.
Subscription == [status : {"active", "past_due", "canceled"}, trial : BOOLEAN,
                 ended : {"no", "call"}]

\* Nothing in flight.
Quiet == [step |-> "idle", workspace |-> CHOOSE w \in Workspace : TRUE,
          license |-> DefaultLicense, key |-> "details", todo |-> {}, sub |-> 0, blind |-> FALSE]

\* A customer comes with the trial that the CRM has made, or with nothing.
LicensesInit ==
  /\ mock \in Mock
  /\ workspace = [w \in {} |-> {}]
  /\ subs \in [Customer -> {<<>>, <<[status |-> "active", trial |-> TRUE, ended |-> "no"]>>}]
  /\ setter = [c \in Caller |-> Quiet]
  /\ late = {}
  /\ unserved = {}

Existing == DOMAIN workspace

Exists(w) == w \in Existing

Finish(c) == setter' = [setter EXCEPT ![c] = Quiet]

Go(c, step) == setter' = [setter EXCEPT ![c].step = step]

\* The other calls on this workspace, or on this customer, work with old data.
Late(c, w) ==
  late' = (late \ {c}) \cup {d \in Caller \ {c} : setter[d].step # "idle" /\ setter[d].workspace = w}

-----------------------------------------------------------------------------
(* Workspaces *)

\* Create, and createDefaultWorkspace: a trial with the default licence.
CreateWorkspace(w) ==
  /\ ~Exists(w)
  /\ workspace' = [v \in Existing \cup {w} |->
                     IF v = w THEN [license |-> DefaultLicense, status |-> "trial"]
                              ELSE workspace[v]]
  /\ UNCHANGED <<mock, subs, setter, late, unserved>>

\* Update takes every column but the licence.
UpdateWorkspace(w, status) ==
  /\ Exists(w)
  /\ workspace' = [workspace EXCEPT ![w].status = status]
  /\ UNCHANGED <<mock, subs, setter, late, unserved>>

DeleteWorkspace(w) ==
  /\ Exists(w)
  /\ workspace' = [v \in Existing \ {w} |-> workspace[v]]
  /\ late' = late \cup {d \in Caller : setter[d].step # "idle" /\ setter[d].workspace = w}
  /\ UNCHANGED <<mock, subs, setter, unserved>>

WriteLicense(w, license) ==
  workspace' = IF Exists(w) THEN [workspace EXCEPT ![w].license = license] ELSE workspace

-----------------------------------------------------------------------------
(* Licences *)

\* PUT /api/Workspace/{id}/license/{key}: the row is read ...
SetLicenseKey(c, w, k) ==
  /\ setter[c].step = "idle"
  /\ Exists(w)
  /\ setter' = [setter EXCEPT ![c] = [Quiet EXCEPT !.step = "write", !.workspace = w,
                                        !.license = workspace[w].license, !.key = k]]
  /\ UNCHANGED <<mock, workspace, subs, late, unserved>>

\* The value given may be any JSON: also for "details" something that is no object.
KeyValues(c) == IF setter[c].key = "details" THEN {c, "absent"} ELSE {c}

\* ... and written with the new value.
WriteKey(c) ==
  /\ setter[c].step = "write"
  /\ \E v \in KeyValues(c) :
       WriteLicense(setter[c].workspace,
                    WithParts(setter[c].license, PartsOf(setter[c].key), v))
  /\ Late(c, setter[c].workspace)
  /\ Finish(c)
  /\ UNCHANGED <<mock, subs, unserved>>

\* PUT /api/License of an administrator: whole licences, one UPDATE each.
PutLicenses(c, ws) ==
  /\ setter[c].step = "idle"
  /\ ws # {}
  /\ setter' = [setter EXCEPT ![c] = [Quiet EXCEPT !.step = "put", !.todo = ws]]
  /\ UNCHANGED <<mock, workspace, subs, late, unserved>>

\* A failure is logged and the next licence written.
PutLicense(c) ==
  /\ setter[c].step = "put"
  /\ \E w \in setter[c].todo :
       /\ \/ /\ WriteLicense(w, [p \in LicensePart |-> "admin"])
             /\ Late(c, w)
          \/ /\ "db" \in LicenseFaults
             /\ UNCHANGED <<workspace, late>>
       /\ IF setter[c].todo = {w} THEN Finish(c)
                                  ELSE setter' = [setter EXCEPT ![c].todo = @ \ {w}]
  /\ UNCHANGED <<mock, subs, unserved>>

-----------------------------------------------------------------------------
(* POST /api/License/set *)

\* The row is read; its owner is the caller and has a Stripe customer.  With
\* MOCK_STRIPE a body without products is answered and nothing written.
SetLicense(c, w) ==
  /\ setter[c].step = "idle"
  /\ Exists(w)
  /\ setter' = [setter EXCEPT ![c] = [Quiet EXCEPT !.step = IF mock THEN "writeMock" ELSE "latest",
                                        !.workspace = w,
                                        !.license = IF mock THEN workspace[w].license ELSE @]]
  /\ UNCHANGED <<mock, workspace, subs, late, unserved>>

\* Variant: the details are made anew with the products.
MockLicenseAnew(license, c) ==
  [license EXCEPT !["products"] = c, !["limits"] = "absent", !["stripe_status"] = "active"]

\* The products go into the details, which become an object with nothing else if
\* they were none, and the status into the licence.
MockLicense(license, c) == [license EXCEPT !["products"] = c, !["stripe_status"] = "active"]

\* With MOCK_STRIPE one UPDATE writes the licence and the status of the workspace;
\* its error is not looked at.
WriteMock(c) ==
  LET w == setter[c].workspace IN
  /\ setter[c].step = "writeMock"
  /\ workspace' = IF Exists(w)
                    THEN [workspace EXCEPT ![w] = [license |-> MockLicense(setter[c].license, c),
                                                   status |-> "active"]]
                    ELSE workspace
  /\ Late(c, w)
  /\ Finish(c)
  /\ UNCHANGED <<mock, subs, unserved>>

CustomerOf(c) == Owner[setter[c].workspace]

SubStatus == {"active", "past_due", "canceled"}

\* GetLatestSubscription: the newest of the subscriptions in these states; 0 is nil.
LatestSubscription(customer, statuses) ==
  LET listed == {i \in DOMAIN subs[customer] : subs[customer][i].status \in statuses}
  IN  IF listed = {} THEN 0 ELSE CHOOSE i \in listed : \A j \in listed : j <= i

\* Variant: the status of the subscription is not looked at.
NextStepWhateverStatus(customer, i) ==
  IF i # 0 /\ subs[customer][i].trial THEN "cancel" ELSE "create"

\* A trial is cancelled first; an active subscription is left as it is.
NextStep(customer, i) ==
  CASE i = 0 -> "create"
    [] i # 0 /\ subs[customer][i].trial -> "cancel"
    [] i # 0 /\ ~subs[customer][i].trial /\ subs[customer][i].status # "active" -> "create"
    [] OTHER -> "idle"

\* The three lists, whose errors nobody looks at: one that fails is empty.
GetLatestSubscription(c) ==
  /\ setter[c].step = "latest"
  /\ \E statuses \in IF "list" \in LicenseFaults THEN SUBSET SubStatus ELSE {SubStatus} :
       LET i == LatestSubscription(CustomerOf(c), statuses)
           next == NextStep(CustomerOf(c), i)
       IN  IF next = "idle" THEN Finish(c)
           ELSE setter' = [setter EXCEPT ![c].step = next, ![c].sub = i,
                                         ![c].blind = (statuses # SubStatus)]
  /\ late' = IF setter'[c].step = "idle" THEN late \ {c} ELSE late
  /\ UNCHANGED <<mock, workspace, subs, unserved>>

\* The error of the cancellation is not looked at.
CancelSubscription(c) ==
  /\ setter[c].step = "cancel"
  /\ \/ subs' = [subs EXCEPT ![CustomerOf(c)][setter[c].sub].status = "canceled",
                             ![CustomerOf(c)][setter[c].sub].ended = "call"]
     \/ "cancel" \in LicenseFaults /\ UNCHANGED subs
  /\ Go(c, "create")
  /\ UNCHANGED <<mock, workspace, late, unserved>>

CreateSubscription(c) ==
  /\ setter[c].step = "create"
  /\ Len(subs[CustomerOf(c)]) < MaxSubscriptions
  /\ subs' = [subs EXCEPT ![CustomerOf(c)] =
                Append(@, [status |-> "active", trial |-> FALSE, ended |-> "no"])]
  /\ Go(c, "finalize")
  /\ late' = (late \ {c}) \cup
       {d \in Caller \ {c} : setter[d].step # "idle" /\ CustomerOf(d) = CustomerOf(c)}
  /\ UNCHANGED <<mock, workspace, unserved>>

\* The answer is 400, whatever was cancelled before; so it is when none of the
\* products of the request is known, and Stripe is asked for an empty subscription.
CreateFails(c) ==
  /\ setter[c].step = "create"
  /\ "create" \in LicenseFaults
  /\ unserved' = unserved \cup {CustomerOf(c)}
  /\ Finish(c)
  /\ late' = late \ {c}
  /\ UNCHANGED <<mock, workspace, subs>>

\* Finalised or not, the answer is 200; the workspace is not written.
FinalizeInvoice(c) ==
  /\ setter[c].step = "finalize"
  /\ Finish(c)
  /\ late' = late \ {c}
  /\ UNCHANGED <<mock, workspace, subs, unserved>>

Killed(c) ==
  /\ "kill" \in LicenseFaults
  /\ setter[c].step # "idle"
  /\ unserved' = IF setter[c].step = "create" THEN unserved \cup {CustomerOf(c)} ELSE unserved
  /\ Finish(c)
  /\ late' = late \ {c}
  /\ UNCHANGED <<mock, workspace, subs>>

-----------------------------------------------------------------------------
(* Stripe *)

\* Invoices are paid or not, customers leave, trials end.
StripeChanges(customer, i, status) ==
  /\ ~mock
  /\ i \in DOMAIN subs[customer]
  /\ subs[customer][i].status \notin {status, "canceled"}
  /\ subs' = [subs EXCEPT ![customer][i].status = status]
  /\ late' = late \cup {d \in Caller : setter[d].step # "idle" /\ CustomerOf(d) = customer}
  /\ UNCHANGED <<mock, workspace, setter, unserved>>

\* POST /api/License/paid/alert, when an invoice is paid: the subscription to
\* renew is looked for with an empty customer, and never found.
PaidAlert(customer) ==
  /\ subs[customer] # <<>>
  /\ UNCHANGED licensesVars

LicensesNext ==
  \/ \E w \in Workspace :
       \/ CreateWorkspace(w)
       \/ \E status \in StripeStatus : UpdateWorkspace(w, status)
       \/ DeleteWorkspace(w)
  \/ \E c \in Caller :
       \/ \E w \in Workspace, k \in LicenseKey : SetLicenseKey(c, w, k)
       \/ WriteKey(c)
       \/ \E ws \in SUBSET Workspace : PutLicenses(c, ws)
       \/ PutLicense(c)
       \/ \E w \in Workspace : SetLicense(c, w)
       \/ WriteMock(c)
       \/ GetLatestSubscription(c)
       \/ CancelSubscription(c)
       \/ CreateSubscription(c)
       \/ CreateFails(c)
       \/ FinalizeInvoice(c)
       \/ Killed(c)
  \/ \E customer \in Customer : PaidAlert(customer)
  \/ \E customer \in Customer, i \in 1 .. MaxSubscriptions, status \in SubStatus :
       StripeChanges(customer, i, status)

LicensesSpec == LicensesInit /\ [][LicensesNext]_licensesVars

-----------------------------------------------------------------------------
(* Properties *)

\* What a call is asked to change: the value of a key, or the products, which the
\* mock marks as paid for in the licence.
AskedParts(c) ==
  IF setter[c].step = "write" THEN PartsOf(setter[c].key) ELSE {"products", "stripe_status"}

\* A part of a licence that a call was not asked to set keeps its value, the limits
\* beside the products too, unless the call was overtaken by another that wrote the
\* licence after it had read it.
LicenseKeysKept ==
  [][\A w \in Existing, c \in Caller, p \in LicensePart :
       /\ setter[c].step \in {"write", "writeMock"} /\ setter'[c].step = "idle"
       /\ w \in DOMAIN workspace'
       /\ workspace'[w].license[p] # workspace[w].license[p]
       => p \in AskedParts(c) \/ c \in late]_licensesVars

\* A customer whose newest subscription is active and paid for is sold another one
\* only by a call that was overtaken, or that Stripe did not show everything.
NotSoldTwice ==
  [][\A c \in Caller :
       LET mine == subs[CustomerOf(c)] IN
         /\ setter[c].step = "create" /\ setter'[c].step = "finalize"
         /\ mine # <<>> /\ mine[Len(mine)].status = "active" /\ ~mine[Len(mine)].trial
         => c \in late \/ setter[c].blind]_licensesVars

\* A trial that a call has cancelled is followed by a subscription, or one is being
\* created, or the creation failed: cancelling is never the end of a good call.
TrialsAreReplaced ==
  \A customer \in Customer :
    (\E i \in DOMAIN subs[customer] : /\ subs[customer][i].ended = "call"
                                      /\ i = Len(subs[customer]))
    => \/ \E c \in Caller : setter[c].step = "create" /\ CustomerOf(c) = customer
       \/ customer \in unserved

\* A sale is whole: what it cancels it replaces, and what is paid for it does not sell
\* again, but for calls that overlap and answers of Stripe that fail.
SalesAreWhole == NotSoldTwice /\ []TrialsAreReplaced

=============================================================================
