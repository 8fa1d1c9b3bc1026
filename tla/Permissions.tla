------------------------------ MODULE Permissions ------------------------------
(***************************************************************************)
(* The table permission and the call that rewrites it: PUT /api/Permission *)
(* deletes what the given users have on the given companies and inserts    *)
(* what they shall have, in one READ COMMITTED transaction.  The table has *)
(* no unique index on user, company and role.                              *)
(*                                                                         *)
(* A DELETE locks the rows it finds and waits for those that another       *)
(* transaction has locked; it does not see the rows the other has inserted *)
(* and not committed.  What a transaction writes is seen by the others     *)
(* when it commits.                                                        *)
(*                                                                         *)
(* Left out: two users of one e-mail (Accounts says how they come to be):  *)
(* the call deletes what both have and inserts for the one it read last;   *)
(* and roles that differ from one company of a call to another.            *)
(***************************************************************************)
EXTENDS Naturals

CONSTANTS
  Person,    \* users, each with an e-mail of its own
  Firm,      \* companies
  Rewrite    \* calls of SetPermissions in flight

VARIABLES
  firms,       \* the companies that exist
  permission,  \* the committed rows
  tx           \* the transactions

permissionsVars == <<firms, permission, tx>>

Role == {"OPERATOR", "PAYROLL"}

\* Rows with equal user, company and role differ in the call that inserted them.
Permission == [user : Person, company : Firm, role : Role, by : Rewrite \cup {"Create"}]

\* The roles a request asks for: other names are skipped.
AskedRoles == {"OPERATOR", "PAYROLL", "OTHER"}

NoTx == [step |-> "none", users |-> {}, companies |-> {}, roles |-> {},
         doomed |-> {}, missed |-> {}]

PermissionsInit ==
  /\ firms = Firm
  /\ permission = {[user |-> u, company |-> f, role |-> r, by |-> "Create"] :
                     u \in Person, f \in Firm, r \in Role}
  /\ tx = [c \in Rewrite |-> NoTx]

\* BeginTx, and the SELECTs of the users and of the companies that exist.
SetPermissions(c, users, companies, roles) ==
  /\ tx[c].step = "none"
  /\ users # {} /\ companies # {}
  /\ tx' = [tx EXCEPT ![c] = [NoTx EXCEPT !.step = "delete", !.users = users,
                                !.companies = companies \cap firms,
                                !.roles = roles \cap Role]]
  /\ UNCHANGED <<firms, permission>>

\* Variant: only the roles that are asked for again are deleted.
TargetsAskedFor(c) == {p \in permission : /\ p.user \in tx[c].users
                                          /\ p.company \in tx[c].companies
                                          /\ p.role \in tx[c].roles}

Targets(c) == {p \in permission : p.user \in tx[c].users /\ p.company \in tx[c].companies}

Unlocked(c, rows) == \A d \in Rewrite \ {c} : rows \cap tx[d].doomed = {}

\* Variant: the deletion is committed before the insertions.
DeleteCommitted(c) ==
  /\ tx[c].step = "delete"
  /\ Unlocked(c, Targets(c))
  /\ permission' = permission \ Targets(c)
  /\ tx' = [tx EXCEPT ![c].step = "insert"]
  /\ UNCHANGED firms

DeletePermissions(c) ==
  /\ tx[c].step = "delete"
  /\ Unlocked(c, Targets(c))
  /\ tx' = [tx EXCEPT ![c].step = "insert", ![c].doomed = Targets(c)]
  /\ UNCHANGED <<firms, permission>>

Inserted(c) == {[user |-> u, company |-> f, role |-> r, by |-> c] :
                  u \in tx[c].users, f \in tx[c].companies, r \in tx[c].roles}

\* The INSERTs and the COMMIT.  "missed" is a history: what others commit after
\* the DELETE of a transaction.
CommitPermissions(c) ==
  /\ tx[c].step = "insert"
  /\ tx[c].companies \subseteq firms \/ Inserted(c) = {}
  /\ permission' = (permission \ tx[c].doomed) \cup Inserted(c)
  /\ tx' = [d \in Rewrite |->
              IF d = c THEN NoTx
              ELSE IF tx[d].step = "insert" THEN [tx[d] EXCEPT !.missed = @ \cup Inserted(c)]
              ELSE tx[d]]
  /\ UNCHANGED firms

\* A statement fails, the process stops, or the foreign key of a company that was
\* deleted refuses the insert.
Rollback(c) ==
  /\ tx[c].step # "none"
  /\ tx' = [tx EXCEPT ![c] = NoTx]
  /\ UNCHANGED <<firms, permission>>

\* DELETE of a company, with its permissions (ON DELETE CASCADE): it waits for
\* the rows that are locked, as a DELETE does.
DeleteFirm(f) ==
  /\ f \in firms
  /\ \A c \in Rewrite : \A p \in tx[c].doomed : p.company # f
  /\ firms' = firms \ {f}
  /\ permission' = {p \in permission : p.company # f}
  /\ UNCHANGED tx

\* The query of RequireCompany and RequireAdminOrCompanyOperator.
HasOperator(u, f) == \E p \in permission : p.user = u /\ p.company = f /\ p.role = "OPERATOR"

PermissionsNext ==
  \/ \E c \in Rewrite :
       \/ \E users \in SUBSET Person, companies \in SUBSET Firm, roles \in SUBSET AskedRoles :
            SetPermissions(c, users, companies, roles)
       \/ DeletePermissions(c)
       \/ CommitPermissions(c)
       \/ Rollback(c)
  \/ \E f \in Firm : DeleteFirm(f)

PermissionsSpec == PermissionsInit /\ [][PermissionsNext]_permissionsVars

-----------------------------------------------------------------------------
(* Properties *)

\* Whatever calls interleave, fail or stop half-way, a user who was an operator of
\* a company is refused only once a call has committed that does not make him one:
\* no request is refused because a rewrite that keeps the role is on its way.
RoleOutlivesRewrite ==
  [][\A u \in Person, f \in firms' :
       HasOperator(u, f) /\ ~HasOperator(u, f)' =>
         \E c \in Rewrite : /\ tx[c].step = "insert" /\ tx'[c] = NoTx
                            /\ u \in tx[c].users /\ f \in tx[c].companies
                            /\ "OPERATOR" \notin tx[c].roles]_permissionsVars

\* When a call commits, its users have on its companies the roles it asked for and
\* nothing else, but for what overlapping calls committed after its DELETE.
RewriteIsExact ==
  [][\A c \in Rewrite :
       tx[c].step = "insert" /\ permission' # permission /\ tx'[c] = NoTx =>
         {p \in permission' : p.user \in tx[c].users /\ p.company \in tx[c].companies}
           \subseteq Inserted(c) \cup tx[c].missed]_permissionsVars

=============================================================================
