------------------------------- MODULE Accounts -------------------------------
(***************************************************************************)
(* The users of the portal: sign-up, invitations, changes of e-mail, the   *)
(* link of an OAuth identity and the passwords, with the two identity      *)
(* providers a deployment chooses from: "azure", where selfauth keeps the  *)
(* password in the row of the user, and "cognito", a user pool outside of  *)
(* the database.  Each call to the provider and each SQL statement of a    *)
(* handler is one step; calls interleave.                                  *)
(*                                                                         *)
(* "user".email has no unique index; cognito_sub has one.                  *)
(*                                                                         *)
(* Bounds: Call calls at a time, UserId rows, MaxSub identities.  Faults:  *)
(* "db", a statement may fail or the process stop before it.  CreateUser   *)
(* tells a look-up that fails from one that finds nobody; SetEmail,        *)
(* SuperInvite and the link of an identity do not.                         *)
(***************************************************************************)
EXTENDS Naturals, FiniteSets

CONSTANTS
  Address,   \* e-mail addresses
  UserId,    \* rows of the table "user"
  Call,      \* calls in flight
  Cloud,     \* the providers considered, a subset of {"azure", "cognito"}
  MaxSub,
  NoUser,
  NoEmail,
  AccountFaults

ASSUME AccountsAssumption ==
  /\ IsFiniteSet(UserId)
  /\ Cloud \subseteq {"azure", "cognito"}
  /\ MaxSub \in Nat
  /\ NoUser \notin UserId
  /\ NoEmail \notin Address \X {"normal", "typed"}

VARIABLES
  cloud,      \* CLOUD_PROVIDER
  user,       \* the rows that exist
  owners,     \* the owners of a default workspace
  pool,       \* the identities of the Cognito user pool
  lastSub,    \* the last identity (uuid) given
  call,       \* the handlers in flight
  overtaken   \* history: calls during which another one changed an e-mail

accountsVars == <<cloud, user, owners, pool, lastSub, call, overtaken>>

\* An e-mail as it was typed: lower case and trimmed, or not.
Email == Address \X {"normal", "typed"}

NormEmail(e) == <<e[1], "normal">>

Password == {"none", "temporary", "own"}

UserRow == [email : Email, sub : 1 .. MaxSub, password : Password]

Identity == [address : Address, sub : 1 .. MaxSub, password : Password]

CallStep == {"idle", "identify", "insert", "workspace", "invite", "insertInvited",
             "target", "update", "linkEmail", "linkUpdate"}

\* blind: the look-up failed where it would have found a user.
Idle == [step |-> "idle", email |-> NoEmail, old |-> NoEmail,
         sub |-> 0, password |-> "none", target |-> NoUser, blind |-> FALSE]

About(e, step) == [Idle EXCEPT !.step = step, !.email = e]

AccountsInit ==
  /\ cloud \in Cloud
  /\ user = [u \in {} |-> {}]
  /\ owners = {}
  /\ pool = {}
  /\ lastSub = 0
  /\ call = [c \in Call |-> Idle]
  /\ overtaken = {}

WithEmail(e) == {u \in DOMAIN user : user[u].email = e}

\* WHERE lower(trim(email)) = ?
WithAddress(e) == {u \in DOMAIN user : NormEmail(user[u].email) = NormEmail(e)}

WithSub(s) == {u \in DOMAIN user : user[u].sub = s}

InPool(a) == {i \in pool : i.address = a}

\* Every other call in flight may have read an e-mail that is no longer true.
Overtake(c) == overtaken' = overtaken \cup {d \in Call \ {c} : call[d].step # "idle"}

Return(c) ==
  /\ call' = [call EXCEPT ![c] = Idle]
  /\ overtaken' = overtaken \ {c}

Continue(c, step) ==
  /\ call' = [call EXCEPT ![c].step = step]
  /\ UNCHANGED overtaken

\* The look-up of users gives an error: nobody was found, or the SELECT failed.
LookUpErrs(found) == found = {} \/ "db" \in AccountFaults

FreshSub == /\ lastSub < MaxSub
            /\ lastSub' = lastSub + 1

-----------------------------------------------------------------------------
(* CreateUser *)

Start(c, request) ==
  /\ call[c].step = "idle"
  /\ call' = [call EXCEPT ![c] = request]
  /\ UNCHANGED <<cloud, user, owners, pool, lastSub, overtaken>>

\* Variant: the address is compared as it was typed.
CreateUserUnchecked(c, a) ==
  Start(c, About(<<a, "normal">>, "identify"))

CreateUser(c, a) ==
  /\ WithAddress(<<a, "normal">>) = {}
  /\ Start(c, About(<<a, "normal">>, "identify"))

\* resolveCreateUserIdentity: a new uuid and the hash, or the SignUp of the
\* pool, which refuses an address it knows.
ResolveCreateUserIdentity(c) ==
  LET a == call[c].email[1] IN
  /\ call[c].step = "identify"
  /\ UNCHANGED <<cloud, user, owners, overtaken>>
  /\ \/ /\ cloud = "azure"
        /\ FreshSub
        /\ call' = [call EXCEPT ![c].step = "insert", ![c].sub = lastSub', ![c].password = "own"]
        /\ UNCHANGED pool
     \/ /\ cloud = "cognito" /\ InPool(a) = {}
        /\ FreshSub
        /\ pool' = pool \cup {[address |-> a, sub |-> lastSub', password |-> "own"]}
        /\ call' = [call EXCEPT ![c].step = "insert", ![c].sub = lastSub']

SignUpRefused(c) ==
  /\ call[c].step = "identify"
  /\ cloud = "cognito" /\ InPool(call[c].email[1]) # {}
  /\ Return(c)
  /\ UNCHANGED <<cloud, user, owners, pool, lastSub>>

\* INSERT INTO "user"; the unique index is on cognito_sub.
InsertUser(c, u) ==
  /\ call[c].step \in {"insert", "insertInvited"}
  /\ u \in UserId \ DOMAIN user
  /\ WithSub(call[c].sub) = {}
  /\ user' = [v \in DOMAIN user \cup {u} |->
                IF v = u THEN [email |-> call[c].email, sub |-> call[c].sub,
                               password |-> call[c].password]
                         ELSE user[v]]
  /\ IF call[c].step = "insert"
       THEN /\ call' = [call EXCEPT ![c] = [Idle EXCEPT !.step = "workspace", !.target = u]]
            /\ Overtake(c)
       ELSE /\ call' = [call EXCEPT ![c] = Idle]
            /\ overtaken' = (overtaken \ {c}) \cup {d \in Call \ {c} : call[d].step # "idle"}
  /\ UNCHANGED <<cloud, owners, pool, lastSub>>

InsertRefused(c) ==
  /\ call[c].step \in {"insert", "insertInvited"}
  /\ WithSub(call[c].sub) # {}
  /\ Return(c)
  /\ UNCHANGED <<cloud, user, owners, pool, lastSub>>

\* createDefaultWorkspaceForUser: the error of the insert is not looked at.
CreateDefaultWorkspace(c) ==
  /\ call[c].step = "workspace"
  /\ owners' = owners \cup {call[c].target}
  /\ Return(c)
  /\ UNCHANGED <<cloud, user, pool, lastSub>>

\* A statement fails, or the process stops: what was done before it stays.
StatementFails(c) ==
  /\ "db" \in AccountFaults
  /\ call[c].step # "idle"
  /\ Return(c)
  /\ UNCHANGED <<cloud, user, owners, pool, lastSub>>

-----------------------------------------------------------------------------
(* SuperInvite *)

\* Variant: nobody looks for the user before the invitation.
SuperInviteAnyone(c, e) ==
  Start(c, About(e, "invite"))

\* WHERE email = ?, as it was typed; a user that is found is answered, and any
\* error is taken for nobody.
SuperInvite(c, e) ==
  /\ LookUpErrs(WithEmail(e))
  /\ Start(c, [About(e, "invite") EXCEPT !.blind = WithEmail(e) # {}])

\* selfauth.AdminCreateUser updates the rows of the address, if there are any,
\* and returns a new sub; Cognito refuses a user it knows: the exception comes
\* wrapped, so isUsernameExistsException does not recognise it.
AdminCreateUser(c) ==
  LET a == call[c].email[1] IN
  /\ call[c].step = "invite"
  /\ FreshSub
  /\ UNCHANGED <<cloud, owners, overtaken>>
  /\ call' = [call EXCEPT ![c].step = "insertInvited", ![c].sub = lastSub']
  /\ \/ /\ cloud = "azure"
        /\ Cardinality(WithAddress(call[c].email)) <= 1
        /\ user' = [u \in DOMAIN user |->
                      IF u \in WithAddress(call[c].email)
                        THEN [user[u] EXCEPT !.sub = lastSub', !.password = "temporary"]
                        ELSE user[u]]
        /\ UNCHANGED pool
     \/ /\ cloud = "cognito" /\ InPool(a) = {}
        /\ pool' = pool \cup {[address |-> a, sub |-> lastSub', password |-> "temporary"]}
        /\ UNCHANGED user

\* Cognito knows the user; or two rows of the address cannot have one sub.
AdminCreateUserRefused(c) ==
  /\ call[c].step = "invite"
  /\ \/ cloud = "cognito" /\ InPool(call[c].email[1]) # {}
     \/ cloud = "azure" /\ Cardinality(WithAddress(call[c].email)) > 1
  /\ Return(c)
  /\ UNCHANGED <<cloud, user, owners, pool, lastSub>>

-----------------------------------------------------------------------------
(* SetEmail and UpdateUser *)

\* Variant: the new address is not looked up.
SetEmailUnchecked(c, old, new) ==
  Start(c, [About(<<new, "normal">>, "target") EXCEPT !.old = <<old, "normal">>])

\* Refused only if the look-up finds a user: an error is taken for nobody.
SetEmail(c, old, new) ==
  LET e == <<new, "normal">> IN
  /\ LookUpErrs(WithEmail(e))
  /\ Start(c, [About(e, "target") EXCEPT !.old = <<old, "normal">>,
                                        !.blind = WithEmail(e) # {}])

SetEmailTarget(c) ==
  /\ call[c].step = "target"
  /\ IF WithEmail(call[c].old) = {}
       THEN Return(c)
       ELSE /\ \E u \in WithEmail(call[c].old) :
                 call' = [call EXCEPT ![c].step = "update", ![c].target = u,
                                     ![c].old = NoEmail]
            /\ UNCHANGED overtaken
  /\ UNCHANGED <<cloud, user, owners, pool, lastSub>>

UpdateEmail(c) ==
  /\ call[c].step = "update"
  /\ user' = [user EXCEPT ![call[c].target].email = call[c].email]
  /\ call' = [call EXCEPT ![c] = Idle]
  /\ overtaken' = (overtaken \ {c}) \cup {d \in Call \ {c} : call[d].step # "idle"}
  /\ UNCHANGED <<cloud, owners, pool, lastSub>>

\* PUT /api/User takes every column except id, created_at and updated_at, the
\* e-mail too, in one UPDATE.
UpdateUser(u, e) ==
  /\ user' = [user EXCEPT ![u].email = e]
  /\ overtaken' = overtaken \cup {d \in Call : call[d].step # "idle"}
  /\ UNCHANGED <<cloud, owners, pool, lastSub, call>>

-----------------------------------------------------------------------------
(* AuthByCode: the OAuth identity is linked to the row of its address *)

\* A person comes through another provider: the pool gives one more identity.
FederatedSignIn(a) ==
  /\ cloud = "cognito"
  /\ FreshSub
  /\ pool' = pool \cup {[address |-> a, sub |-> lastSub', password |-> "none"]}
  /\ UNCHANGED <<cloud, user, owners, call, overtaken>>

\* An identity that is linked already is left alone, unless the look-up fails.
LinkToDB(c, i) ==
  /\ cloud = "cognito"
  /\ LookUpErrs(WithSub(i.sub))
  /\ Start(c, [About(<<i.address, "normal">>, "linkEmail") EXCEPT !.sub = i.sub])

LinkByEmail(c) ==
  /\ call[c].step = "linkEmail"
  /\ IF WithEmail(call[c].email) = {}
       THEN Return(c)
       ELSE /\ \E u \in WithEmail(call[c].email) :
                 call' = [call EXCEPT ![c].step = "linkUpdate", ![c].target = u,
                                     ![c].email = NoEmail]
            /\ UNCHANGED overtaken
  /\ UNCHANGED <<cloud, user, owners, pool, lastSub>>

\* The error of the UPDATE, which the unique index may cause, is not looked at.
LinkUpdate(c) ==
  /\ call[c].step = "linkUpdate"
  /\ user' = IF WithSub(call[c].sub) \subseteq {call[c].target}
               THEN [user EXCEPT ![call[c].target].sub = call[c].sub]
               ELSE user
  /\ Return(c)
  /\ UNCHANGED <<cloud, owners, pool, lastSub>>

-----------------------------------------------------------------------------
(* Passwords *)

\* The sub that the access, the identity and the refresh token of a user carry.
IssueTokens(u) == user[u].sub

\* LIMIT 1 takes any row of the address; it must have a password.
PasswordAuth(a) ==
  {IssueTokens(u) : u \in {v \in WithAddress(<<a, "normal">>) : user[v].password # "none"}}

RefreshAuth(s) == {IssueTokens(u) : u \in WithSub(s)}

\* The identities a login with this address may get tokens of.
InitiateAuth(a) ==
  IF cloud = "azure" THEN UNION {RefreshAuth(s) : s \in PasswordAuth(a)}
                     ELSE {i.sub : i \in {k \in InPool(a) : k.password = "own"}}

\* The users whom a call with a token of identity s may be from.
RequireAuth(s) == WithSub(s)

\* auth and auth_challenge: Cognito asks for a password instead of a temporary one.
AuthChallenge(i) ==
  /\ cloud = "cognito" /\ i.password = "temporary"
  /\ pool' = (pool \ {i}) \cup {[i EXCEPT !.password = "own"]}
  /\ UNCHANGED <<cloud, user, owners, lastSub, call, overtaken>>

\* ConfirmForgotPassword writes the hash in every row of the address, or none.
ConfirmForgot(a) ==
  /\ UNCHANGED <<cloud, owners, lastSub, call, overtaken>>
  /\ \/ /\ cloud = "azure" /\ WithAddress(<<a, "normal">>) # {}
        /\ user' = [u \in DOMAIN user |->
                      IF u \in WithAddress(<<a, "normal">>)
                        THEN [user[u] EXCEPT !.password = "own"] ELSE user[u]]
        /\ UNCHANGED pool
     \/ /\ cloud = "cognito"
        /\ \E i \in InPool(a) : /\ i.password # "none"
                                /\ pool' = (pool \ {i}) \cup {[i EXCEPT !.password = "own"]}
        /\ UNCHANGED user

\* ChangePassword needs a token of a login; the new hash goes where the sub is.
ChangePassword(s) ==
  /\ \E a \in Address : s \in InitiateAuth(a)
  /\ UNCHANGED <<cloud, owners, lastSub, call, overtaken>>
  /\ \/ /\ cloud = "azure"
        /\ user' = [u \in DOMAIN user |->
                      IF u \in RequireAuth(s) THEN [user[u] EXCEPT !.password = "own"] ELSE user[u]]
        /\ UNCHANGED pool
     \/ /\ cloud = "cognito"
        /\ pool' = {IF i.sub = s THEN [i EXCEPT !.password = "own"] ELSE i : i \in pool}
        /\ UNCHANGED user

-----------------------------------------------------------------------------

AccountsStep(c) ==
  \/ \E a \in Address : CreateUser(c, a)
  \/ ResolveCreateUserIdentity(c)
  \/ SignUpRefused(c)
  \/ \E u \in UserId : InsertUser(c, u)
  \/ InsertRefused(c)
  \/ CreateDefaultWorkspace(c)
  \/ StatementFails(c)
  \/ \E e \in Email : SuperInvite(c, e)
  \/ AdminCreateUser(c)
  \/ AdminCreateUserRefused(c)
  \/ \E old, new \in Address : SetEmail(c, old, new)
  \/ SetEmailTarget(c)
  \/ UpdateEmail(c)
  \/ \E i \in pool : LinkToDB(c, i)
  \/ LinkByEmail(c)
  \/ LinkUpdate(c)

AccountsNext ==
  \/ \E c \in Call : AccountsStep(c)
  \/ \E u \in DOMAIN user, e \in Email : UpdateUser(u, e)
  \/ \E a \in Address : FederatedSignIn(a)
  \/ \E i \in pool : AuthChallenge(i)
  \/ \E a \in Address : ConfirmForgot(a)
  \/ \E s \in 1 .. MaxSub : ChangePassword(s)

AccountsSpec == AccountsInit /\ [][AccountsNext]_accountsVars

-----------------------------------------------------------------------------
(* Properties *)

\* Two users get the same e-mail only because a call was overtaken by another
\* between its look-up and its write, because the look-up failed and the call took
\* that for an address not in use (SetEmail, SuperInvite), or because UpdateUser,
\* which looks nothing up, wrote it.
DuplicatesNeedOverlap ==
  [][\A u, v \in DOMAIN user' :
       /\ u # v /\ user'[u].email = user'[v].email
       /\ ~(u \in DOMAIN user /\ user[u].email = user'[u].email)
       => \/ \E c \in Call : /\ call'[c] # call[c]
                             /\ c \in overtaken \/ call[c].blind
          \/ UNCHANGED call]_accountsVars

\* A password that the person chose is replaced by another's only when an
\* invitation to the same address did not see the row: the address was typed in
\* another way, the row came after the invitation had looked for it, or the
\* look-up failed.
PasswordKept ==
  [][\A u \in DOMAIN user :
       user[u].password = "own" /\ user'[u].password # "own" =>
         \E c \in Call :
           /\ call[c].step = "invite"
           /\ NormEmail(call[c].email) = NormEmail(user[u].email)
           /\ \/ call[c].email # user[u].email
              \/ c \in overtaken
              \/ call[c].blind]_accountsVars

=============================================================================
