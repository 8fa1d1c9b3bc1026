---------------------------- MODULE MCControlPlane ----------------------------
(***************************************************************************)
(* The control database for TLC: accounts, permissions, licences and the   *)
(* cache of signing keys.  The four share no state, so that an interleaving *)
(* of two of them shows nothing that each alone does not: a behaviour is   *)
(* one of the part it has chosen, the others stay where they began.        *)
(***************************************************************************)
EXTENDS Accounts, Permissions, JwtKeys, Licenses, TLC

CONSTANTS o1, ws1

VARIABLE part

vars == <<part, accountsVars, permissionsVars, keysVars, licensesVars>>

MCOwner == [w \in Workspace |-> o1]

Part == {"accounts", "permissions", "keys", "licenses"}

Init ==
  /\ part \in Part
  /\ AccountsInit /\ (part # "accounts" => cloud = "azure")
  /\ PermissionsInit
  /\ KeysInit /\ (part # "keys" => published = Key)
  /\ LicensesInit /\ (part # "licenses" => mock /\ subs = [c \in Customer |-> <<>>])

Next ==
  \/ part = "accounts" /\ AccountsNext
     /\ UNCHANGED <<part, permissionsVars, keysVars, licensesVars>>
  \/ part = "permissions" /\ PermissionsNext
     /\ UNCHANGED <<part, accountsVars, keysVars, licensesVars>>
  \/ part = "keys" /\ KeysNext
     /\ UNCHANGED <<part, accountsVars, permissionsVars, licensesVars>>
  \/ part = "licenses" /\ LicensesNext
     /\ UNCHANGED <<part, accountsVars, permissionsVars, keysVars>>

Spec == Init /\ [][Next]_vars

\* Rows and calls are alike.
MCSymmetry == Permutations(UserId) \cup Permutations(Call)

\* Bounds of the instance.  A call whose look-up failed is not overtaken as well;
\* with Stripe no call that writes a licence is in flight: only with MOCK_STRIPE do
\* the two touch the same row.
MCBound ==
  /\ \A c \in Call : call[c].blind => c \notin overtaken
  /\ part = "licenses" /\ ~mock => \A c \in Caller : setter[c].step \notin {"write", "put"}

=============================================================================
