CONSTANTS
  Address = {a1, a2}
  UserId = {u1, u2}
  Call = {c1, c2}
  Cloud = {"azure", "cognito"}
  MaxSub = 2
  NoUser = NoUser
  NoEmail = NoEmail
  AccountFaults = {"db"}
  Person = {p1, p2}
  Firm = {f1}
  Rewrite = {w1, w2}
  Key = {k1, k2}
  Request = {r1, r2}
  NoRequest = NoRequest
  NoKey = NoKey
  CacheTTL = 1
  MaxTime = 3
  o1 = o1
  ws1 = ws1
  Workspace = {ws1}
  Owner <- MCOwner
  LicenseKey = {"details", "stripe_status"}
  Caller = {s1, s2}
  MaxSubscriptions = 2
  Mock = {TRUE, FALSE}
  LicenseFaults = {"list", "cancel", "create", "db", "kill"}
SPECIFICATION Spec
SYMMETRY MCSymmetry
CONSTRAINT MCBound
PROPERTY DuplicatesNeedOverlap
 
PROPERTY RoleOutlivesRewrite
PROPERTY RewriteIsExact
PROPERTY KeysAreFresh
PROPERTY LicenseKeysKept
PROPERTY SalesAreWhole
CHECK_DEADLOCK FALSE
