CONSTANTS
  ra = ra
  c1 = c1
  c2 = c2
  c3 = c3
  CompanyId = {i1, i2}
  Place = {p1, p2}
  Rfc = {ra}
  Certificate = {c1, c2, c3}
  Info <- MCInfo
  Filing = {k1, k2}
  ExemptRfc = {}
  SpecialRfc = {}
  MaxSameCompanyInTrials = 1
  CompanyFaults = {"count", "freemium", "call", "publish", "certs"}
  NoRow = NoRow
  NoCert = NoCert
  NoId = NoId
  Setter = {s1, s2, s3}
  DataKey = {"isr_percentage", "coi_enabled", "scrap_status"}
  Member = {m1, m2}
  NotificationType = {"ERROR", "EFOS"}
  Rewriting = {w1, w2}
  Unset = Unset
  Conn = {d1, d2, d3}
  Handler = {h1, h2}
  Schema = {t1, t2}
  TenantTable = {"cfdi"}
  PublicTable = {"company"}
  Public = Public
  NoConn = NoConn
  NoHandler = NoHandler
  Replica = {r1, r2, r3}
  LastVersion = 3
  Req = {q1}
  Uuid = {x1}
  Hook = {b1, b2}
  SyncFaults = {"publish", "db", "kill"}
  NoReq = NoReq
  Site = {v1, v2}
  Purchase = {j1, j2, j3}
  Firm = {e1}
  g1 = g1
  G1 = G1
  g2 = g2
  RawId = {g1, G1, g2}
  Lower <- MCLower
  Report = {l1, l2}
  PastoFaults = {"login", "pasto", "answer", "db", "kill"}
  f1 = f1
  f2 = f2
  f3 = f3
  f4 = f4
  File = {f1, f2, f3, f4}
  Size <- MCSize
  SizeRange = 16
  ColumnRange = 8
  MaxAttachmentSize = 2
  AttachmentId = {a1, a2, a3}
  Attaching = {y1, y2, y3}
  PolizaId = {o1, o2}
  Numero = {1}
  Moment = {2, 3, 4}
  Zone <- MCZone
  HoursOfDay = 2
  Posting = {n1, n2}
  Exporting = {z1, z2, z3}
  Name = {"n"}
  Extension = {"xlsx", "zip"}
  DocumentFaults = {"db", "storage", "publish", "kill"}
  None = None
  DayLength = 3
  MexicoLag = 1
  YearLength = 4
  BootstrapYears = 1
  CFDIChunkDays = 2
  MetadataChunkDays = 3
  Enqueuing = {e2}
  FirstHour = 18
  LastHour = 22
  Calendar = {4, 5, 6, 7}
  DayHours = 2
  LagHours = 1
  BlockHours = 1
  MaxManualSyncPerDay = 2
  ManualFaults = {"db", "publish", "redeliver"}
  MaxAsking = 2
  LastTime = 4
  Publisher = {u1, u2}
  Goroutine = {u3, u4, u5}
  Raised = {"CompanyCreated", "MetadataQueryDownloaded"}
  Nobody = Nobody
SPECIFICATION Spec
CONSTRAINT MCBound
SYMMETRY MCSymmetry
INVARIANT CompanyHasTables
INVARIANT OwnTables
INVARIANT NotStuck
INVARIANT AppliedOnceInOrder
INVARIANT RemainingIsError
INVARIANT NothingDropped
PROPERTY FlagsFollowObjects
INVARIANT ScheduleIsExact
INVARIANT ManualLimitsHold
PROPERTY AnnouncedOnce
PROPERTY LimitsNeedOverlap
PROPERTY SettingsNeedOverlap
PROPERTY WorkersAgree
PROPERTY ListsAreApplied
PROPERTY ChecksNeedOverlap
PROPERTY ObjectsAreTheirOwn
CHECK_DEADLOCK FALSE
