---------------------------- MODULE RequestsProofs ----------------------------
(***************************************************************************)
(* Proofs about what is asked of the SAT, for every limit, calendar and    *)
(* number of requests: how often a user may ask (ManualSync), and the      *)
(* windows and slots of what is asked (SatWindows).                        *)
(***************************************************************************)
EXTENDS ManualSync, SatWindows, FiniteSetTheorems, TLAPS

(* Manual requests *)

Count == {"today", "progress"}

AskingCall == [step : {"none", "refused", "counted", "sent", "done"}, due : 0 .. Directions,
               unread : SUBSET Count]

ManualRow == [by : Asking, due : 0 .. Directions, created : Nat,
              query : {"running", "final", "again"}, copy : BOOLEAN, unread : SUBSET Count]

ManualTypes ==
  /\ time \in Nat /\ LagHours <= time
  /\ asking \in [Asking -> AskingCall]
  /\ overlapped \in BOOLEAN
  /\ metadata \subseteq ManualRow /\ IsFiniteSet(metadata)

\* Rows are of requests that were sent, and not of the future; a request waits for its
\* predecessors; who has rows to come has one or two.
InOrder ==
  /\ \A j, k \in Asking : j < k /\ asking[j].step = "none" => asking[k].step = "none"
  /\ \A k \in Asking : asking[k].step = "sent" => asking[k].due \in 1 .. Directions
  /\ \A r \in metadata : /\ LagHours <= r.created /\ r.created <= time
                         /\ asking[r.by].step \in {"sent", "done"}

Today == (time - LagHours) \div DayHours

OnDay(rows, d) == {r \in rows : DayOf(r) = d /\ LetIn(r)}

\* The rows that a request which the count of the day let in may still bring.
ToCome(k) ==
  CASE asking[k].step = "counted" /\ "today" \notin asking[k].unread -> Directions
    [] asking[k].step = "sent" /\ "today" \notin asking[k].unread    -> asking[k].due
    [] OTHER                                                         -> 0

\* While a request has rows to come, no later one has begun.
LaterWait == \A j, k \in Asking : j < k /\ Busy(j) => asking[k].step = "none"

\* Those of a request that passed the check fit into today, and into any day to come.
RowsFit ==
  \A d \in Nat :
    /\ Cardinality(OnDay(metadata, d)) <= MaxManualSyncPerDay + 1
    /\ Today <= d => \A k \in Asking :
         Cardinality(OnDay(metadata, d)) + ToCome(k) <= MaxManualSyncPerDay + 1

\* When a request is sent, the queries of others that were never final do not block.
OthersPassed ==
  \A k \in Asking : asking[k].step = "sent" /\ "progress" \notin asking[k].unread =>
    \A r \in metadata : r.by # k /\ ~r.copy /\ r.query = "running" => r.created + BlockHours < time

\* Nor do they when its rows have come.
RowsPassed ==
  \A r, s \in metadata :
    r.by < s.by /\ ~r.copy /\ r.query = "running" /\ "progress" \notin s.unread =>
      r.created + BlockHours < s.created

ManualIInv ==
  /\ ManualTypes
  /\ InOrder
  /\ ~overlapped => LaterWait /\ RowsFit /\ OthersPassed /\ RowsPassed

\* Days follow one another as times do.
LEMMA DaysFollow ==
  ASSUME NEW a \in Nat, NEW b \in Nat, NEW n \in Nat \ {0}
  PROVE  /\ a \div n \in Nat
         /\ a <= b => a \div n <= b \div n
         /\ (b \div n) * n <= a <=> b \div n <= a \div n
<1> DEFINE p == a \div n
           q == b \div n
<1>1. p \in Nat /\ p * n <= a /\ a < (p + 1) * n
  OBVIOUS
<1>2. q \in Nat /\ q * n <= b /\ b < (q + 1) * n
  OBVIOUS
<1> HIDE DEF p, q
<1>3. ASSUME NEW x \in Nat, NEW y \in Nat, x <= y PROVE x * n <= y * n
  BY <1>3
<1>4. p + 1 <= q => (p + 1) * n <= q * n
  BY <1>1, <1>2, <1>3
<1>5. q <= p => q * n <= p * n
  BY <1>1, <1>2, <1>3
<1>6. p * n \in Nat /\ q * n \in Nat /\ (p + 1) * n \in Nat
  BY <1>1, <1>2
<1>7. a <= b => p <= q
  <2>1. CASE p + 1 <= q
    BY <1>1, <1>2, <2>1
  <2>2. CASE ~(p + 1 <= q)
    <3>1. q + 1 <= p => (q + 1) * n <= p * n
      BY <1>1, <1>2, <1>3
    <3>2. (q + 1) * n \in Nat
      BY <1>2
    <3> QED
      BY <1>1, <1>2, <1>6, <3>1, <3>2
  <2> QED
    BY <2>1, <2>2
<1>8. q * n <= a <=> q <= p
  BY <1>1, <1>2, <1>4, <1>5, <1>6
<1> QED
  BY <1>1, <1>7, <1>8 DEF p, q

-----------------------------------------------------------------------------
LEMMA OneMoreRow ==
  ASSUME NEW rows, IsFiniteSet(rows), NEW r, NEW d
  PROVE  /\ IsFiniteSet(OnDay(rows, d)) /\ Cardinality(OnDay(rows, d)) \in Nat
         /\ Cardinality(OnDay(rows \cup {r}, d)) <= Cardinality(OnDay(rows, d)) + 1
         /\ ~(DayOf(r) = d /\ LetIn(r)) => OnDay(rows \cup {r}, d) = OnDay(rows, d)
<1>1. OnDay(rows, d) \subseteq rows
  BY DEF OnDay
<1>2. IsFiniteSet(OnDay(rows, d)) /\ Cardinality(OnDay(rows, d)) \in Nat
  BY <1>1, FS_Subset, FS_CardinalityType
<1>3. ~(DayOf(r) = d /\ LetIn(r)) => OnDay(rows \cup {r}, d) = OnDay(rows, d)
  BY DEF OnDay
<1>4. DayOf(r) = d /\ LetIn(r) => OnDay(rows \cup {r}, d) = OnDay(rows, d) \cup {r}
  BY DEF OnDay
<1>5. Cardinality(OnDay(rows, d) \cup {r}) <= Cardinality(OnDay(rows, d)) + 1
  BY <1>2, FS_AddElement, SMTT(30)
<1>6. Cardinality(OnDay(rows \cup {r}, d)) <= Cardinality(OnDay(rows, d)) + 1
  <2>1. CASE DayOf(r) = d /\ LetIn(r)
    BY <1>4, <1>5, <2>1
  <2>2. CASE ~(DayOf(r) = d /\ LetIn(r))
    <3>1. Cardinality(OnDay(rows \cup {r}, d)) = Cardinality(OnDay(rows, d))
      BY <1>3, <2>2
    <3> QED
      BY <1>2, <3>1
  <2> QED
    BY <2>1, <2>2
<1> QED
  BY <1>2, <1>3, <1>6

LEMMA RowForRow ==
  ASSUME NEW rows, IsFiniteSet(rows), NEW r \in rows,
         NEW s, DayOf(s) = DayOf(r), LetIn(s) <=> LetIn(r), NEW d
  PROVE  Cardinality(OnDay((rows \ {r}) \cup {s}, d)) <= Cardinality(OnDay(rows, d))
<1> DEFINE here == DayOf(r) = d /\ LetIn(r)
<1>1. IsFiniteSet(rows \ {r})
  BY FS_RemoveElement
<1>2. /\ Cardinality(OnDay((rows \ {r}) \cup {s}, d)) <= Cardinality(OnDay(rows \ {r}, d)) + 1
      /\ ~here => OnDay((rows \ {r}) \cup {s}, d) = OnDay(rows \ {r}, d)
      /\ IsFiniteSet(OnDay(rows, d)) /\ Cardinality(OnDay(rows, d)) \in Nat
  BY <1>1, OneMoreRow
<1>3. CASE here
  <2>1. OnDay(rows \ {r}, d) = OnDay(rows, d) \ {r} /\ r \in OnDay(rows, d)
    BY <1>3 DEF OnDay
  <2>2. Cardinality(OnDay(rows, d) \ {r}) = Cardinality(OnDay(rows, d)) - 1
    BY <1>2, <2>1, FS_RemoveElement
  <2>3. Cardinality(OnDay(rows \ {r}, d)) = Cardinality(OnDay(rows, d)) - 1
    BY <2>1, <2>2
  <2> QED
    BY <1>2, <2>3
<1>4. CASE ~here
  <2>1. OnDay(rows \ {r}, d) = OnDay(rows, d)
    BY <1>4 DEF OnDay
  <2> QED
    BY <1>2, <1>4, <2>1
<1> QED
  BY <1>3, <1>4

LEMMA TodayFollows ==
  ASSUME ManualTypes
  PROVE  /\ Today \in Nat
         /\ \A r \in metadata : LagHours <= r.created =>
              DayOf(r) \in Nat /\ (Today <= DayOf(r) <=> TodayMXInUTC <= r.created)
         /\ \A d \in Nat : Cardinality(OnDay(metadata, d)) \in Nat
<1>1. LagHours \in Nat /\ DayHours \in Nat \ {0} /\ time - LagHours \in Nat
  BY ManualSyncAssumption DEF ManualTypes
<1>2. Today \in Nat
  BY <1>1, DaysFollow DEF Today
<1>3. ASSUME NEW r \in metadata, LagHours <= r.created
      PROVE  DayOf(r) \in Nat /\ (Today <= DayOf(r) <=> TodayMXInUTC <= r.created)
  <2>1. r.created - LagHours \in Nat /\ r.created \in Nat
    BY <1>1, <1>3 DEF ManualTypes, ManualRow
  <2>2. /\ DayOf(r) \in Nat
        /\ Today * DayHours <= r.created - LagHours <=> Today <= DayOf(r)
    BY <1>1, <2>1, DaysFollow DEF Today, DayOf
  <2>3. PICK x : x = Today * DayHours
    OBVIOUS
  <2>4. x \in Nat
    BY <1>1, <1>2, <2>3
  <2>5. TodayMXInUTC = x + LagHours
    BY <2>3 DEF TodayMXInUTC, Today
  <2> QED
    BY <1>1, <2>1, <2>2, <2>3, <2>4, <2>5
<1>4. \A d \in Nat : Cardinality(OnDay(metadata, d)) \in Nat
  BY OneMoreRow DEF ManualTypes
<1> QED
  BY <1>2, <1>3, <1>4

\* A day that is not full has room for the two rows of a request.
LEMMA DayHasRoom ==
  ASSUME ManualTypes, InOrder, ~DayIsFull, NEW d \in Nat, Today <= d
  PROVE  Cardinality(OnDay(metadata, d)) + 2 <= MaxManualSyncPerDay + 1
<1> DEFINE counted == {r \in metadata : r.created >= TodayMXInUTC}
<1>1. IsFiniteSet(counted) /\ Cardinality(counted) \in Nat
  BY FS_Subset, FS_CardinalityType DEF ManualTypes
<1>2. OnDay(metadata, d) \subseteq counted
  <2> SUFFICES ASSUME NEW r \in metadata, DayOf(r) = d PROVE r.created >= TodayMXInUTC
    BY DEF OnDay
  <2>1. TodayMXInUTC <= r.created
    BY TodayFollows DEF InOrder
  <2> QED
    BY <2>1
<1>3. Cardinality(OnDay(metadata, d)) <= Cardinality(counted)
  BY <1>1, <1>2, FS_Subset
<1>4. ~(Cardinality(counted) >= MaxManualSyncPerDay)
  BY DEF DayIsFull
<1>5. Cardinality(OnDay(metadata, d)) \in Nat
  BY TodayFollows
<1> HIDE DEF counted
<1> QED
  BY <1>1, <1>3, <1>4, <1>5, ManualSyncAssumption

\* One request moves on, and brings no row: what is left to show of it.
LEMMA RequestMoves ==
  ASSUME ManualIInv, NEW k \in Asking, NEW call \in AskingCall,
         asking' = [asking EXCEPT ![k] = call], time' = time, metadata' = metadata,
         asking[k].step \notin {"refused", "done"}, call.step # "none",
         call.step = "sent" => call.due \in 1 .. Directions,
         asking[k].step = "sent" => call.step \in {"sent", "done"},
         \A j \in Asking : j < k => asking[j].step # "none"
  PROVE  /\ asking' \in [Asking -> AskingCall] /\ InOrder' /\ asking'[k] = call
         /\ \A j \in Asking : j # k => asking'[j] = asking[j] /\ ToCome(j)' = ToCome(j)
<1> USE DEF ManualIInv
<1>1. /\ asking'[k] = call /\ \A j \in Asking : j # k => asking'[j] = asking[j]
      /\ asking' \in [Asking -> AskingCall]
  BY DEF ManualTypes
<1>2. asking[k].step \in {"none", "counted", "sent"}
  BY DEF ManualTypes, AskingCall
<1>3. InOrder'
  <2>1. ASSUME NEW i \in Asking, NEW j \in Asking, i < j, asking'[i].step = "none"
        PROVE  asking'[j].step = "none"
    <3>1. i # k /\ asking[i].step = "none" /\ asking[j].step = "none"
      BY <1>1, <2>1 DEF InOrder
    <3>2. j # k
      BY <2>1, <3>1
    <3> QED
      BY <1>1, <3>1, <3>2
  <2>2. ASSUME NEW r \in metadata PROVE asking'[r.by].step \in {"sent", "done"}
    <3>1. r.by \in Asking /\ asking[r.by].step \in {"sent", "done"}
      BY DEF InOrder, ManualTypes, ManualRow
    <3>2. CASE r.by = k
      BY <1>1, <1>2, <3>1, <3>2
    <3>3. CASE r.by # k
      BY <1>1, <3>1, <3>3
    <3> QED
      BY <3>2, <3>3
  <2>3. \A j \in Asking : asking'[j].step = "sent" => asking'[j].due \in 1 .. Directions
    BY <1>1 DEF InOrder
  <2> QED
    BY <2>1, <2>2, <2>3 DEF InOrder
<1>4. ASSUME NEW j \in Asking, j # k PROVE ToCome(j)' = ToCome(j)
  BY <1>1, <1>4 DEF ToCome
<1> QED
  BY <1>1, <1>3, <1>4 DEF ManualTypes

\* Its rows still fit when it asks for no more than before, or than the day has room for.
LEMMA StillFits ==
  ASSUME ManualTypes, RowsFit, NEW k \in Asking, time' = time, metadata' = metadata,
         \A j \in Asking : j # k => ToCome(j)' = ToCome(j),
         ToCome(k) \in 0 .. 2, ToCome(k)' \in 0 .. 2,
         \/ ToCome(k)' <= ToCome(k)
         \/ \A d \in Nat : Today <= d => Cardinality(OnDay(metadata, d)) + 2 <= MaxManualSyncPerDay + 1
  PROVE  RowsFit'
<1>1. Today' = Today
  BY DEF Today
<1>2. ASSUME NEW d \in Nat, Today <= d, NEW j \in Asking
      PROVE  Cardinality(OnDay(metadata, d)) + ToCome(j)' <= MaxManualSyncPerDay + 1
  <2>1. Cardinality(OnDay(metadata, d)) + ToCome(j) <= MaxManualSyncPerDay + 1
    BY <1>2 DEF RowsFit
  <2>2. Cardinality(OnDay(metadata, d)) \in Nat
    BY TodayFollows
  <2>3. CASE j = k
    BY <1>2, <2>1, <2>2, <2>3, ManualSyncAssumption
  <2>4. CASE j # k
    BY <2>1, <2>4
  <2> QED
    BY <2>3, <2>4
<1> QED
  BY <1>1, <1>2 DEF RowsFit

LEMMA CountTodayStep ==
  ASSUME ManualIInv, NEW k \in Asking, CountToday(k) PROVE ManualIInv'
<1> USE DEF ManualIInv
<1>1. /\ asking[k].step = "none"
      /\ overlapped' = (overlapped \/ \E j \in Asking : Busy(j))
      /\ time' = time /\ metadata' = metadata
      /\ \A j \in Asking : j < k => asking[j].step # "none"
  BY DEF CountToday, Asking
<1>2. asking[k] \in AskingCall
  BY DEF ManualTypes
<1>3. PICK call \in AskingCall :
        /\ asking' = [asking EXCEPT ![k] = call]
        /\ \/ call.step = "refused"
           \/ call.step = "counted" /\ ~DayIsFull
           \/ call.step = "counted" /\ "today" \in call.unread
  <2>1. CASE asking' = [asking EXCEPT ![k].step = "refused"]
    <3>1. [asking[k] EXCEPT !.step = "refused"] \in AskingCall
          /\ [asking[k] EXCEPT !.step = "refused"].step = "refused"
      BY <1>2 DEF AskingCall
    <3> QED
      BY <2>1, <3>1
  <2>2. CASE ~DayIsFull /\ asking' = [asking EXCEPT ![k].step = "counted"]
    <3>1. [asking[k] EXCEPT !.step = "counted"] \in AskingCall
          /\ [asking[k] EXCEPT !.step = "counted"].step = "counted"
      BY <1>2 DEF AskingCall
    <3> QED
      BY <2>2, <3>1
  <2>3. CASE asking' = [asking EXCEPT ![k] = Unread([@ EXCEPT !.step = "counted"], "today")]
    <3> DEFINE call == Unread([asking[k] EXCEPT !.step = "counted"], "today")
    <3>1. call \in AskingCall /\ call.step = "counted" /\ "today" \in call.unread
      BY <1>2 DEF AskingCall, Unread, Count
    <3>2. asking' = [asking EXCEPT ![k] = call]
      BY <2>3
    <3> HIDE DEF call
    <3> QED
      BY <3>1, <3>2
  <2> QED
    BY <2>1, <2>2, <2>3 DEF CountToday, Refused
<1>4. /\ asking' \in [Asking -> AskingCall] /\ InOrder' /\ asking'[k] = call
      /\ \A j \in Asking : j # k => asking'[j] = asking[j] /\ ToCome(j)' = ToCome(j)
  BY <1>1, <1>3, RequestMoves
<1>5. ManualTypes'
  BY <1>1, <1>4 DEF ManualTypes
<1>6. ASSUME ~overlapped' PROVE LaterWait' /\ RowsFit' /\ OthersPassed' /\ RowsPassed'
  <2>1. ~overlapped /\ \A j \in Asking : ~Busy(j)
    BY <1>1, <1>6 DEF ManualTypes
  <2>2. \A j \in Asking : j # k => ~Busy(j)'
    BY <1>4, <2>1 DEF Busy
  <2>3. LaterWait'
    <3>1. ASSUME NEW j \in Asking, k < j PROVE asking'[j].step = "none"
      <4>1. j # k
        BY <3>1 DEF Asking
      <4> QED
        BY <1>1, <1>4, <3>1, <4>1 DEF InOrder
    <3> QED
      BY <2>2, <3>1 DEF LaterWait
  <2>4. OthersPassed'
    <3>1. \A j \in Asking : asking'[j].step # "sent"
      BY <1>3, <1>4, <2>1 DEF Busy
    <3> QED
      BY <3>1 DEF OthersPassed
  <2>5. RowsFit'
    <3>1. ToCome(k) = 0
      BY <1>1 DEF ToCome
    <3>2. ToCome(k)' \in {0, 2} /\ (ToCome(k)' = 2 => ~DayIsFull)
      BY <1>3, <1>4 DEF ToCome, Directions
    <3>3. CASE ToCome(k)' = 0
      BY <1>1, <1>4, <2>1, <3>1, <3>3, StillFits
    <3>4. CASE ~DayIsFull
      <4>1. \A d \in Nat : Today <= d => Cardinality(OnDay(metadata, d)) + 2 <= MaxManualSyncPerDay + 1
        BY <1>4, <3>4, DayHasRoom
      <4> QED
        BY <1>1, <1>4, <2>1, <3>1, <3>2, <4>1, StillFits
    <3> QED
      BY <3>2, <3>3, <3>4
  <2>6. RowsPassed'
    BY <1>1, <2>1 DEF RowsPassed
  <2> QED
    BY <2>3, <2>4, <2>5, <2>6
<1> QED
  BY <1>4, <1>5, <1>6

\* A request that has been counted goes on, or is refused.
LEMMA CountInProgressStep ==
  ASSUME ManualIInv, NEW k \in Asking, CountInProgress(k) PROVE ManualIInv'
<1> USE DEF ManualIInv
<1>1. /\ asking[k].step = "counted" /\ time' = time /\ metadata' = metadata /\ overlapped' = overlapped
  BY DEF CountInProgress
<1>2. asking[k] \in AskingCall
  BY DEF ManualTypes
<1>3. PICK call \in AskingCall :
        /\ asking' = [asking EXCEPT ![k] = call]
        /\ "today" \in call.unread <=> "today" \in asking[k].unread
        /\ \/ call.step = "refused"
           \/ call.step = "sent" /\ call.due = 2 /\ (InProgress = {} \/ "progress" \in call.unread)
  <2>1. CASE asking' = [asking EXCEPT ![k].step = "refused"]
    <3>1. [asking[k] EXCEPT !.step = "refused"] \in AskingCall
          /\ [asking[k] EXCEPT !.step = "refused"].step = "refused"
          /\ [asking[k] EXCEPT !.step = "refused"].unread = asking[k].unread
      BY <1>2 DEF AskingCall
    <3> QED
      BY <2>1, <3>1
  <2>2. CASE InProgress = {} /\ asking' = [asking EXCEPT ![k] = PublishManual(@)]
    <3> DEFINE call == PublishManual(asking[k])
    <3>1. call \in AskingCall /\ call.step = "sent" /\ call.due = 2 /\ call.unread = asking[k].unread
      BY <1>2 DEF AskingCall, PublishManual, Directions
    <3>2. asking' = [asking EXCEPT ![k] = call]
      BY <2>2
    <3> HIDE DEF call
    <3> QED
      BY <2>2, <3>1, <3>2
  <2>3. CASE asking' = [asking EXCEPT ![k] = Unread(PublishManual(@), "progress")]
    <3> DEFINE call == Unread(PublishManual(asking[k]), "progress")
    <3>1. /\ call \in AskingCall /\ call.step = "sent" /\ call.due = 2
          /\ call.unread = asking[k].unread \cup {"progress"}
      BY <1>2 DEF AskingCall, Unread, PublishManual, Directions, Count
    <3>2. asking' = [asking EXCEPT ![k] = call]
      BY <2>3
    <3> HIDE DEF call
    <3> QED
      BY <3>1, <3>2
  <2> QED
    BY <2>1, <2>2, <2>3 DEF CountInProgress, Refused
<1>4. Busy(k)
  BY <1>1 DEF Busy
<1>5. \A j \in Asking : j < k => asking[j].step # "none"
  BY <1>1 DEF InOrder
<1>6. /\ asking' \in [Asking -> AskingCall] /\ InOrder' /\ asking'[k] = call
      /\ \A j \in Asking : j # k => asking'[j] = asking[j] /\ ToCome(j)' = ToCome(j)
  <2>1. call.step = "sent" => call.due \in 1 .. Directions
    BY <1>3 DEF Directions
  <2>2. call.step # "none" /\ asking[k].step \notin {"refused", "done", "sent"}
    BY <1>1, <1>3
  <2> QED
    BY <1>1, <1>3, <1>5, <2>1, <2>2, RequestMoves
<1>8. ManualTypes'
  BY <1>1, <1>6 DEF ManualTypes
<1>7. ASSUME ~overlapped' PROVE LaterWait' /\ RowsFit' /\ OthersPassed' /\ RowsPassed'
  <2>1. ~overlapped
    BY <1>1, <1>7
  <2>2. \A j \in Asking : j # k => ~Busy(j)
    <3>1. \A j \in Asking : j # k => j < k \/ k < j
      BY DEF Asking
    <3> QED
      BY <1>1, <1>4, <2>1, <3>1 DEF LaterWait, Busy
  <2>3. LaterWait'
    <3>1. \A j \in Asking : k < j => asking'[j].step = "none"
      <4>1. \A j \in Asking : k < j => j # k
        BY DEF Asking
      <4> QED
        BY <1>4, <1>6, <2>1, <4>1 DEF LaterWait
    <3>2. \A j \in Asking : j # k => ~Busy(j)'
      BY <1>6, <2>2 DEF Busy
    <3> QED
      BY <3>1, <3>2 DEF LaterWait
  <2>4. RowsFit'
    <3>1. ToCome(k) \in {0, 2} /\ (ToCome(k)' = ToCome(k) \/ ToCome(k)' = 0)
      BY <1>1, <1>3, <1>6 DEF ToCome, Directions
    <3> QED
      BY <1>1, <1>6, <2>1, <3>1, StillFits
  <2>5. OthersPassed'
    <3>1. ASSUME NEW j \in Asking, asking'[j].step = "sent", "progress" \notin asking'[j].unread,
                 NEW r \in metadata, r.query = "running"
          PROVE  r.created + BlockHours < time
      <4>1. j = k /\ InProgress = {}
        BY <1>3, <1>6, <2>2, <3>1 DEF Busy
      <4>2. ~(r.created + BlockHours >= time)
        BY <3>1, <4>1 DEF InProgress
      <4> QED
        BY <4>2, ManualSyncAssumption DEF ManualTypes, ManualRow
    <3> QED
      BY <1>1, <3>1 DEF OthersPassed
  <2>6. RowsPassed'
    BY <1>1, <2>1 DEF RowsPassed
  <2> QED
    BY <2>3, <2>4, <2>5, <2>6
<1> QED
  BY <1>6, <1>7, <1>8

\* The creation of a company comes before every request, so there are no rows yet.
LEMMA AutoSyncStep ==
  ASSUME ManualIInv, NEW k \in Asking, AutoSync(k) PROVE ManualIInv'
<1> USE DEF ManualIInv
<1> DEFINE call == PublishManual(asking[k])
<1>1. /\ k = 1 /\ asking[k].step = "none"
      /\ asking' = [asking EXCEPT ![k] = call]
      /\ time' = time /\ metadata' = metadata /\ overlapped' = overlapped
  BY DEF AutoSync
<1>2. call \in AskingCall /\ call.step = "sent" /\ call.due = 2
  <2>1. asking[k] \in AskingCall
    BY DEF ManualTypes
  <2> QED
    BY <2>1 DEF AskingCall, PublishManual, Directions
<1> HIDE DEF call
<1>3. ASSUME NEW j \in Asking, j # k PROVE k < j
  BY <1>1, <1>3 DEF Asking
<1>4. \A j \in Asking : asking[j].step = "none"
  BY <1>1, <1>3 DEF InOrder
<1>5. metadata = {}
  BY <1>4 DEF InOrder, ManualTypes, ManualRow
<1>6. \A j \in Asking : ~(j < k)
  BY <1>1 DEF Asking
<1>7. /\ asking' \in [Asking -> AskingCall] /\ InOrder' /\ asking'[k] = call
      /\ \A j \in Asking : j # k => asking'[j] = asking[j] /\ ToCome(j)' = ToCome(j)
  <2>1. call.step = "sent" => call.due \in 1 .. Directions
    BY <1>2 DEF Directions
  <2>2. call.step # "none" /\ asking[k].step \notin {"refused", "done", "sent"}
    BY <1>1, <1>2
  <2> QED
    BY <1>1, <1>2, <1>6, <2>1, <2>2, RequestMoves
<1>8. LaterWait' /\ OthersPassed' /\ RowsPassed'
  <2>1. \A j \in Asking : j # k => ~Busy(j)' /\ asking'[j].step = "none"
    BY <1>4, <1>7 DEF Busy
  <2>2. \A j \in Asking : k < j => j # k
    BY DEF Asking
  <2> QED
    BY <1>1, <1>5, <2>1, <2>2 DEF LaterWait, OthersPassed, RowsPassed
<1>9. RowsFit'
  <2>1. \A j \in Asking : ToCome(j)' \in 0 .. 2
    <3>1. ToCome(k)' \in 0 .. 2
      BY <1>2, <1>7 DEF ToCome
    <3>2. \A j \in Asking : j # k => ToCome(j)' = 0
      BY <1>4, <1>7 DEF ToCome
    <3> QED
      BY <3>1, <3>2
  <2>2. \A d : OnDay(metadata', d) = {}
    BY <1>1, <1>5 DEF OnDay
  <2>3. \A d : Cardinality(OnDay(metadata', d)) = 0
    BY <2>2, FS_EmptySet
  <2> QED
    BY <2>1, <2>3, ManualSyncAssumption DEF RowsFit
<1>10. ManualTypes'
  BY <1>1, <1>7 DEF ManualTypes
<1> QED
  BY <1>7, <1>8, <1>9, <1>10

-----------------------------------------------------------------------------
\* What a row less to come leaves of a request.
LEMMA RowLess ==
  ASSUME ManualIInv, NEW k \in Asking, asking[k].step = "sent"
  PROVE  /\ asking[k].due \in 1 .. 2
         /\ OneLess(asking[k]) \in AskingCall
         /\ OneLess(asking[k]).step = (IF asking[k].due = 1 THEN "done" ELSE "sent")
         /\ OneLess(asking[k]).due = asking[k].due - 1
         /\ OneLess(asking[k]).unread = asking[k].unread
         /\ ~overlapped => \A j \in Asking : /\ j # k => ~Busy(j)
                                             /\ k < j => j # k /\ asking[j].step = "none"
<1>1. asking[k].due \in 1 .. 2 /\ asking[k] \in AskingCall
  BY DEF ManualIInv, ManualTypes, InOrder, Directions
<1>2. /\ OneLess(asking[k]) \in AskingCall
      /\ OneLess(asking[k]).step = (IF asking[k].due = 1 THEN "done" ELSE "sent")
      /\ OneLess(asking[k]).due = asking[k].due - 1
      /\ OneLess(asking[k]).unread = asking[k].unread
  BY <1>1 DEF OneLess, AskingCall, Directions
<1>3. \A j \in Asking : /\ k < j => j # k
                        /\ j # k => j < k \/ k < j
  BY DEF Asking
<1> QED
  BY <1>1, <1>2, <1>3 DEF ManualIInv, LaterWait, Busy

LEMMA InsertRowStep ==
  ASSUME ManualIInv, NEW k \in Asking, InsertRow(k) PROVE ManualIInv'
<1> USE DEF ManualIInv
<1> DEFINE row  == [by |-> k, due |-> asking[k].due, created |-> time, query |-> "running",
                    copy |-> FALSE, unread |-> asking[k].unread]
           call == OneLess(asking[k])
<1>1. /\ asking[k].step = "sent" /\ metadata' = metadata \cup {row}
      /\ asking' = [asking EXCEPT ![k] = call]
      /\ time' = time /\ overlapped' = overlapped
  BY DEF InsertRow
<1>2. /\ asking[k].due \in 1 .. 2
      /\ call \in AskingCall /\ call.step = (IF asking[k].due = 1 THEN "done" ELSE "sent")
      /\ call.due = asking[k].due - 1 /\ call.unread = asking[k].unread
      /\ ~overlapped => \A j \in Asking : /\ j # k => ~Busy(j)
                                          /\ k < j => j # k /\ asking[j].step = "none"
  BY <1>1, RowLess
<1>3. /\ row \in ManualRow /\ row.by = k /\ row.created = time /\ row.unread = asking[k].unread
      /\ LetIn(row) <=> "today" \notin asking[k].unread
  <2>1. asking[k] \in AskingCall /\ asking[k].due \in 0 .. Directions
    BY <1>2 DEF ManualTypes, Directions
  <2> QED
    BY <2>1 DEF ManualRow, ManualTypes, AskingCall, LetIn
<1> HIDE DEF row, call
<1>4. /\ asking'[k] = call /\ \A j \in Asking : j # k => asking'[j] = asking[j]
      /\ asking' \in [Asking -> AskingCall]
  BY <1>1, <1>2 DEF ManualTypes
<1>5. ManualTypes'
  <2>1. IsFiniteSet(metadata \cup {row})
    BY FS_AddElement DEF ManualTypes
  <2> QED
    BY <1>1, <1>3, <1>4, <2>1 DEF ManualTypes
<1>6. InOrder'
  <2>1. ASSUME NEW i \in Asking, NEW j \in Asking, i < j, asking'[i].step = "none"
        PROVE  asking'[j].step = "none"
    <3>1. i # k /\ asking[i].step = "none" /\ asking[j].step = "none"
      BY <1>2, <1>4, <2>1 DEF InOrder
    <3> QED
      BY <1>1, <1>4, <3>1
  <2>2. \A j \in Asking : asking'[j].step = "sent" => asking'[j].due \in 1 .. Directions
    <3>1. call.step = "sent" => call.due \in 1 .. 2
      BY <1>2
    <3> QED
      BY <1>4, <3>1 DEF InOrder, Directions
  <2>3. ASSUME NEW r \in metadata \cup {row}
        PROVE  LagHours <= r.created /\ r.created <= time /\ asking'[r.by].step \in {"sent", "done"}
    <3>1. CASE r = row
      BY <1>2, <1>3, <1>4, <3>1, ManualSyncAssumption DEF ManualTypes
    <3>2. CASE r \in metadata
      <4>1. r.by \in Asking
        BY <3>2 DEF ManualTypes, ManualRow
      <4> QED
        BY <1>2, <1>4, <3>2, <4>1 DEF InOrder
    <3> QED
      BY <2>3, <3>1, <3>2
  <2> QED
    BY <1>1, <2>1, <2>2, <2>3 DEF InOrder
<1>7. ASSUME ~overlapped' PROVE LaterWait' /\ RowsFit' /\ OthersPassed' /\ RowsPassed'
  <2>1. ~overlapped
    BY <1>1, <1>7
  <2>2. \A j \in Asking : j # k => ~Busy(j) /\ ~Busy(j)' /\ ToCome(j)' = 0
    BY <1>2, <1>4, <2>1 DEF Busy, ToCome
  <2>3. LaterWait'
    BY <1>2, <1>4, <2>1, <2>2 DEF LaterWait
  <2>4. RowsFit'
    <3>1. Today' = Today /\ DayOf(row) = Today
      BY <1>1, <1>3 DEF Today, DayOf
    <3>2. ASSUME NEW d \in Nat, Today <= d, LetIn(row)
          PROVE  Cardinality(OnDay(metadata', d)) + asking[k].due - 1 <= MaxManualSyncPerDay + 1
      <4>1. ToCome(k) = asking[k].due
        BY <1>1, <1>3, <3>2 DEF ToCome
      <4>2. Cardinality(OnDay(metadata, d)) + asking[k].due <= MaxManualSyncPerDay + 1
        BY <2>1, <4>1, <3>2 DEF RowsFit
      <4>3. /\ Cardinality(OnDay(metadata, d)) \in Nat /\ Cardinality(OnDay(metadata', d)) \in Nat
            /\ Cardinality(OnDay(metadata', d)) <= Cardinality(OnDay(metadata, d)) + 1
        BY <1>1, <1>5, OneMoreRow DEF ManualTypes
      <4> QED
        BY <1>2, <4>2, <4>3, ManualSyncAssumption
    <3>3. ASSUME NEW d \in Nat PROVE Cardinality(OnDay(metadata', d)) <= MaxManualSyncPerDay + 1
      <4>1. CASE Today = d /\ LetIn(row)
        <5>1. Cardinality(OnDay(metadata', d)) \in Nat
          BY <1>5, OneMoreRow DEF ManualTypes
        <5> QED
          BY <1>2, <3>2, <4>1, <5>1, ManualSyncAssumption
      <4>2. CASE ~(Today = d /\ LetIn(row))
        <5>1. OnDay(metadata', d) = OnDay(metadata, d)
          BY <1>1, <3>1, <4>2, OneMoreRow DEF ManualTypes
        <5> QED
          BY <2>1, <5>1 DEF RowsFit
      <4> QED
        BY <4>1, <4>2
    <3>4. ASSUME NEW d \in Nat, Today <= d, NEW j \in Asking
          PROVE  Cardinality(OnDay(metadata', d)) + ToCome(j)' <= MaxManualSyncPerDay + 1
      <4>1. Cardinality(OnDay(metadata', d)) \in Nat
        BY <1>5, OneMoreRow DEF ManualTypes
      <4>2. ToCome(k)' = (IF LetIn(row) THEN asking[k].due - 1 ELSE 0)
        BY <1>2, <1>3, <1>4 DEF ToCome
      <4>3. CASE j = k /\ LetIn(row)
        BY <1>2, <3>2, <3>4, <4>1, <4>2, <4>3
      <4>4. CASE ~(j = k /\ LetIn(row))
        <5>1. ToCome(j)' = 0
          BY <2>2, <4>2, <4>4
        <5> QED
          BY <3>3, <4>1, <5>1
      <4> QED
        BY <4>3, <4>4
    <3> QED
      BY <3>1, <3>3, <3>4 DEF RowsFit
  <2>5. ASSUME "progress" \notin asking[k].unread, NEW r \in metadata, r.by # k, ~r.copy,
               r.query = "running"
        PROVE  r.created + BlockHours < time
    BY <1>1, <2>1, <2>5 DEF OthersPassed
  <2>6. OthersPassed'
    <3>1. ASSUME NEW j \in Asking, asking'[j].step = "sent", "progress" \notin asking'[j].unread,
                 NEW r \in metadata \cup {row}, r.by # j, ~r.copy, r.query = "running"
          PROVE  r.created + BlockHours < time
      <4>1. j = k
        BY <2>2, <3>1 DEF Busy
      <4>2. r \in metadata
        BY <1>3, <3>1, <4>1
      <4> QED
        BY <1>2, <1>4, <2>5, <3>1, <4>1, <4>2
    <3> QED
      BY <1>1, <3>1 DEF OthersPassed
  <2>7. RowsPassed'
    <3>1. ASSUME NEW r \in metadata \cup {row}, NEW s \in metadata \cup {row},
                 r.by < s.by, ~r.copy, r.query = "running", "progress" \notin s.unread
          PROVE  r.created + BlockHours < s.created
      <4>1. CASE r = row
        <5>1. s.by \in Asking /\ k < s.by
          BY <1>3, <3>1, <4>1 DEF ManualTypes, ManualRow
        <5>2. s # row /\ asking[s.by].step = "none"
          BY <1>2, <1>3, <2>1, <5>1
        <5> QED
          BY <3>1, <5>2 DEF InOrder
      <4>2. CASE r # row /\ s = row
        <5>1. r.by # k
          BY <1>3, <3>1, <4>2 DEF Asking
        <5> QED
          BY <1>3, <2>5, <3>1, <4>2, <5>1
      <4>3. CASE r # row /\ s # row
        BY <2>1, <3>1, <4>3 DEF RowsPassed
      <4> QED
        BY <4>1, <4>2, <4>3
    <3> QED
      BY <1>1, <3>1 DEF RowsPassed
  <2> QED
    BY <2>3, <2>4, <2>6, <2>7
<1> QED
  BY <1>5, <1>6, <1>7

LEMMA RowLostStep ==
  ASSUME ManualIInv, NEW k \in Asking, RowLost(k) PROVE ManualIInv'
<1> USE DEF ManualIInv
<1> DEFINE call == OneLess(asking[k])
<1>1. /\ asking[k].step = "sent" /\ metadata' = metadata
      /\ asking' = [asking EXCEPT ![k] = call]
      /\ time' = time /\ overlapped' = overlapped
  BY DEF RowLost
<1>2. /\ asking[k].due \in 1 .. 2
      /\ call \in AskingCall /\ call.step = (IF asking[k].due = 1 THEN "done" ELSE "sent")
      /\ call.due = asking[k].due - 1 /\ call.unread = asking[k].unread
      /\ ~overlapped => \A j \in Asking : /\ j # k => ~Busy(j)
                                          /\ k < j => j # k /\ asking[j].step = "none"
  BY <1>1, RowLess
<1> HIDE DEF call
<1>3. \A j \in Asking : j < k => asking[j].step # "none"
  BY <1>1 DEF InOrder
<1>4. /\ asking' \in [Asking -> AskingCall] /\ InOrder' /\ asking'[k] = call
      /\ \A j \in Asking : j # k => asking'[j] = asking[j] /\ ToCome(j)' = ToCome(j)
  <2>1. call.step \in {"sent", "done"} /\ (call.step = "sent" => call.due \in 1 .. Directions)
    BY <1>2 DEF Directions
  <2> QED
    BY <1>1, <1>2, <1>3, <2>1, RequestMoves
<1>5. ASSUME ~overlapped' PROVE LaterWait' /\ RowsFit' /\ OthersPassed' /\ RowsPassed'
  <2>1. ~overlapped
    BY <1>1, <1>5
  <2>2. \A j \in Asking : j # k => ~Busy(j)'
    BY <1>2, <1>4, <2>1 DEF Busy
  <2>3. LaterWait'
    BY <1>2, <1>4, <2>1, <2>2 DEF LaterWait
  <2>4. RowsFit'
    <3>1. ToCome(k) \in 0 .. 2 /\ ToCome(k)' \in 0 .. 2 /\ ToCome(k)' <= ToCome(k)
      <4>1. CASE "today" \in asking[k].unread
        BY <1>1, <1>2, <1>4, <4>1 DEF ToCome
      <4>2. CASE "today" \notin asking[k].unread
        <5>1. ToCome(k) = asking[k].due /\ ToCome(k)' = asking[k].due - 1
          BY <1>1, <1>2, <1>4, <4>2 DEF ToCome
        <5> QED
          BY <1>2, <5>1
      <4> QED
        BY <4>1, <4>2
    <3> QED
      BY <1>1, <1>4, <2>1, <3>1, StillFits
  <2>5. OthersPassed'
    <3>1. \A j \in Asking : asking'[j].step = "sent" => j = k
      BY <2>2 DEF Busy
    <3> QED
      BY <1>1, <1>2, <1>4, <2>1, <3>1 DEF OthersPassed
  <2>6. RowsPassed'
    BY <1>1, <2>1 DEF RowsPassed
  <2> QED
    BY <2>3, <2>4, <2>5, <2>6
<1>6. ManualTypes'
  BY <1>1, <1>4 DEF ManualTypes
<1> QED
  BY <1>4, <1>5, <1>6

\* A copy is not let in by a count, and no request has passed it.
LEMMA InsertAgainStep ==
  ASSUME ManualIInv, NEW r \in metadata, InsertAgain(r) PROVE ManualIInv'
<1> USE DEF ManualIInv
<1> DEFINE s == [r EXCEPT !.created = time, !.query = "running", !.copy = TRUE]
<1>1. /\ metadata' = metadata \cup {s}
      /\ asking' = asking /\ time' = time /\ overlapped' = overlapped
  BY DEF InsertAgain
<1>2. r \in ManualRow
  BY DEF ManualTypes
<1>3. s \in ManualRow /\ s.by = r.by /\ s.created = time /\ s.copy /\ s.unread = r.unread
  BY <1>2 DEF ManualTypes, ManualRow
<1> HIDE DEF s
<1>4. ManualTypes'
  <2>1. IsFiniteSet(metadata \cup {s})
    BY FS_AddElement DEF ManualTypes
  <2> QED
    BY <1>1, <1>3, <2>1 DEF ManualTypes
<1>5. InOrder'
  <2>1. LagHours <= time /\ time <= time
    BY ManualSyncAssumption DEF ManualTypes
  <2>2. \A q \in metadata \cup {s} :
          LagHours <= q.created /\ q.created <= time /\ asking[q.by].step \in {"sent", "done"}
    BY <1>3, <2>1 DEF InOrder
  <2>3. asking' = asking /\ time' = time /\ metadata' = metadata \cup {s}
    BY <1>1
  <2> QED
    BY <2>2, <2>3 DEF InOrder
<1>6. ASSUME ~overlapped' PROVE LaterWait' /\ RowsFit' /\ OthersPassed' /\ RowsPassed'
  <2>1. ~overlapped
    BY <1>1, <1>6
  <2>2. LaterWait' /\ OthersPassed'
    BY <1>1, <1>3, <2>1 DEF LaterWait, Busy, OthersPassed
  <2>3. RowsFit'
    <3>1. Today' = Today /\ \A j \in Asking : ToCome(j)' = ToCome(j)
      BY <1>1 DEF Today, ToCome
    <3>2. \A d \in Nat : OnDay(metadata', d) = OnDay(metadata, d)
      BY <1>1, <1>3 DEF OnDay, LetIn
    <3> QED
      BY <2>1, <3>1, <3>2 DEF RowsFit
  <2>4. RowsPassed'
    <3>1. ASSUME NEW q \in metadata, q.by < s.by, ~q.copy, q.query = "running",
                 "progress" \notin s.unread
          PROVE  q.created + BlockHours < s.created
      <4>1. q.created + BlockHours < r.created
        BY <1>3, <2>1, <3>1 DEF RowsPassed
      <4>2. r.created <= time
        BY DEF InOrder
      <4>3. q.created \in Nat /\ r.created \in Nat /\ time \in Nat /\ BlockHours \in Nat
        BY ManualSyncAssumption DEF ManualTypes, ManualRow
      <4> QED
        BY <1>3, <4>1, <4>2, <4>3
    <3> QED
      BY <1>1, <1>3, <2>1, <3>1 DEF RowsPassed
  <2> QED
    BY <2>2, <2>3, <2>4
<1> QED
  BY <1>4, <1>5, <1>6

\* A row that is final, or was, stands for its query in no count of those that run.
LEMMA QueryMovesStep ==
  ASSUME ManualIInv, NEW r \in metadata, QueryIsFinal(r) \/ QueryReturns(r)
  PROVE  ManualIInv'
<1> USE DEF ManualIInv
<1>0. PICK to \in {"final", "again"} : metadata' = (metadata \ {r}) \cup {[r EXCEPT !.query = to]}
  BY DEF QueryIsFinal, QueryReturns
<1> DEFINE s == [r EXCEPT !.query = to]
<1>1. /\ metadata' = (metadata \ {r}) \cup {s}
      /\ asking' = asking /\ time' = time /\ overlapped' = overlapped
  BY <1>0 DEF QueryIsFinal, QueryReturns
<1>2. r \in ManualRow
  BY DEF ManualTypes
<1>3. /\ s \in ManualRow /\ s.created = r.created /\ s.by = r.by /\ s.query # "running"
      /\ s.copy = r.copy /\ s.unread = r.unread
  BY <1>2 DEF ManualRow
<1> HIDE DEF s
<1>4. ManualTypes'
  <2>1. IsFiniteSet(metadata \ {r})
    BY FS_RemoveElement DEF ManualTypes
  <2>2. IsFiniteSet((metadata \ {r}) \cup {s})
    BY <2>1, FS_AddElement
  <2> QED
    BY <1>1, <1>3, <2>2 DEF ManualTypes
<1>5. InOrder'
  BY <1>1, <1>3 DEF InOrder
<1>6. ASSUME ~overlapped' PROVE LaterWait' /\ RowsFit' /\ OthersPassed' /\ RowsPassed'
  <2>1. ~overlapped
    BY <1>1, <1>6
  <2>2. LaterWait' /\ OthersPassed' /\ RowsPassed'
    BY <1>1, <1>3, <2>1 DEF LaterWait, Busy, OthersPassed, RowsPassed
  <2>3. Today' = Today /\ \A j \in Asking : ToCome(j)' = ToCome(j) /\ ToCome(j) \in 0 .. 2
    BY <1>1 DEF Today, ToCome, InOrder, Directions
  <2>4. DayOf(s) = DayOf(r) /\ (LetIn(s) <=> LetIn(r))
    BY <1>3 DEF DayOf, LetIn
  <2>5. ASSUME NEW d \in Nat
        PROVE  /\ Cardinality(OnDay(metadata', d)) <= Cardinality(OnDay(metadata, d))
               /\ Cardinality(OnDay(metadata', d)) \in Nat /\ Cardinality(OnDay(metadata, d)) \in Nat
    BY <1>1, <1>4, <2>4, RowForRow, OneMoreRow DEF ManualTypes
  <2>6. ASSUME NEW d \in Nat PROVE Cardinality(OnDay(metadata', d)) <= MaxManualSyncPerDay + 1
    BY <2>1, <2>5, ManualSyncAssumption DEF RowsFit
  <2>7. ASSUME NEW d \in Nat, Today <= d, NEW j \in Asking
        PROVE  Cardinality(OnDay(metadata', d)) + ToCome(j) <= MaxManualSyncPerDay + 1
    <3>1. Cardinality(OnDay(metadata, d)) + ToCome(j) <= MaxManualSyncPerDay + 1
      BY <2>1, <2>7 DEF RowsFit
    <3> QED
      BY <2>3, <2>5, <3>1, ManualSyncAssumption
  <2>8. RowsFit'
    BY <2>3, <2>6, <2>7 DEF RowsFit
  <2> QED
    BY <2>2, <2>8
<1> QED
  BY <1>4, <1>5, <1>6

LEMMA TimePassesStep == ASSUME ManualIInv, TimePasses PROVE ManualIInv'
<1> USE DEF ManualIInv
<1>1. time' = time + 1 /\ asking' = asking /\ metadata' = metadata /\ overlapped' = overlapped
  BY DEF TimePasses
<1>2. ManualTypes' /\ InOrder'
  BY <1>1, ManualSyncAssumption DEF ManualTypes, InOrder, ManualRow
<1>3. Today \in Nat /\ Today' \in Nat /\ Today <= Today'
  <2>1. time - LagHours \in Nat /\ time' - LagHours \in Nat /\ time - LagHours <= time' - LagHours
    BY <1>1, ManualSyncAssumption DEF ManualTypes
  <2> QED
    BY <2>1, DaysFollow, ManualSyncAssumption DEF Today
<1>4. RowsFit => RowsFit'
  <2>1. \A j : ToCome(j)' = ToCome(j)
    BY <1>1 DEF ToCome
  <2>2. \A d \in Nat : Today' <= d => Today <= d
    BY <1>3
  <2> QED
    BY <1>1, <2>1, <2>2 DEF RowsFit
<1>5. OthersPassed => OthersPassed'
  BY <1>1, ManualSyncAssumption DEF OthersPassed, ManualTypes, ManualRow
<1> QED
  BY <1>1, <1>2, <1>4, <1>5 DEF LaterWait, Busy, RowsPassed

LEMMA ManualInvariance == ManualSyncSpec => []ManualIInv
<1>1. ManualSyncInit => ManualIInv
  <2> SUFFICES ASSUME ManualSyncInit PROVE ManualIInv
    OBVIOUS
  <2>1. NoAsking \in AskingCall /\ NoAsking.step = "none"
    BY DEF NoAsking, AskingCall, Directions
  <2>2. /\ time = LagHours /\ metadata = {} /\ overlapped = FALSE
        /\ asking \in [Asking -> AskingCall] /\ \A k \in Asking : asking[k].step = "none"
    BY <2>1 DEF ManualSyncInit
  <2>3. ManualTypes /\ InOrder
    <3>1. IsFiniteSet(metadata)
      BY <2>2, FS_EmptySet
    <3>2. time \in Nat /\ LagHours <= time /\ metadata \subseteq ManualRow
      BY <2>2, ManualSyncAssumption
    <3>3. InOrder
      BY <2>2 DEF InOrder
    <3>4. overlapped \in BOOLEAN
      BY DEF ManualSyncInit
    <3> QED
      BY <2>2, <3>1, <3>2, <3>3, <3>4 DEF ManualTypes
  <2>4. LaterWait /\ OthersPassed /\ RowsPassed
    BY <2>2 DEF LaterWait, Busy, OthersPassed, RowsPassed
  <2>5. RowsFit
    <3>1. \A d : OnDay(metadata, d) = {}
      BY <2>2 DEF OnDay
    <3>2. \A d : Cardinality(OnDay(metadata, d)) = 0
      BY <3>1, FS_EmptySet
    <3> QED
      BY <2>2, <3>2, ManualSyncAssumption DEF RowsFit, ToCome
  <2> QED
    BY <2>3, <2>4, <2>5 DEF ManualIInv
<1>2. ManualIInv /\ [ManualSyncNext]_manualVars => ManualIInv'
  <2> SUFFICES ASSUME ManualIInv, [ManualSyncNext]_manualVars PROVE ManualIInv'
    OBVIOUS
  <2>1. CASE UNCHANGED manualVars
    BY <2>1 DEF manualVars, ManualIInv, ManualTypes, InOrder, LaterWait, Busy, RowsFit, ToCome, Today,
                OthersPassed, RowsPassed
  <2>2. CASE \E k \in Asking : \/ CountToday(k) \/ CountInProgress(k) \/ AutoSync(k)
                               \/ InsertRow(k) \/ RowLost(k)
    BY <2>2, CountTodayStep, CountInProgressStep, AutoSyncStep, InsertRowStep, RowLostStep
  <2>3. CASE \E r \in metadata : InsertAgain(r) \/ QueryIsFinal(r) \/ QueryReturns(r)
    BY <2>3, InsertAgainStep, QueryMovesStep
  <2>4. CASE TimePasses
    BY <2>4, TimePassesStep
  <2> QED
    BY <2>1, <2>2, <2>3, <2>4 DEF ManualSyncNext
<1> QED
  BY <1>1, <1>2, PTL DEF ManualSyncSpec

\* While no request is checked before the rows of another have come, the rows that the
\* count of a day let in are no more than the limit and one on any day of Mexico City,
\* and a query runs together with one of an earlier request only when that has lost its
\* time to block, unless the count failed or the message came again (ManualLimitsHold):
\* for every limit, every day and every number of requests, losses and copies.
THEOREM ManualLimitsAlwaysHold == ManualSyncSpec => []ManualLimitsHold
<1>1. ManualIInv => ManualLimitsHold
  <2> SUFFICES ASSUME ManualIInv, ~overlapped PROVE ManualLimitsHold
    BY DEF ManualLimitsHold, LimitNeedsOverlap, OneSyncAtATime
  <2>1. ASSUME NEW r \in metadata
        PROVE  Cardinality({s \in metadata : DayOf(s) = DayOf(r) /\ LetIn(s)})
                 <= MaxManualSyncPerDay + 1
    <3>1. DayOf(r) \in Nat
      BY TodayFollows DEF ManualIInv, InOrder
    <3>2. OnDay(metadata, DayOf(r)) = {s \in metadata : DayOf(s) = DayOf(r) /\ LetIn(s)}
      BY DEF OnDay
    <3> QED
      BY <3>1, <3>2 DEF ManualIInv, RowsFit
  <2>2. OneSyncAtATime
    BY DEF ManualIInv, RowsPassed, OneSyncAtATime
  <2> QED
    BY <2>1, <2>2 DEF ManualLimitsHold, LimitNeedsOverlap
<1> QED
  BY <1>1, ManualInvariance, PTL

-----------------------------------------------------------------------------
(* Windows and slots *)

DayRange == [start : Nat, until : Nat]

\* Products with the length of a window grow with the other factor.
LEMMA Products ==
  ASSUME NEW n \in Nat
  PROVE  /\ \A x \in Nat : x * n \in Nat /\ (x + 1) * n = x * n + n
         /\ \A x, y \in Nat : x <= y => x * n <= y * n
<1>1. \A x \in Nat : x * n \in Nat /\ (x + 1) * n = x * n + n
  OBVIOUS
<1>2. \A x, y \in Nat : x <= y => x * n <= y * n
  OBVIOUS
<1> QED
  BY <1>1, <1>2

LEMMA Quotient ==
  ASSUME NEW a \in Nat, NEW n \in Nat \ {0}
  PROVE  a \div n \in Nat /\ (a \div n) * n <= a /\ a < (a \div n) * n + n
<1>1. a \div n \in Nat /\ (a \div n) * n <= a /\ a < (a \div n + 1) * n
  OBVIOUS
<1> QED
  BY <1>1, Products

\* The windows of a range: each has 1 to n days, they follow one another, and every day
\* of the range is in one.
LEMMA WindowsOfRange ==
  ASSUME NEW range \in DayRange, range.start < range.until, NEW n \in Nat \ {0},
         NEW windows, windows = ChunkRangeByDays(range, n)
  PROVE  /\ DOMAIN windows \subseteq Nat
         /\ \A i \in DOMAIN windows :
              /\ windows[i] \in DayRange
              /\ windows[i].until - windows[i].start \in 1 .. n
              /\ range.start <= windows[i].start /\ windows[i].until <= range.until
         /\ \A i, j \in DOMAIN windows : i < j => windows[i].until <= windows[j].start
         /\ \A d \in range.start .. (range.until - 1) :
              \E i \in DOMAIN windows : windows[i].start <= d /\ d < windows[i].until
<1> DEFINE size  == range.until - range.start
           count == (size + n - 1) \div n
<1>1. size \in Nat \ {0} /\ range.until \in Nat /\ range.start \in Nat /\ range.until = range.start + size
  BY DEF DayRange
<1>2. DOMAIN windows = 1 .. count
  BY DEF ChunkRangeByDays
<1>3. ASSUME NEW i \in 1 .. count
      PROVE  windows[i] = [start |-> range.start + (i - 1) * n,
                           until |-> Smaller(range.start + i * n, range.until)]
  BY <1>3 DEF ChunkRangeByDays
<1> HIDE DEF size
<1>4. count \in Nat /\ count * n <= size + n - 1 /\ size + n - 1 < count * n + n
  BY <1>1, Quotient
<1> HIDE DEF count
<1>5. size <= count * n /\ count * n \in Nat
  BY <1>1, <1>4, Products
<1>6. ASSUME NEW i \in 1 .. count
      PROVE  /\ i - 1 \in Nat /\ (i - 1) * n \in Nat /\ i * n = (i - 1) * n + n /\ (i - 1) * n < size
  <2>1. i - 1 \in Nat /\ i \in Nat /\ i <= count
    BY <1>4
  <2>2. (i - 1) * n \in Nat /\ i * n = (i - 1) * n + n
    <3>1. (i - 1) * n \in Nat /\ ((i - 1) + 1) * n = (i - 1) * n + n
      BY <2>1, Products
    <3>2. (i - 1) + 1 = i
      BY <2>1
    <3> QED
      BY <3>1, <3>2
  <2>3. i * n <= count * n
    BY <1>4, <2>1, Products
  <2> QED
    BY <1>1, <1>4, <1>5, <2>1, <2>2, <2>3
<1>7. ASSUME NEW i \in 1 .. count
      PROVE  /\ windows[i].start = range.start + (i - 1) * n
             /\ windows[i].until \in {range.start + (i - 1) * n + n, range.until}
             /\ windows[i].until <= range.start + (i - 1) * n + n /\ windows[i].until <= range.until
             /\ windows[i] \in DayRange
  <2>1. windows[i] = [start |-> range.start + (i - 1) * n,
                      until |-> Smaller(range.start + ((i - 1) * n + n), range.until)]
    BY <1>3, <1>6
  <2>2. PICK x \in Nat : x = (i - 1) * n
    BY <1>6
  <2>3. windows[i] = [start |-> range.start + x, until |-> Smaller(range.start + (x + n), range.until)]
    BY <2>1, <2>2
  <2> QED
    BY <1>1, <2>2, <2>3 DEF Smaller, DayRange
<1>8. ASSUME NEW i \in 1 .. count
      PROVE  /\ windows[i].until - windows[i].start \in 1 .. n
             /\ range.start <= windows[i].start
  <2>1. PICK x \in Nat : x = (i - 1) * n
    BY <1>6
  <2>2. x < size
    BY <1>6, <2>1
  <2>3. windows[i].start = range.start + x /\ windows[i].until \in {range.start + x + n, range.until}
        /\ windows[i].until <= range.start + x + n
    BY <1>7, <2>1
  <2> QED
    BY <1>1, <2>2, <2>3
<1>9. ASSUME NEW i \in 1 .. count, NEW j \in 1 .. count, i < j
      PROVE  windows[i].until <= windows[j].start
  <2>1. i \in Nat /\ j - 1 \in Nat /\ i <= j - 1
    BY <1>4, <1>9
  <2>2. i * n <= (j - 1) * n
    BY <2>1, Products
  <2>3. PICK x \in Nat : x = (i - 1) * n
    BY <1>6
  <2>4. PICK y \in Nat : y = (j - 1) * n
    BY <1>6
  <2>5. x + n <= y
    BY <1>6, <2>2, <2>3, <2>4
  <2> QED
    BY <1>1, <1>7, <2>3, <2>4, <2>5
<1>10. ASSUME NEW d \in range.start .. (range.until - 1)
       PROVE  \E i \in 1 .. count : windows[i].start <= d /\ d < windows[i].until
  <2>1. PICK a \in Nat : a = d - range.start /\ a < size /\ d = range.start + a
    BY <1>1, <1>10
  <2>2. PICK q \in Nat : q * n <= a /\ a < q * n + n
    BY Quotient
  <2>3. q + 1 <= count
    <3>1. count <= q => count * n <= q * n
      BY <1>4, Products
    <3>2. q * n \in Nat
      BY Products
    <3> QED
      BY <1>1, <1>4, <1>5, <2>1, <2>2, <3>1, <3>2
  <2>4. q + 1 \in 1 .. count /\ (q + 1) - 1 = q
    BY <1>4, <2>3
  <2>5. PICK x \in Nat : x = q * n
    BY Products
  <2>6. /\ windows[q + 1].start = range.start + x
        /\ windows[q + 1].until \in {range.start + x + n, range.until}
    BY <1>7, <2>4, <2>5
  <2>7. windows[q + 1].start <= d /\ d < windows[q + 1].until
    BY <1>1, <2>1, <2>2, <2>5, <2>6
  <2> QED
    BY <2>4, <2>7
<1>11. DOMAIN windows \subseteq Nat
  BY <1>2, <1>4
<1>12. \A i \in DOMAIN windows :
         /\ windows[i] \in DayRange
         /\ windows[i].until - windows[i].start \in 1 .. n
         /\ range.start <= windows[i].start /\ windows[i].until <= range.until
  BY <1>2, <1>7, <1>8
<1>13. \A i, j \in DOMAIN windows : i < j => windows[i].until <= windows[j].start
  BY <1>2, <1>9
<1>14. \A d \in range.start .. (range.until - 1) :
         \E i \in DOMAIN windows : windows[i].start <= d /\ d < windows[i].until
  BY <1>2, <1>10
<1> QED
  BY <1>11, <1>12, <1>13, <1>14

-----------------------------------------------------------------------------
(* The schedule *)

EnqueuingCall ==
  [step : {"none", "done", "metadata"}, kind : RequestKind, start : Nat, end : Nat,
   dls : {Both, <<"ISSUED">>, <<>>}, days : Nat, hour : Nat]

\* The range of a call, its windows, and what it publishes for one and one direction.
RangeOf(c)   == Clamped(c.start, c.end, c.hour)
WindowsOf(c) == ChunkRangeByDays(RangeOf(c), c.days)

Sent(c, k, by, first, i, j) ==
  [call |-> k, by |-> by, kind |-> c.kind, dl |-> c.dls[j], window |-> WindowsOf(c)[i],
   base |-> c.hour, slot |-> Slot(first, i, j, c.dls)]

\* What the listener for metadata publishes at an hour.
SentLater(k, h, j) ==
  [call |-> k, by |-> "metadata", kind |-> "METADATA", dl |-> Both[j],
   window |-> CompanyBootstrapSATRangeUTC(h), base |-> h, slot |-> j - 1]

\* A call that was made has a range, windows and directions.
Sensible(c) ==
  /\ c.dls \in {Both, <<"ISSUED">>}
  /\ c.days # 0
  /\ RangeOf(c) \in DayRange /\ RangeOf(c).start < RangeOf(c).until

Planned(k) ==
  \E by \in {"admin", "bootstrap"}, first \in {0, 1} :
    {m \in scheduled : m.call = k /\ m.by # "metadata"} =
      {Sent(enqueuing[k], k, by, first, i, j) :
         i \in DOMAIN WindowsOf(enqueuing[k]), j \in DOMAIN enqueuing[k].dls}

WindowTypes ==
  /\ hour \in Nat /\ FirstHour <= hour
  /\ enqueuing \in [Enqueuing -> EnqueuingCall]

WindowsIInv ==
  /\ WindowTypes
  /\ \A m \in scheduled :
       /\ m.call \in Enqueuing /\ enqueuing[m.call].step # "none"
       /\ m.by = "metadata" => \E h \in Nat, j \in 1 .. 2 : m = SentLater(m.call, h, j)
  /\ \A k \in Enqueuing : enqueuing[k].step # "none" => Sensible(enqueuing[k]) /\ Planned(k)

LEMMA MexicanDays ==
  ASSUME NEW h \in Nat, FirstHour <= h
  PROVE  MXCalendarDate(h) \in Nat /\ BootstrapYears * YearLength <= MXCalendarDate(h)
<1>1. /\ FirstHour - MexicoLag \in Nat /\ h - MexicoLag \in Nat /\ FirstHour - MexicoLag <= h - MexicoLag
      /\ DayLength \in Nat \ {0}
  BY SatWindowsAssumption
<1>2. /\ (FirstHour - MexicoLag) \div DayLength \in Nat /\ (h - MexicoLag) \div DayLength \in Nat
      /\ (FirstHour - MexicoLag) \div DayLength <= (h - MexicoLag) \div DayLength
  BY <1>1, DaysFollow
<1>3. BootstrapYears * YearLength \in Nat
  BY Products, SatWindowsAssumption
<1> QED
  BY <1>2, <1>3, SatWindowsAssumption DEF MXCalendarDate

LEMMA ClampedTyped ==
  ASSUME NEW h \in Nat, FirstHour <= h, NEW start \in Nat, NEW end \in Nat
  PROVE  /\ Clamped(start, end, h) \in DayRange
         /\ Clamped(start, end, h).start = start
         /\ Clamped(start, end, h).until =
              IF end < MXCalendarDate(h) THEN end + 1 ELSE MXCalendarDate(h) + 1
BY MexicanDays DEF Clamped, DayRange, Smaller

\* The range of the bootstrap is not empty, and no day of it is cut.
LEMMA BootstrapRange ==
  ASSUME NEW h \in Nat, FirstHour <= h, NEW range, range = CompanyBootstrapSATRangeUTC(h)
  PROVE  /\ range \in DayRange /\ range.start < range.until
         /\ range.until - 1 \in Nat
         /\ Clamped(range.start, range.until - 1, h) = range
<1>1. PICK today \in Nat : today = MXCalendarDate(h) /\ BootstrapYears * YearLength <= today
  BY MexicanDays
<1>2. BootstrapYears \in Nat \ {0} /\ YearLength \in Nat \ {0} /\ YearLength >= 2
  BY SatWindowsAssumption
<1>3. PICK q \in Nat : q = today \div YearLength /\ q * YearLength <= today /\ today < q * YearLength + YearLength
  BY <1>2, Quotient
<1>4. PICK x \in Nat : x = BootstrapYears * YearLength
  BY <1>2, Products
<1>5. x <= today /\ x >= 2
  <2>1. 1 * YearLength <= BootstrapYears * YearLength
    BY <1>2, Products
  <2> QED
    BY <1>1, <1>2, <1>4, <2>1
<1>6. BootstrapYears <= q
  BY <1>1, <1>2, <1>3, DaysFollow, <1>4, Products
<1>7. PICK y \in Nat : y = (q - BootstrapYears) * YearLength /\ y + x <= today
  <2>1. (q - BootstrapYears) * YearLength = q * YearLength - x
    BY <1>2, <1>3, <1>4, <1>6
  <2>2. q * YearLength \in Nat
    BY <1>2, Products
  <2>3. q - BootstrapYears \in Nat
    BY <1>2, <1>6
  <2>4. (q - BootstrapYears) * YearLength \in Nat
    BY <1>2, <2>3, Products
  <2> QED
    BY <1>3, <2>1, <2>2, <2>4
<1>8. range = Clamped(y + 1, today - 1, h) /\ today - 1 \in Nat
  BY <1>1, <1>3, <1>5, <1>7 DEF CompanyBootstrapSATRangeUTC
<1>9. range = [start |-> y + 1, until |-> today]
  BY <1>1, <1>8 DEF Clamped, Smaller
<1> QED
  BY <1>1, <1>5, <1>7, <1>8, <1>9 DEF DayRange

\* A call keeps its messages while nothing but metadata, or messages of other calls,
\* are scheduled.
LEMMA OthersKeep ==
  ASSUME WindowsIInv, NEW k \in Enqueuing, enqueuing[k].step # "none", enqueuing'[k] = enqueuing[k],
         scheduled \subseteq scheduled',
         \A m \in scheduled' \ scheduled : m.call = k => m.by = "metadata"
  PROVE  Sensible(enqueuing'[k]) /\ Planned(k)'
<1>1. {m \in scheduled' : m.call = k /\ m.by # "metadata"} = {m \in scheduled : m.call = k /\ m.by # "metadata"}
  OBVIOUS
<1>2. Sensible(enqueuing[k]) /\ Planned(k)
  BY DEF WindowsIInv
<1>3. PICK by \in {"admin", "bootstrap"}, first \in {0, 1} :
        {m \in scheduled : m.call = k /\ m.by # "metadata"} =
          {Sent(enqueuing[k], k, by, first, i, j) :
             i \in DOMAIN WindowsOf(enqueuing[k]), j \in DOMAIN enqueuing[k].dls}
  BY <1>2 DEF Planned
<1>4. {m \in scheduled' : m.call = k /\ m.by # "metadata"} =
        {Sent(enqueuing'[k], k, by, first, i, j) :
           i \in DOMAIN WindowsOf(enqueuing'[k]), j \in DOMAIN enqueuing'[k].dls}
  BY <1>1, <1>3
<1> QED
  BY <1>2, <1>4 DEF Planned

\* A call that is made publishes its messages.
LEMMA PublishStep ==
  ASSUME WindowsIInv, NEW k \in Enqueuing, enqueuing[k].step = "none",
         NEW call \in EnqueuingCall, call.step # "none", call.hour = hour, Sensible(call),
         NEW by \in {"admin", "bootstrap"}, NEW first \in {0, 1},
         scheduled' = scheduled \cup Messages(k, by, call.kind, call.dls, WindowsOf(call), first),
         enqueuing' = [enqueuing EXCEPT ![k] = call], hour' = hour
  PROVE  WindowsIInv'
<1> DEFINE sent == {Sent(call, k, by, first, i, j) : i \in DOMAIN WindowsOf(call), j \in DOMAIN call.dls}
<1>1. Messages(k, by, call.kind, call.dls, WindowsOf(call), first) = sent
  BY DEF Messages, Message, Sent
<1>2. \A m \in sent : m.call = k /\ m.by = by
  BY DEF Sent
<1> HIDE DEF sent
<1>3. scheduled' = scheduled \cup sent
  BY <1>1
<1>4. /\ enqueuing'[k] = call /\ \A l \in Enqueuing : l # k => enqueuing'[l] = enqueuing[l]
      /\ WindowTypes'
  BY DEF WindowsIInv, WindowTypes
<1>5. \A m \in scheduled : m.call \in Enqueuing /\ m.call # k
  BY DEF WindowsIInv
<1>6. {m \in scheduled' : m.call = k /\ m.by # "metadata"} = sent
  BY <1>2, <1>3, <1>5
<1>7. Planned(k)'
  <2>1. sent = {Sent(call, k, by, first, i, j) : i \in DOMAIN WindowsOf(call), j \in DOMAIN call.dls}
    BY DEF sent
  <2>2. {m \in scheduled' : m.call = k /\ m.by # "metadata"} =
          {Sent(enqueuing'[k], k, by, first, i, j) :
             i \in DOMAIN WindowsOf(enqueuing'[k]), j \in DOMAIN enqueuing'[k].dls}
    BY <1>4, <1>6, <2>1
  <2> QED
    BY <2>2 DEF Planned
<1>8. ASSUME NEW l \in Enqueuing, l # k, enqueuing[l].step # "none"
      PROVE  Sensible(enqueuing'[l]) /\ Planned(l)'
  BY <1>2, <1>3, <1>4, <1>8, OthersKeep
<1>9. ASSUME NEW m \in scheduled'
      PROVE  /\ m.call \in Enqueuing /\ enqueuing'[m.call].step # "none"
             /\ m.by = "metadata" => \E h \in Nat, j \in 1 .. 2 : m = SentLater(m.call, h, j)
  <2>1. CASE m \in scheduled
    BY <1>4, <1>5, <2>1 DEF WindowsIInv
  <2>2. CASE m \in sent
    BY <1>2, <1>4, <2>2
  <2> QED
    BY <1>3, <2>1, <2>2
<1> QED
  BY <1>4, <1>7, <1>8, <1>9 DEF WindowsIInv

LEMMA EnqueueStep ==
  ASSUME WindowsIInv, NEW k \in Enqueuing, NEW kind \in RequestKind, NEW start \in Calendar,
         NEW end \in Calendar, NEW dls \in {Both, <<"ISSUED">>}, NEW days \in 0 .. 2,
         Enqueue(k, kind, start, end, dls, days)
  PROVE  WindowsIInv'
<1> DEFINE call == Call(kind, start, end, dls, ChunkDays(kind, days))
<1>1. hour \in Nat /\ FirstHour <= hour /\ start \in Nat /\ end \in Nat
  BY SatWindowsAssumption DEF WindowsIInv, WindowTypes
<1>2. ChunkDays(kind, days) \in Nat \ {0}
  BY SatWindowsAssumption DEF ChunkDays
<1>3. /\ call \in EnqueuingCall /\ call.step = "done" /\ call.hour = hour /\ call.kind = kind
      /\ call.dls = dls /\ call.start = start /\ call.end = end /\ call.days = ChunkDays(kind, days)
  BY <1>1, <1>2 DEF Call, EnqueuingCall
<1>4. /\ enqueuing[k].step = "none" /\ hour' = hour
      /\ Clamped(start, end, hour).start < Clamped(start, end, hour).until
      /\ scheduled' = scheduled \cup
           Messages(k, "admin", kind, dls, ChunkRangeByDays(Clamped(start, end, hour), ChunkDays(kind, days)), 0)
      /\ enqueuing' = [enqueuing EXCEPT ![k] = call]
  BY DEF Enqueue
<1> HIDE DEF call
<1>5. Sensible(call)
  BY <1>1, <1>2, <1>3, <1>4, ClampedTyped DEF Sensible, RangeOf
<1>6. scheduled' = scheduled \cup Messages(k, "admin", call.kind, call.dls, WindowsOf(call), 0)
  BY <1>3, <1>4 DEF WindowsOf, RangeOf
<1> QED
  BY <1>3, <1>4, <1>5, <1>6, PublishStep

LEMMA CompanyCreateAutoSyncStep ==
  ASSUME WindowsIInv, NEW k \in Enqueuing, CompanyCreateAutoSync(k)
  PROVE  WindowsIInv'
<1>1. hour \in Nat /\ FirstHour <= hour
  BY DEF WindowsIInv, WindowTypes
<1>2. PICK range : range = CompanyBootstrapSATRangeUTC(hour)
  OBVIOUS
<1>3. /\ range \in DayRange /\ range.start < range.until /\ range.until - 1 \in Nat
      /\ Clamped(range.start, range.until - 1, hour) = range
  BY <1>1, <1>2, BootstrapRange
<1> DEFINE call == [Call("CFDI", range.start, range.until - 1, Both, CFDIChunkDays) EXCEPT !.step = "metadata"]
<1>4. /\ call \in EnqueuingCall /\ call.step = "metadata" /\ call.hour = hour /\ call.kind = "CFDI"
      /\ call.dls = Both /\ call.start = range.start /\ call.end = range.until - 1
      /\ call.days = CFDIChunkDays
  BY <1>1, <1>3, SatWindowsAssumption DEF Call, EnqueuingCall, RequestKind, DayRange
<1>5. /\ enqueuing[k].step = "none" /\ hour' = hour
      /\ scheduled' = scheduled \cup
           Messages(k, "bootstrap", "CFDI", Both, ChunkRangeByDays(range, CFDIChunkDays), 1)
      /\ enqueuing' = [enqueuing EXCEPT ![k] = call]
  BY <1>2 DEF CompanyCreateAutoSync
<1> HIDE DEF call
<1>6. RangeOf(call) = range
  BY <1>3, <1>4 DEF RangeOf
<1>7. Sensible(call)
  BY <1>3, <1>4, <1>6, SatWindowsAssumption DEF Sensible
<1>8. scheduled' = scheduled \cup Messages(k, "bootstrap", call.kind, call.dls, WindowsOf(call), 1)
  BY <1>4, <1>5, <1>6 DEF WindowsOf
<1> QED
  BY <1>4, <1>5, <1>7, <1>8, PublishStep

LEMMA SendQueryMetadataStep ==
  ASSUME WindowsIInv, NEW k \in Enqueuing, SendQueryMetadata(k)
  PROVE  WindowsIInv'
<1>1. PICK range : range = CompanyBootstrapSATRangeUTC(hour)
  OBVIOUS
<1>2. /\ enqueuing[k].step = "metadata" /\ hour' = hour /\ enqueuing' = enqueuing
      /\ scheduled' = scheduled \cup Messages(k, "metadata", "METADATA", Both, <<range>>, 0)
  BY <1>1 DEF SendQueryMetadata
<1>3. ASSUME NEW m \in Messages(k, "metadata", "METADATA", Both, <<range>>, 0)
      PROVE  m.call = k /\ m.by = "metadata" /\ \E h \in Nat, j \in 1 .. 2 : m = SentLater(k, h, j)
  <2>1. DOMAIN <<range>> = {1} /\ <<range>>[1] = range /\ DOMAIN Both = 1 .. 2 /\ Len(Both) = 2
    BY DEF Both
  <2>2. PICK i \in {1}, j \in 1 .. 2 :
          m = Message(k, "metadata", "METADATA", Both[j], <<range>>[i], Slot(0, i, j, Both))
    BY <1>3, <2>1 DEF Messages
  <2>3. Slot(0, 1, j, Both) = j - 1
    BY <2>1 DEF Slot
  <2>4. m = Message(k, "metadata", "METADATA", Both[j], range, j - 1)
    BY <2>1, <2>2, <2>3
  <2>5. m = SentLater(k, hour, j) /\ m.call = k /\ m.by = "metadata"
    BY <1>1, <2>4 DEF Message, SentLater
  <2> QED
    BY <2>5 DEF WindowsIInv, WindowTypes
<1>4. WindowTypes'
  BY <1>2 DEF WindowsIInv, WindowTypes
<1>5. ASSUME NEW l \in Enqueuing, enqueuing[l].step # "none"
      PROVE  Sensible(enqueuing'[l]) /\ Planned(l)'
  BY <1>2, <1>3, <1>5, OthersKeep
<1>6. ASSUME NEW m \in scheduled'
      PROVE  /\ m.call \in Enqueuing /\ enqueuing'[m.call].step # "none"
             /\ m.by = "metadata" => \E h \in Nat, j \in 1 .. 2 : m = SentLater(m.call, h, j)
  <2>1. CASE m \in scheduled
    BY <1>2, <2>1 DEF WindowsIInv
  <2>2. CASE m \in Messages(k, "metadata", "METADATA", Both, <<range>>, 0)
    BY <1>2, <1>3, <2>2
  <2> QED
    BY <1>2, <1>6, <2>1, <2>2
<1> QED
  BY <1>2, <1>4, <1>5, <1>6 DEF WindowsIInv

LEMMA WindowsInvariance == SatWindowsSpec => []WindowsIInv
<1>1. SatWindowsInit => WindowsIInv
  <2>1. NoEnqueuing \in EnqueuingCall /\ NoEnqueuing.step = "none"
    BY DEF NoEnqueuing, EnqueuingCall, RequestKind
  <2> QED
    BY <2>1, SatWindowsAssumption DEF SatWindowsInit, WindowsIInv, WindowTypes
<1>2. WindowsIInv /\ [SatWindowsNext]_windowVars => WindowsIInv'
  <2> SUFFICES ASSUME WindowsIInv, [SatWindowsNext]_windowVars PROVE WindowsIInv'
    OBVIOUS
  <2>1. CASE UNCHANGED <<enqueuing, scheduled>> /\ hour' \in {hour, hour + 1}
    <3>1. WindowTypes'
      BY <2>1, SatWindowsAssumption DEF WindowsIInv, WindowTypes
    <3>2. \A k \in Enqueuing : enqueuing[k].step # "none" => Sensible(enqueuing'[k]) /\ Planned(k)'
      BY <2>1, OthersKeep
    <3> QED
      BY <2>1, <3>1, <3>2 DEF WindowsIInv
  <2>2. CASE \E k \in Enqueuing, kind \in RequestKind, start, end \in Calendar,
               dls \in {Both, <<"ISSUED">>}, days \in 0 .. 2 : Enqueue(k, kind, start, end, dls, days)
    BY <2>2, EnqueueStep
  <2>3. CASE \E k \in Enqueuing : CompanyCreateAutoSync(k) \/ SendQueryMetadata(k)
    BY <2>3, CompanyCreateAutoSyncStep, SendQueryMetadataStep
  <2> QED
    BY <2>1, <2>2, <2>3 DEF SatWindowsNext, HourPasses, windowVars
<1> QED
  BY <1>1, <1>2, PTL DEF SatWindowsSpec

-----------------------------------------------------------------------------
LEMMA Directed ==
  ASSUME NEW dls \in {Both, <<"ISSUED">>}
  PROVE  /\ Len(dls) \in {1, 2} /\ DOMAIN dls = 1 .. Len(dls)
         /\ \A i, j \in DOMAIN dls : dls[i] = dls[j] => i = j
<1>1. CASE dls = <<"ISSUED">>
  BY <1>1
<1>2. CASE dls = Both
  <2>1. Len(Both) = 2 /\ DOMAIN Both = 1 .. 2 /\ Both[1] = "ISSUED" /\ Both[2] = "RECEIVED"
    BY DEF Both
  <2>2. \A i, j \in 1 .. 2 : Both[i] = Both[j] => i = j
    BY <2>1
  <2> QED
    BY <1>2, <2>1, <2>2
<1> QED
  BY <1>1, <1>2

\* The slots of a call are numbered by window and direction.
LEMMA SlotsDiffer ==
  ASSUME NEW dls \in {Both, <<"ISSUED">>}, NEW first \in {0, 1}, NEW i \in Nat, NEW j \in DOMAIN dls,
         NEW x \in Nat, NEW y \in DOMAIN dls, Slot(first, i, j, dls) = Slot(first, x, y, dls)
  PROVE  i = x /\ j = y
<1>1. Len(dls) \in {1, 2} /\ j \in 1 .. Len(dls) /\ y \in 1 .. Len(dls)
  BY Directed
<1>2. CASE Len(dls) = 1
  BY <1>1, <1>2 DEF Slot
<1>3. CASE Len(dls) = 2
  BY <1>1, <1>3 DEF Slot
<1> QED
  BY <1>1, <1>2, <1>3

\* The windows of a call and a direction are its range, cut.
LEMMA TiledCall ==
  ASSUME WindowsIInv, NEW k \in Enqueuing, enqueuing[k].step # "none", NEW j \in DOMAIN enqueuing[k].dls,
         NEW ms, ms = MessagesOf(k, enqueuing[k].dls[j])
  PROVE  /\ UNION {DaysOf(m.window) : m \in ms} =
              {d \in enqueuing[k].start .. enqueuing[k].end : d <= MXCalendarDate(enqueuing[k].hour)}
         /\ \A m, n \in ms : m # n => DaysOf(m.window) \cap DaysOf(n.window) = {}
         /\ \A m \in ms : m.window.until - m.window.start \in 1 .. enqueuing[k].days
<1>1. PICK c : c = enqueuing[k]
  OBVIOUS
<1>2. c \in EnqueuingCall /\ Sensible(c) /\ Planned(k)
  BY <1>1 DEF WindowsIInv, WindowTypes
<1>3. PICK by \in {"admin", "bootstrap"}, first \in {0, 1} :
        {m \in scheduled : m.call = k /\ m.by # "metadata"} =
          {Sent(c, k, by, first, x, y) : x \in DOMAIN WindowsOf(c), y \in DOMAIN c.dls}
  BY <1>1, <1>2 DEF Planned
<1>4. PICK windows : windows = WindowsOf(c)
  OBVIOUS
<1>5. PICK range \in DayRange : range = RangeOf(c) /\ range.start < range.until
  BY <1>2 DEF Sensible
<1>6. /\ DOMAIN windows \subseteq Nat
      /\ \A x \in DOMAIN windows :
           /\ windows[x] \in DayRange
           /\ windows[x].until - windows[x].start \in 1 .. c.days
           /\ range.start <= windows[x].start /\ windows[x].until <= range.until
      /\ \A x, y \in DOMAIN windows : x < y => windows[x].until <= windows[y].start
      /\ \A d \in range.start .. (range.until - 1) :
           \E x \in DOMAIN windows : windows[x].start <= d /\ d < windows[x].until
  <2>1. c.days \in Nat \ {0} /\ windows = ChunkRangeByDays(range, c.days)
    BY <1>2, <1>4, <1>5 DEF EnqueuingCall, Sensible, WindowsOf
  <2> QED
    BY <1>5, <2>1, WindowsOfRange
<1>7. ms = {Sent(c, k, by, first, x, j) : x \in DOMAIN windows}
  <2>1. j \in DOMAIN c.dls /\ \A y \in DOMAIN c.dls : c.dls[y] = c.dls[j] => y = j
    BY <1>1, <1>2, Directed DEF Sensible
  <2>2. \A x, y : Sent(c, k, by, first, x, y).dl = c.dls[y] /\ Sent(c, k, by, first, x, y).kind = c.kind
    BY DEF Sent
  <2>3. ms = {m \in {n \in scheduled : n.call = k /\ n.by # "metadata"} :
                m.dl = c.dls[j] /\ m.kind = c.kind}
    BY <1>1 DEF MessagesOf
  <2>4. ms = {m \in {Sent(c, k, by, first, x, y) : x \in DOMAIN windows, y \in DOMAIN c.dls} :
                m.dl = c.dls[j] /\ m.kind = c.kind}
    BY <1>3, <1>4, <2>3
  <2>5. ASSUME NEW m \in ms PROVE m \in {Sent(c, k, by, first, x, j) : x \in DOMAIN windows}
    <3>1. PICK x \in DOMAIN windows, y \in DOMAIN c.dls : m = Sent(c, k, by, first, x, y)
      BY <2>4, <2>5
    <3>2. y = j
      BY <2>1, <2>2, <2>4, <2>5, <3>1
    <3> QED
      BY <3>1, <3>2
  <2>6. ASSUME NEW x \in DOMAIN windows PROVE Sent(c, k, by, first, x, j) \in ms
    BY <2>1, <2>2, <2>4
  <2> QED
    BY <2>5, <2>6
<1>8. \A x \in DOMAIN windows : Sent(c, k, by, first, x, j).window = windows[x]
  BY <1>4 DEF Sent
<1>9. \A m \in ms : m.window.until - m.window.start \in 1 .. c.days
  BY <1>6, <1>7, <1>8
<1>10. ASSUME NEW m \in ms, NEW n \in ms, m # n PROVE DaysOf(m.window) \cap DaysOf(n.window) = {}
  <2>1. PICK x \in DOMAIN windows : m = Sent(c, k, by, first, x, j)
    BY <1>7
  <2>2. PICK y \in DOMAIN windows : n = Sent(c, k, by, first, y, j)
    BY <1>7
  <2>3. x \in Nat /\ y \in Nat /\ x # y /\ m.window = windows[x] /\ n.window = windows[y]
    BY <1>6, <1>8, <1>10, <2>1, <2>2
  <2>4. windows[x].until <= windows[y].start \/ windows[y].until <= windows[x].start
    BY <1>6, <2>3
  <2>5. windows[x] \in DayRange /\ windows[y] \in DayRange
    BY <1>6
  <2> QED
    BY <2>3, <2>4, <2>5 DEF DaysOf, DayRange
<1>11. range.start .. (range.until - 1) = {d \in c.start .. c.end : d <= MXCalendarDate(c.hour)}
  <2>1. PICK last : last = MXCalendarDate(c.hour)
    OBVIOUS
  <2>2. range = [start |-> c.start, until |-> Smaller(c.end, last) + 1]
    BY <1>5, <2>1 DEF RangeOf, Clamped
  <2>3. c.start \in Nat /\ c.end \in Nat /\ last \in Int
    BY <1>2, <2>1, SatWindowsAssumption DEF EnqueuingCall, MXCalendarDate
  <2> QED
    BY <2>1, <2>2, <2>3 DEF Smaller
<1>12. UNION {DaysOf(m.window) : m \in ms} = range.start .. (range.until - 1)
  <2>1. ASSUME NEW m \in ms PROVE DaysOf(m.window) \subseteq range.start .. (range.until - 1)
    <3>1. PICK x \in DOMAIN windows : m.window = windows[x]
      BY <1>7, <1>8
    <3>2. /\ windows[x] \in DayRange /\ range.start <= windows[x].start
          /\ windows[x].until <= range.until
      BY <1>6
    <3> QED
      BY <3>1, <3>2 DEF DaysOf, DayRange
  <2>2. ASSUME NEW d \in range.start .. (range.until - 1) PROVE \E m \in ms : d \in DaysOf(m.window)
    <3>1. PICK x \in DOMAIN windows : windows[x].start <= d /\ d < windows[x].until
      BY <1>6
    <3>2. windows[x] \in DayRange /\ d \in Int
      BY <1>5, <1>6 DEF DayRange
    <3>3. d \in DaysOf(windows[x])
      BY <3>1, <3>2 DEF DaysOf, DayRange
    <3> QED
      BY <1>7, <1>8, <3>3
  <2> QED
    BY <2>1, <2>2
<1> QED
  BY <1>1, <1>9, <1>10, <1>11, <1>12

LEMMA SpacedCall ==
  ASSUME WindowsIInv, NEW m \in scheduled, NEW n \in scheduled, m # n, m.call = n.call, m.by = n.by,
         m.base = n.base
  PROVE  m.slot # n.slot
<1>1. PICK k \in Enqueuing : k = m.call /\ k = n.call /\ enqueuing[k].step # "none"
  BY DEF WindowsIInv
<1>2. CASE m.by = "metadata"
  <2>1. PICK h \in Nat, i \in 1 .. 2 : m = SentLater(k, h, i)
    BY <1>1, <1>2 DEF WindowsIInv
  <2>2. PICK g \in Nat, j \in 1 .. 2 : n = SentLater(k, g, j)
    BY <1>1, <1>2 DEF WindowsIInv
  <2>3. m.base = h /\ n.base = g /\ m.slot = i - 1 /\ n.slot = j - 1
    BY <2>1, <2>2 DEF SentLater
  <2>4. i # j
    BY <2>1, <2>2, <2>3
  <2> QED
    BY <2>3, <2>4
<1>3. CASE m.by # "metadata"
  <2>1. PICK c : c = enqueuing[k]
    OBVIOUS
  <2>2. c \in EnqueuingCall /\ Sensible(c) /\ Planned(k)
    BY <1>1, <2>1 DEF WindowsIInv, WindowTypes
  <2>3. PICK by \in {"admin", "bootstrap"}, first \in {0, 1} :
          {p \in scheduled : p.call = k /\ p.by # "metadata"} =
            {Sent(c, k, by, first, x, y) : x \in DOMAIN WindowsOf(c), y \in DOMAIN c.dls}
    BY <2>1, <2>2 DEF Planned
  <2>4. PICK i \in DOMAIN WindowsOf(c), j \in DOMAIN c.dls : m = Sent(c, k, by, first, i, j)
    BY <1>1, <1>3, <2>3
  <2>5. PICK x \in DOMAIN WindowsOf(c), y \in DOMAIN c.dls : n = Sent(c, k, by, first, x, y)
    BY <1>1, <1>3, <2>3
  <2>6. m.slot = Slot(first, i, j, c.dls) /\ n.slot = Slot(first, x, y, c.dls)
    BY <2>4, <2>5 DEF Sent
  <2>7. DOMAIN WindowsOf(c) \subseteq Nat
    <3>1. c.days \in Nat \ {0}
      BY <2>2 DEF EnqueuingCall, Sensible
    <3> QED
      BY <2>2, <3>1, WindowsOfRange DEF Sensible, WindowsOf
  <2>8. i # x \/ j # y
    BY <2>4, <2>5
  <2> QED
    BY <2>2, <2>6, <2>7, <2>8, SlotsDiffer DEF Sensible
<1> QED
  BY <1>2, <1>3

\* Every day that was asked for is asked of the SAT once, in windows that are not longer
\* than a chunk, and no two messages that one listener publishes in one go are scheduled
\* for one moment (ScheduleIsExact), for every range, chunk, calendar and hour.
THEOREM ScheduleIsExactHolds == SatWindowsSpec => []ScheduleIsExact
<1>1. WindowsIInv => ScheduleIsExact
  <2> SUFFICES ASSUME WindowsIInv PROVE WindowsTile /\ SolicitudesAreSpaced
    BY DEF ScheduleIsExact
  <2>1. WindowsTile
    BY TiledCall DEF WindowsTile
  <2>2. SolicitudesAreSpaced
    BY SpacedCall DEF SolicitudesAreSpaced
  <2> QED
    BY <2>1, <2>2
<1> QED
  BY <1>1, WindowsInvariance, PTL

=============================================================================
