------------------------------ MODULE SatWindows ------------------------------
(***************************************************************************)
(* The ranges of days that are asked of the SAT, as the administrator and  *)
(* the bootstrap of a company cut them into windows, and the slots in      *)
(* which their messages are scheduled.  Days are numbers, those of UTC;    *)
(* the calendar of Mexico City lags behind.                                *)
(*                                                                         *)
(* Left out: publishes that fail (SatQueryPipeline has them), and the      *)
(* saving time that Mexico once had.                                       *)
(***************************************************************************)
EXTENDS Naturals, Sequences

CONSTANTS
  DayLength,     \* hours of a day
  MexicoLag,     \* hours that Mexico City is behind UTC
  YearLength,    \* days of a year
  BootstrapYears,
  CFDIChunkDays, MetadataChunkDays, \* the default sizes of a window
  Enqueuing,     \* calls, each made once (a bound of the model)
  FirstHour, LastHour, \* the hours that are looked at (a bound of the model)
  Calendar       \* days that the administrator may name

ASSUME SatWindowsAssumption ==
  /\ DayLength \in Nat \ {0} /\ MexicoLag \in Nat /\ YearLength \in Nat \ {0, 1}
  /\ BootstrapYears \in Nat \ {0} /\ CFDIChunkDays \in Nat \ {0} /\ MetadataChunkDays \in Nat \ {0}
  /\ FirstHour \in Nat /\ MexicoLag <= FirstHour
  /\ Calendar \subseteq Nat
  /\ BootstrapYears * YearLength <= (FirstHour - MexicoLag) \div DayLength

VARIABLES
  hour,      \* UTC
  enqueuing, \* the calls: what was asked for, and when
  scheduled  \* the messages they published

windowVars == <<hour, enqueuing, scheduled>>

RequestKind == {"CFDI", "METADATA"}

NoEnqueuing == [step |-> "none", kind |-> "CFDI", start |-> 0, end |-> 0, dls |-> <<>>,
                days |-> 0, hour |-> 0]

SatWindowsInit ==
  /\ hour = FirstHour
  /\ enqueuing = [k \in Enqueuing |-> NoEnqueuing]
  /\ scheduled = {}

-----------------------------------------------------------------------------
(* Ranges and windows: the days start .. until - 1 *)

MXCalendarDate(h) == (h - MexicoLag) \div DayLength

Smaller(a, b) == IF a < b THEN a ELSE b

\* Variant: the last day is the day of UTC.
ClampedToUTC(start, end, h) == [start |-> start, until |-> Smaller(end, h \div DayLength) + 1]

\* AdminEnqueueCalendarRangeClamped: both days are in the range.
Clamped(start, end, h) == [start |-> start, until |-> Smaller(end, MXCalendarDate(h)) + 1]

\* From January 2 of a year to the day before today.
CompanyBootstrapSATRangeUTC(h) ==
  LET today == MXCalendarDate(h)
  IN Clamped((today \div YearLength - BootstrapYears) * YearLength + 1, today - 1, h)

\* ChunkRangeByDays: consecutive windows of n days, the last one cut.
ChunkRangeByDays(range, n) ==
  [i \in 1 .. (range.until - range.start + n - 1) \div n |->
     [start |-> range.start + (i - 1) * n, until |-> Smaller(range.start + i * n, range.until)]]

-----------------------------------------------------------------------------
(* Publishers *)

\* "base", "slot": execute_at is base and slot times SatSolicitudEnqueueSpacing;
\* "by": the listener that publishes.
Message(k, by, kind, dl, window, slot) ==
  [call |-> k, by |-> by, kind |-> kind, dl |-> dl, window |-> window, base |-> hour, slot |-> slot]

\* One slot for each window and each direction.
Slot(first, i, j, dls) == first + (i - 1) * Len(dls) + (j - 1)

\* The messages for every window and every direction.
Messages(k, by, kind, dls, windows, first) ==
  {Message(k, by, kind, dls[j], windows[i], Slot(first, i, j, dls)) :
     i \in DOMAIN windows, j \in DOMAIN dls}

ChunkDays(kind, days) ==
  IF days > 0 THEN days ELSE IF kind = "METADATA" THEN MetadataChunkDays ELSE CFDIChunkDays

Call(kind, start, end, dls, days) ==
  [step |-> "done", kind |-> kind, start |-> start, end |-> end, dls |-> dls, days |-> days,
   hour |-> hour]

Both == <<"ISSUED", "RECEIVED">>

\* A range that is empty once it is clamped is refused.
Enqueue(k, kind, start, end, dls, days) ==
  LET range == Clamped(start, end, hour)
      n == ChunkDays(kind, days)
  IN /\ enqueuing[k].step = "none"
     /\ range.start < range.until
     /\ scheduled' = scheduled \cup
          Messages(k, "admin", kind, dls, ChunkRangeByDays(range, n), 0)
     /\ enqueuing' = [enqueuing EXCEPT ![k] = Call(kind, start, end, dls, n)]
     /\ UNCHANGED hour

\* OnCompanyCreateAutoSync: the request for the metadata takes the first slot.
CompanyCreateAutoSync(k) ==
  LET range == CompanyBootstrapSATRangeUTC(hour) IN
  /\ enqueuing[k].step = "none"
  /\ scheduled' = scheduled \cup
       Messages(k, "bootstrap", "CFDI", Both, ChunkRangeByDays(range, CFDIChunkDays), 1)
  /\ enqueuing' = [enqueuing EXCEPT ![k] =
       [Call("CFDI", range.start, range.until - 1, Both, CFDIChunkDays) EXCEPT !.step = "metadata"]]
  /\ UNCHANGED hour

\* SendQueryMetadata: one window, as of the hour in which the message is handled; a
\* message that is handled again publishes again.
SendQueryMetadata(k) ==
  /\ enqueuing[k].step = "metadata"
  /\ scheduled' = scheduled \cup
       Messages(k, "metadata", "METADATA", Both, <<CompanyBootstrapSATRangeUTC(hour)>>, 0)
  /\ UNCHANGED <<hour, enqueuing>>

HourPasses ==
  /\ hour < LastHour
  /\ hour' = hour + 1
  /\ UNCHANGED <<enqueuing, scheduled>>

SatWindowsNext ==
  \/ \E k \in Enqueuing :
       \/ \E kind \in RequestKind, start, end \in Calendar, dls \in {Both, <<"ISSUED">>}, days \in 0 .. 2 :
            Enqueue(k, kind, start, end, dls, days)
       \/ CompanyCreateAutoSync(k)
       \/ SendQueryMetadata(k)
  \/ HourPasses

SatWindowsSpec == SatWindowsInit /\ [][SatWindowsNext]_windowVars

-----------------------------------------------------------------------------
(* Properties *)

DaysOf(window) == window.start .. (window.until - 1)

MessagesOf(k, dl) ==
  {m \in scheduled : m.call = k /\ m.dl = dl /\ m.by # "metadata" /\ m.kind = enqueuing[k].kind}

\* The windows of a call are the days that were asked for, up to the day it is in
\* Mexico City when they are, none of them twice, and none longer than a chunk.
WindowsTile ==
  \A k \in Enqueuing : enqueuing[k].step # "none" =>
    \A j \in DOMAIN enqueuing[k].dls :
      LET ms == MessagesOf(k, enqueuing[k].dls[j]) IN
      /\ UNION {DaysOf(m.window) : m \in ms} =
           {d \in enqueuing[k].start .. enqueuing[k].end : d <= MXCalendarDate(enqueuing[k].hour)}
      /\ \A m, n \in ms : m # n => DaysOf(m.window) \cap DaysOf(n.window) = {}
      /\ \A m \in ms : m.window.until - m.window.start \in 1 .. enqueuing[k].days

\* No two solicitudes that one listener publishes in one go are scheduled for the same
\* moment, in whatever windows and directions they are cut.
SolicitudesAreSpaced ==
  \A m, n \in scheduled :
    m # n /\ m.call = n.call /\ m.by = n.by /\ m.base = n.base => m.slot # n.slot

\* Every day that was asked for is asked of the SAT once, and no two at one moment.
ScheduleIsExact == WindowsTile /\ SolicitudesAreSpaced

=============================================================================
