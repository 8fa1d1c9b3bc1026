------------------------------ MODULE ManualSync ------------------------------
(***************************************************************************)
(* How often a user may ask for a synchronisation: the rows of sat_query   *)
(* that count are inserted minutes after a request has passed the check,   *)
(* by the worker.  A count that fails counts as none; a message that is    *)
(* delivered again inserts its row again.                                  *)
(*                                                                         *)
(* Left out: rows of the administrator, which are flagged as manual and    *)
(* count too; companies that are not active or have no certificates, which *)
(* are refused; the CFDI queries of a request, which do not count.         *)
(***************************************************************************)
EXTENDS Naturals, FiniteSets

CONSTANTS
  DayHours,      \* hours of a day
  LagHours,      \* hours that Mexico City is behind UTC
  BlockHours,    \* an unfinished query blocks this long
  MaxManualSyncPerDay,
  ManualFaults,  \* subset of {"db", "publish", "redeliver"}
  MaxAsking,     \* requests that are made (a bound of the model)
  LastTime       \* bound of the model

ASSUME ManualSyncAssumption ==
  /\ DayHours \in Nat \ {0} /\ LagHours \in Nat /\ BlockHours \in Nat
  /\ MaxManualSyncPerDay \in Nat \ {0} /\ MaxAsking \in Nat

\* Requests, numbered in the order in which they are made.
Asking == 1 .. MaxAsking

VARIABLES
  time,
  asking,     \* the requests
  metadata,   \* the rows: manual queries for METADATA
  overlapped  \* history: a request was checked while rows of another were due

manualVars == <<time, asking, metadata, overlapped>>

\* Every request asks for two directions, a row for each.
Directions == 2

\* "due": the rows that are still to come.  History: "unread", the counts that would
\* have refused the request and failed.
NoAsking == [step |-> "none", due |-> 0, unread |-> {}]

ManualSyncInit ==
  /\ time = LagHours
  /\ asking = [k \in Asking |-> NoAsking]
  /\ metadata = {}
  /\ overlapped = FALSE

\* Variant: the day of UTC.
TodayOfUTC == (time \div DayHours) * DayHours

\* Midnight of Mexico City.
TodayMXInUTC == ((time - LagHours) \div DayHours) * DayHours + LagHours

\* A row is running until it reaches one of manualSyncFinalStates, and again once it
\* has left that state.
InProgress == {r \in metadata : r.query # "final" /\ r.created + BlockHours >= time}

Busy(k) == asking[k].step \notin {"none", "refused", "done"}

DayIsFull ==
  Cardinality({r \in metadata : r.created >= TodayMXInUTC}) >= MaxManualSyncPerDay

\* What a count that refuses does to a request, or one that fails.
Refused(k) == asking' = [asking EXCEPT ![k].step = "refused"]

Unread(call, count) == [call EXCEPT !.unread = @ \cup {count}]

\* The rows of the day are counted.
CountToday(k) ==
  /\ asking[k].step = "none" /\ \A j \in 1 .. (k - 1) : asking[j].step # "none"
  /\ overlapped' = (overlapped \/ \E j \in Asking : Busy(j))
  /\ \/ DayIsFull /\ Refused(k)
     \/ ~DayIsFull /\ asking' = [asking EXCEPT ![k].step = "counted"]
     \/ /\ DayIsFull /\ "db" \in ManualFaults
        /\ asking' = [asking EXCEPT ![k] = Unread([@ EXCEPT !.step = "counted"], "today")]
  /\ UNCHANGED <<time, metadata>>

\* The request for metadata is published, for the worker to handle.
PublishManual(call) == [step |-> "sent", due |-> Directions, unread |-> call.unread]

\* Then the queries in progress.
CountInProgress(k) ==
  /\ asking[k].step = "counted"
  /\ \/ InProgress # {} /\ Refused(k)
     \/ InProgress = {} /\ asking' = [asking EXCEPT ![k] = PublishManual(@)]
     \/ /\ InProgress # {} /\ "db" \in ManualFaults
        /\ asking' = [asking EXCEPT ![k] = Unread(PublishManual(@), "progress")]
  /\ UNCHANGED <<time, metadata, overlapped>>

\* A company is created: its first metadata are flagged as manual.
AutoSync(k) ==
  /\ k = 1 /\ asking[k].step = "none"
  /\ asking' = [asking EXCEPT ![k] = PublishManual(@)]
  /\ UNCHANGED <<time, metadata, overlapped>>

\* A row less to come.
OneLess(call) ==
  [step |-> IF call.due = 1 THEN "done" ELSE "sent", due |-> call.due - 1,
   unread |-> call.unread]

\* What is "unread" of a request stays with its rows; "copy": inserted by a message
\* that had been handled before.
InsertRow(k) ==
  /\ asking[k].step = "sent"
  /\ metadata' = metadata \cup
       {[by |-> k, due |-> asking[k].due, created |-> time, query |-> "running",
         copy |-> FALSE, unread |-> asking[k].unread]}
  /\ asking' = [asking EXCEPT ![k] = OneLess(@)]
  /\ UNCHANGED <<time, overlapped>>

\* A message was not sent, or is given up: a row does not come.
RowLost(k) ==
  /\ "publish" \in ManualFaults
  /\ asking[k].step = "sent"
  /\ asking' = [asking EXCEPT ![k] = OneLess(@)]
  /\ UNCHANGED <<time, metadata, overlapped>>

\* The message that inserted a row, or the one before it, is delivered again: every
\* row has a new identifier.
InsertAgain(r) ==
  /\ "redeliver" \in ManualFaults
  /\ metadata' = metadata \cup
       {[r EXCEPT !.created = time, !.query = "running", !.copy = TRUE]}
  /\ UNCHANGED <<time, asking, overlapped>>

\* The query reaches one of manualSyncFinalStates.
QueryIsFinal(r) ==
  /\ r.query # "final"
  /\ metadata' = (metadata \ {r}) \cup {[r EXCEPT !.query = "final"]}
  /\ UNCHANGED <<time, asking, overlapped>>

\* A verification that is delivered again, or that a user asks for, finds the packages
\* of a query that was given up or processed.
QueryReturns(r) ==
  /\ r.query = "final"
  /\ metadata' = (metadata \ {r}) \cup {[r EXCEPT !.query = "again"]}
  /\ UNCHANGED <<time, asking, overlapped>>

TimePasses ==
  /\ time < LastTime
  /\ time' = time + 1
  /\ UNCHANGED <<asking, metadata, overlapped>>

ManualSyncNext ==
  \/ \E k \in Asking :
       \/ CountToday(k)
       \/ CountInProgress(k)
       \/ AutoSync(k)
       \/ InsertRow(k)
       \/ RowLost(k)
  \/ \E r \in metadata :
       \/ InsertAgain(r)
       \/ QueryIsFinal(r)
       \/ QueryReturns(r)
  \/ TimePasses

ManualSyncSpec == ManualSyncInit /\ [][ManualSyncNext]_manualVars

-----------------------------------------------------------------------------
(* Properties *)

\* The Mexican day of a row.
DayOf(r) == (r.created - LagHours) \div DayHours

\* A row that the count of the day let in.
LetIn(r) == ~r.copy /\ "today" \notin r.unread

\* No day of Mexico has more rows than the limit and one: the two rows of a request pass
\* it together.  More of them need a request that is checked while rows of another are
\* still to come, a count that fails, or a message delivered again.
LimitNeedsOverlap ==
  ~overlapped => \A r \in metadata :
    Cardinality({s \in metadata : DayOf(s) = DayOf(r) /\ LetIn(s)}) <= MaxManualSyncPerDay + 1

\* Unless requests overlapped or the count of its request failed, a query runs together
\* with one of an earlier request only when that has lost its time to block, was final
\* once, or came from a message delivered again.
OneSyncAtATime ==
  ~overlapped => \A r, s \in metadata :
    /\ r.by < s.by /\ ~r.copy /\ "progress" \notin s.unread
    /\ r.query = "running" /\ s.query = "running"
    => r.created + BlockHours < s.created

\* The limits on manual requests hold unless requests overlap, a count fails or a message
\* is delivered again.
ManualLimitsHold == LimitNeedsOverlap /\ OneSyncAtATime

=============================================================================
