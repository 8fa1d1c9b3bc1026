----------------------------- MODULE CfdiChunks -----------------------------
(***************************************************************************)
(* How CompleteCFDIs cuts the CFDIs of one direction that lack their XML   *)
(* into date ranges, and what the SAT makes of the ranges.  The handler    *)
(* reads the cfdi table twice, first the range of Fecha that needs XMLs    *)
(* and then the rows of the range, while ProcessMetadata and ProcessXML    *)
(* write it; it walks the rows, and publishes one query per chunk.  A run  *)
(* that dies is delivered again.                                           *)
(*                                                                         *)
(* Fecha is a number of time units; a day has DayLength of them.           *)
(***************************************************************************)
EXTENDS Integers, Sequences, FiniteSets

CONSTANTS
  Cfdi,             \* the UUIDs of one direction of a company's CFDIs
  Horizon,          \* the greatest Fecha
  Start, End,       \* the range that the message asks for
  maxCFDIPerChunk,
  DayLength

ASSUME ChunksAssumption ==
  /\ IsFiniteSet(Cfdi)
  /\ Horizon \in Nat
  /\ Start \in Nat
  /\ End \in Nat
  /\ maxCFDIPerChunk \in Nat \ {0}
  /\ DayLength \in Nat \ {0}

Fecha == 0 .. Horizon

Span == [start : Fecha, end : Fecha]

NoSpan == [start |-> 0, end |-> 0]

VARIABLES
  fecha,    \* Fecha of each CFDI
  known,    \* the CFDIs of the table
  need,     \* those with Estatus, without from_xml and is_too_big
  pc,       \* where the handler is
  asked,    \* the CFDIs that needed their XML when the range was read
  range,    \* the range of Fecha that was read
  dates,    \* the rows of the range, by Fecha
  ixStart,  \* the row where the next chunk may start
  chunks,   \* the chunks of this run
  queries   \* every chunk handed to the event bus

table   == <<fecha, known, need>>
walking == <<range, dates, asked>>
vars    == <<table, walking, pc, ixStart, chunks, queries>>

Init ==
  /\ fecha \in [Cfdi -> Fecha]
  /\ known = {} /\ need = {}
  /\ pc = "idle"
  /\ asked = {}
  /\ range = NoSpan
  /\ dates = <<>>
  /\ ixStart = 1
  /\ chunks = <<>>
  /\ queries = {}

\* The handler returns, or dies, and its local variables with it.
Leave ==
  /\ pc' = "idle"
  /\ asked' = {}
  /\ range' = NoSpan
  /\ dates' = <<>>
  /\ ixStart' = 1
  /\ chunks' = <<>>
  /\ UNCHANGED <<table, queries>>

-----------------------------------------------------------------------------
(* The other handlers *)

\* ProcessMetadata inserts the row, ProcessXML does: with or without the XML.
Insert(c) ==
  /\ c \notin known
  /\ known' = known \cup {c}
  /\ need' \in {need, need \cup {c}}
  /\ UNCHANGED <<fecha, walking, pc, ixStart, chunks, queries>>

\* The CFDI gets its XML, or is cancelled.
Settle(c) ==
  /\ c \in need
  /\ need' = need \ {c}
  /\ UNCHANGED <<fecha, known, walking, pc, ixStart, chunks, queries>>

-----------------------------------------------------------------------------
(* CompleteCFDIs *)

InRange(c, r) == r.start <= fecha[c] /\ fecha[c] <= r.end

\* The CFDIs that need an XML, in the range of the message.
Wanted == {c \in need : InRange(c, [start |-> Start, end |-> End])}

\* No row needs its XML: the run is over.
NothingWanted ==
  /\ pc = "idle"
  /\ Wanted = {}
  /\ UNCHANGED vars

\* SELECT MIN("Fecha"), MAX("Fecha")
ReadRange ==
  /\ pc = "idle"
  /\ Wanted # {}
  /\ \E first, last \in Wanted :
       /\ \A c \in Wanted : fecha[first] <= fecha[c] /\ fecha[c] <= fecha[last]
       /\ range' = [start |-> fecha[first], end |-> fecha[last]]
  /\ asked' = Wanted
  /\ pc' = "rows"
  /\ UNCHANGED <<table, dates, ixStart, chunks, queries>>

\* Variant: the range of the second SELECT is open at its end.
RowBefore(c, r) == r.start <= fecha[c] /\ fecha[c] < r.end /\ c \in known

\* The rows of the second SELECT, those that need no XML among them.
Row(c, r) == InRange(c, r) /\ c \in known

\* ORDER BY "Fecha" leaves the order of equal Fechas open.
ReadRows ==
  /\ pc = "rows"
  /\ LET rows == {c \in Cfdi : Row(c, range)} IN
     \E order \in [1 .. Cardinality(rows) -> rows] :
       /\ \A c \in rows : \E i \in DOMAIN order : order[i] = c
       /\ \A i, j \in DOMAIN order : i < j => fecha[order[i]] <= fecha[order[j]]
       /\ dates' = [i \in DOMAIN order |->
                      [Fecha |-> fecha[order[i]], NeedDownload |-> order[i] \in need]]
  /\ pc' = "walk"
  /\ UNCHANGED <<table, range, asked, ixStart, chunks, queries>>

\* No row from i to j needs its XML.
NoneNeeded(i, j) == \A k \in i .. j : ~dates[k].NeedDownload

\* The last row of a full chunk.
ChunkEnd(first) ==
  IF first + maxCFDIPerChunk - 1 > Len(dates) THEN Len(dates)
                                              ELSE first + maxCFDIPerChunk - 1

\* Variant: the row after a chunk is passed over.
NextStartBeyond(first) == ChunkEnd(first) + 2

NextStart(first) == ChunkEnd(first) + 1

\* Variant: the end of a full chunk, needed or not.
LastOfChunkFull(first, end) == end = ChunkEnd(first)

\* The last row of the chunk that needs its XML.
LastOfChunk(first, end) ==
  /\ first <= end /\ end <= ChunkEnd(first)
  /\ NoneNeeded(end + 1, ChunkEnd(first))
  /\ dates[end].NeedDownload \/ end = first

\* One round of the loop: past the rows that need nothing, then a chunk.
WalkChunk ==
  /\ pc = "walk"
  /\ ixStart <= Len(dates)
  /\ \E first, end \in ixStart .. Len(dates) :
       /\ NoneNeeded(ixStart, first - 1)
       /\ dates[first].NeedDownload \/ first = Len(dates)
       /\ LastOfChunk(first, end)
       /\ chunks' = IF dates[first].NeedDownload
                    THEN Append(chunks, [start |-> dates[first].Fecha, end |-> dates[end].Fecha])
                    ELSE chunks
       /\ ixStart' = NextStart(first)
  /\ UNCHANGED <<table, walking, pc, queries>>

Walked ==
  /\ pc = "walk"
  /\ ixStart > Len(dates)
  /\ pc' = "publish"
  /\ UNCHANGED <<table, walking, ixStart, chunks, queries>>

\* The create-query messages of the chunks, one after the other.
Publish ==
  /\ pc = "publish"
  /\ chunks # <<>>
  /\ queries' = queries \cup {Head(chunks)}
  /\ chunks' = Tail(chunks)
  /\ UNCHANGED <<table, walking, pc, ixStart>>

Return ==
  /\ pc = "publish"
  /\ chunks = <<>>
  /\ Leave

\* The process dies, or a SELECT fails: the message is delivered again.
Retry ==
  /\ pc \in {"rows", "walk"} \/ chunks # <<>>
  /\ Leave

-----------------------------------------------------------------------------
CompleteCFDIs ==
  \/ NothingWanted \/ ReadRange \/ ReadRows \/ WalkChunk \/ Walked \/ Publish \/ Return

Next == (\E c \in Cfdi : Insert(c) \/ Settle(c)) \/ CompleteCFDIs \/ Retry

Spec == Init /\ [][Next]_vars

\* complete-cfdis is scheduled again and again, and from some time on its runs
\* come to their end.
Fairness == WF_vars(CompleteCFDIs) /\ <>[][~Retry]_vars

FairSpec == Spec /\ Fairness

-----------------------------------------------------------------------------
(* What the queries ask the SAT for *)

\* soapFechaCentro: the midnight on which the day of a time begins.
Midnight(t) == t - (t % DayLength)

\* The SAT takes both ends of FechaInicial and FechaFinal.
Requests(q, c) == Midnight(q.start) <= fecha[c] /\ fecha[c] <= Midnight(q.end)

-----------------------------------------------------------------------------
(* Properties *)

TypeOK ==
  /\ fecha \in [Cfdi -> Fecha]
  /\ need \subseteq known /\ known \subseteq Cfdi
  /\ pc \in {"idle", "rows", "walk", "publish"}
  /\ asked \subseteq Cfdi
  /\ range \in Span
  /\ dates \in Seq([Fecha : Fecha, NeedDownload : BOOLEAN])
  /\ ixStart \in Nat \ {0}
  /\ chunks \in Seq(Span)
  /\ queries \subseteq Span

Covers(q, t) == q.start <= t /\ t <= q.end

\* Whatever was inserted or settled between the two SELECTs and during the
\* walk, a run that ends has published a range around every CFDI that needed
\* its XML when it started and still does.
NothingLeftOut ==
  [][Return => \A c \in asked \cap need : \E q \in queries : Covers(q, fecha[c])]_vars

\* No query is wasted: a chunk starts and ends at a row that needs its XML, the
\* chunks follow each other, and when all Fechas differ no chunk holds more
\* than maxCFDIPerChunk rows.
RowsOf(q) == {i \in DOMAIN dates : Covers(q, dates[i].Fecha)}

ChunksAreTight ==
  pc = "walk" =>
    /\ \A n \in DOMAIN chunks : \A t \in {chunks[n].start, chunks[n].end} :
         \E i \in DOMAIN dates : dates[i].Fecha = t /\ dates[i].NeedDownload
    /\ \A m, n \in DOMAIN chunks : m < n => chunks[m].end <= chunks[n].start
    /\ (\A i, j \in DOMAIN dates : dates[i].Fecha = dates[j].Fecha => i = j)
         => \A n \in DOMAIN chunks : Cardinality(RowsOf(chunks[n])) <= maxCFDIPerChunk

\* Every CFDI in range is settled or gets into a published range in the end,
\* although runs die at any step.
EveryNeedIsAsked ==
  \A c \in Cfdi :
    c \in Wanted ~> c \notin need \/ \E q \in queries : Covers(q, fecha[c])

\* "split them into date-range chunks, and publish SAT_WS_REQUEST_CREATE_QUERY
\* for each chunk to download the XMLs": the queries of a run request all that
\* it found.
XmlsRequested ==
  [][Return => \A c \in asked \cap need : \E q \in queries : Requests(q, c)]_vars

=============================================================================
