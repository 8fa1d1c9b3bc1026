-------------------------- MODULE CfdiChunksProofs --------------------------
(***************************************************************************)
(* Proofs about CfdiChunks, for every table, range and chunk size.  The    *)
(* inductive invariant follows a CFDI that needed its XML when the run     *)
(* started and still does: it is in the range, then among the rows, then   *)
(* in a chunk or behind the walk, then in a chunk or published.  What the  *)
(* chunks do not hold needs the rows they were cut from (TightIInv).       *)
(***************************************************************************)
EXTENDS CfdiChunks, FiniteSetTheorems, SequenceTheorems, TLAPS

\* The CFDIs that the run has to serve.
Due == asked \cap need

\* A row of the snapshot of the run is that of c.
RowFor(i, c) == dates[i].Fecha = fecha[c] /\ dates[i].NeedDownload

RowShape == [Fecha : Fecha, NeedDownload : BOOLEAN]

\* A chunk, or a query published before, holds a time.
InChunk(t) == \E n \in DOMAIN chunks : Covers(chunks[n], t)
InQuery(t) == \E q \in queries : Covers(q, t)

\* Outside a walk the variables of the walk are those of Leave.
NotWalked == pc \in {"idle", "rows"} => ixStart = 1 /\ chunks = <<>>

AskedKnown == asked \subseteq known

DueInRange == pc # "idle" => \A c \in Due : InRange(c, range)

DueHasRow ==
  pc = "walk" => \A c \in Due : \E i \in DOMAIN dates : RowFor(i, c)

RowsSorted ==
  \A i, j \in DOMAIN dates : i < j => dates[i].Fecha <= dates[j].Fecha

WalkedIsCovered ==
  pc = "walk" =>
    \A i \in DOMAIN dates : i < ixStart /\ dates[i].NeedDownload => InChunk(dates[i].Fecha)

DueIsCovered ==
  pc = "publish" => \A c \in Due : InChunk(fecha[c]) \/ InQuery(fecha[c])

IInv ==
  /\ TypeOK
  /\ NotWalked
  /\ AskedKnown
  /\ DueInRange
  /\ DueHasRow
  /\ RowsSorted
  /\ WalkedIsCovered
  /\ DueIsCovered

-----------------------------------------------------------------------------
LEMMA InvInit == Init => IInv
<1> SUFFICES ASSUME Init PROVE IInv
  OBVIOUS
<1>1. NoSpan \in Span
  BY ChunksAssumption DEF NoSpan, Span, Fecha
<1> QED
  BY <1>1 DEF Init, IInv, TypeOK, NotWalked, AskedKnown, DueInRange, DueHasRow, RowsSorted, WalkedIsCovered,
     DueIsCovered

LEMMA InvLeave == IInv /\ Leave => IInv'
<1> SUFFICES ASSUME IInv, Leave PROVE IInv'
  OBVIOUS
<1>1. NoSpan \in Span
  BY ChunksAssumption DEF NoSpan, Span, Fecha
<1> QED
  BY <1>1 DEF Leave, table, IInv, TypeOK, NotWalked, AskedKnown, DueInRange, DueHasRow, RowsSorted,
     WalkedIsCovered, DueIsCovered

\* A row that is inserted is not asked for by this run; one that is settled is
\* no longer due.
LEMMA InvTable ==
  ASSUME IInv, NEW c \in Cfdi, Insert(c) \/ Settle(c)
  PROVE  IInv'
<1>1. Due' \subseteq Due
  BY DEF Due, Insert, Settle, walking, IInv, AskedKnown, TypeOK
<1>2. need' \subseteq known' /\ known' \subseteq Cfdi /\ known \subseteq known'
  BY DEF Insert, Settle, IInv, TypeOK
<1>3. UNCHANGED <<fecha, walking, pc, ixStart, chunks, queries>>
  BY DEF Insert, Settle
<1>4. TypeOK' /\ NotWalked' /\ AskedKnown'
  BY <1>2, <1>3 DEF IInv, TypeOK, NotWalked, AskedKnown, walking
<1>5. DueInRange' /\ DueHasRow' /\ DueIsCovered'
  BY <1>1, <1>3 DEF IInv, DueInRange, DueHasRow, DueIsCovered, InRange, RowFor, InChunk, InQuery,
     walking
<1>6. RowsSorted' /\ WalkedIsCovered'
  BY <1>3 DEF IInv, RowsSorted, WalkedIsCovered, InChunk, walking
<1> QED
  BY <1>4, <1>5, <1>6 DEF IInv

LEMMA InvReadRange == IInv /\ ReadRange => IInv'
<1> SUFFICES ASSUME IInv, ReadRange PROVE IInv'
  OBVIOUS
<1>1. Wanted \subseteq need /\ Wanted \subseteq Cfdi /\ need \subseteq known
  BY DEF Wanted, IInv, TypeOK
<1>2. PICK first, last \in Wanted :
        /\ \A c \in Wanted : fecha[first] <= fecha[c] /\ fecha[c] <= fecha[last]
        /\ range' = [start |-> fecha[first], end |-> fecha[last]]
  BY DEF ReadRange
<1>3. range' \in Span
  BY <1>1, <1>2 DEF Span, IInv, TypeOK
<1>4. asked' = Wanted /\ pc = "idle" /\ pc' = "rows" /\ UNCHANGED <<fecha, known, need, dates, ixStart, chunks, queries>>
  BY DEF ReadRange, table
<1>5. DueInRange'
  BY <1>2, <1>4 DEF Due, InRange, DueInRange
<1>6. TypeOK' /\ AskedKnown'
  BY <1>1, <1>3, <1>4 DEF IInv, TypeOK, AskedKnown
<1> QED
  BY <1>4, <1>5, <1>6 DEF IInv, NotWalked, DueHasRow, RowsSorted, WalkedIsCovered, DueIsCovered

LEMMA InvReadRows == IInv /\ ReadRows => IInv'
<1> SUFFICES ASSUME IInv, ReadRows PROVE IInv'
  OBVIOUS
<1> DEFINE rows == {c \in Cfdi : Row(c, range)}
<1>1. PICK order \in [1 .. Cardinality(rows) -> rows] :
        /\ \A c \in rows : \E i \in DOMAIN order : order[i] = c
        /\ \A i, j \in DOMAIN order : i < j => fecha[order[i]] <= fecha[order[j]]
        /\ dates' = [i \in DOMAIN order |->
                       [Fecha |-> fecha[order[i]], NeedDownload |-> order[i] \in need]]
  BY DEF ReadRows
<1>2. pc = "rows" /\ pc' = "walk" /\ UNCHANGED <<fecha, known, need, range, asked, ixStart, chunks, queries>>
  BY DEF ReadRows, table
<1>3. DOMAIN dates' = DOMAIN order
  BY <1>1
<1>4. dates' \in Seq(RowShape)
  <2>1. IsFiniteSet(rows)
    BY ChunksAssumption, FS_Subset
  <2>2. Cardinality(rows) \in Nat
    BY <2>1, FS_CardinalityType
  <2>3. ASSUME NEW i \in DOMAIN order PROVE dates'[i] \in RowShape
    <3> DEFINE needed == order[i] \in need
    <3>1. needed \in BOOLEAN
      OBVIOUS
    <3>2. fecha[order[i]] \in Fecha
      BY <2>3, <1>1 DEF IInv, TypeOK
    <3>3. dates'[i] = [Fecha |-> fecha[order[i]], NeedDownload |-> needed]
      BY <1>1, <2>3
    <3> HIDE DEF needed
    <3> QED
      BY <3>1, <3>2, <3>3 DEF RowShape
  <2>4. dates' \in [1 .. Cardinality(rows) -> RowShape]
    BY <1>1, <2>3
  <2>5. Seq(RowShape) = UNION {[1 .. n -> RowShape] : n \in Nat}
    BY SeqDef
  <2> QED
    BY <2>2, <2>4, <2>5
<1>5. \A c \in Due' : \E i \in DOMAIN dates' : RowFor(i, c)'
  <2> SUFFICES ASSUME NEW c \in Due PROVE \E i \in DOMAIN dates' : RowFor(i, c)'
    BY <1>2 DEF Due
  <2>1. c \in rows /\ c \in need
    BY <1>2 DEF Due, Row, IInv, DueInRange, AskedKnown, TypeOK
  <2>2. PICK i \in DOMAIN order : order[i] = c
    BY <1>1, <2>1
  <2>3. dates'[i] = [Fecha |-> fecha[c], NeedDownload |-> c \in need]
    BY <1>1, <2>2
  <2>4. dates'[i].Fecha = fecha[c] /\ dates'[i].NeedDownload
    <3> DEFINE needed == c \in need
    <3>1. dates'[i] = [Fecha |-> fecha[c], NeedDownload |-> needed] /\ needed
      BY <2>1, <2>3
    <3> HIDE DEF needed
    <3> QED
      BY <3>1
  <2> QED
    BY <1>2, <1>3, <2>2, <2>4 DEF RowFor
<1>6. RowsSorted'
  BY <1>1 DEF RowsSorted
<1>7. \A c \in Due' : InRange(c, range)'
  BY <1>2 DEF Due, IInv, DueInRange, InRange
<1>8. WalkedIsCovered'
  BY <1>2, <1>3 DEF WalkedIsCovered, IInv, NotWalked
<1> QED
  BY <1>2, <1>4, <1>5, <1>6, <1>7, <1>8 DEF RowShape, IInv, TypeOK, NotWalked, AskedKnown, DueInRange, DueHasRow, DueIsCovered

\* The search for the next chunk passes over rows that need nothing, the end
\* of a full chunk is behind it, and so is the next start.
LEMMA ChunkEndBounds ==
  ASSUME TypeOK, NEW first \in 1 .. Len(dates)
  PROVE  ChunkEnd(first) \in first .. Len(dates)
BY ChunksAssumption DEF TypeOK, ChunkEnd

LEMMA InvWalkChunk == IInv /\ WalkChunk => IInv'
<1> SUFFICES ASSUME IInv, WalkChunk PROVE IInv'
  OBVIOUS
<1>0. ixStart \in Nat \ {0} /\ Len(dates) \in Nat /\ DOMAIN dates = 1 .. Len(dates)
      /\ \A i \in DOMAIN dates : dates[i].Fecha \in Nat /\ dates[i].Fecha \in Fecha
  <2>1. ixStart \in Nat \ {0} /\ dates \in Seq(RowShape)
    BY DEF IInv, TypeOK, RowShape
  <2>2. Len(dates) \in Nat /\ DOMAIN dates = 1 .. Len(dates) /\ \A i \in DOMAIN dates : dates[i] \in RowShape
    BY <2>1
  <2>3. Fecha \subseteq Nat
    BY ChunksAssumption DEF Fecha
  <2> QED
    BY <2>1, <2>2, <2>3 DEF RowShape
<1>1. PICK first, end \in ixStart .. Len(dates) :
        /\ NoneNeeded(ixStart, first - 1)
        /\ dates[first].NeedDownload \/ first = Len(dates)
        /\ LastOfChunk(first, end)
        /\ chunks' = IF dates[first].NeedDownload
                     THEN Append(chunks, [start |-> dates[first].Fecha, end |-> dates[end].Fecha])
                     ELSE chunks
        /\ ixStart' = NextStart(first)
  BY DEF WalkChunk
<1>2. pc = "walk" /\ UNCHANGED <<fecha, known, need, range, dates, asked, pc, queries>>
  BY DEF WalkChunk, table, walking
<1>3. first \in 1 .. Len(dates) /\ end \in 1 .. Len(dates)
  BY <1>0
<1>4. ChunkEnd(first) \in first .. Len(dates)
  BY <1>3, ChunkEndBounds DEF IInv
<1>5. ixStart' \in Nat \ {0} /\ ixStart' = ChunkEnd(first) + 1
  BY <1>1, <1>3, <1>4 DEF NextStart
<1> DEFINE chunk == [start |-> dates[first].Fecha, end |-> dates[end].Fecha]
<1>6. chunk \in Span
  BY <1>0, <1>3 DEF Span
<1>7. chunks \in Seq(Span) /\ chunks' \in Seq(Span)
  BY <1>1, <1>6 DEF IInv, TypeOK
<1>8. ASSUME NEW t, InChunk(t) PROVE InChunk(t)'
  <2>1. PICK n \in DOMAIN chunks : Covers(chunks[n], t)
    BY <1>8 DEF InChunk
  <2>2. n \in DOMAIN chunks' /\ chunks'[n] = chunks[n]
    BY <1>1, <1>6, <1>7
  <2> QED
    BY <2>1, <2>2 DEF InChunk, Covers
<1>9. ASSUME NEW i \in DOMAIN dates, i < ixStart', dates[i].NeedDownload
      PROVE  InChunk(dates[i].Fecha)'
  <2>1. CASE i < ixStart
    BY <1>2, <1>8, <1>9, <2>1 DEF IInv, WalkedIsCovered
  <2>2. CASE ixStart <= i
    <3>1. i \notin ixStart .. first - 1
      BY <1>1, <1>9 DEF NoneNeeded
    <3>2. i \in first .. ChunkEnd(first)
      BY <1>0, <1>3, <1>4, <1>5, <1>9, <2>2, <3>1
    <3>3. end \in first .. ChunkEnd(first) /\ i \notin end + 1 .. ChunkEnd(first)
      <4>1. i \notin end + 1 .. ChunkEnd(first)
        BY <1>1, <1>9 DEF LastOfChunk, NoneNeeded
      <4>2. first <= end /\ end <= ChunkEnd(first)
        BY <1>1 DEF LastOfChunk
      <4> QED
        BY <1>3, <1>4, <4>1, <4>2
    <3>4. dates[first].NeedDownload
      <4>1. first = Len(dates) => i = first
        BY <1>0, <1>3, <1>4, <3>2
      <4> QED
        BY <1>1, <1>9, <4>1
    <3>5. dates[first].Fecha <= dates[i].Fecha /\ dates[i].Fecha <= dates[end].Fecha
      BY <1>0, <1>3, <1>4, <1>9, <3>2, <3>3 DEF IInv, RowsSorted
    <3>6. Covers(chunk, dates[i].Fecha)
      BY <1>0, <1>3, <1>4, <3>2, <3>3, <3>5 DEF Covers
    <3>7. chunks' = Append(chunks, chunk)
      BY <1>1, <3>4
    <3>8. Len(chunks) + 1 \in DOMAIN chunks' /\ chunks'[Len(chunks) + 1] = chunk
      BY <1>6, <1>7, <3>7
    <3> QED
      BY <1>2, <3>6, <3>8 DEF InChunk, Covers
  <2> QED
    BY <1>0, <1>9, <2>1, <2>2
<1>10. TypeOK'
  BY <1>2, <1>5, <1>7 DEF IInv, TypeOK
<1>11. WalkedIsCovered'
  BY <1>2, <1>9 DEF WalkedIsCovered
<1>12. NotWalked' /\ AskedKnown' /\ DueInRange' /\ DueHasRow' /\ RowsSorted' /\ DueIsCovered'
  BY <1>2 DEF IInv, NotWalked, AskedKnown, DueInRange, DueHasRow, RowsSorted, DueIsCovered, Due,
     InRange, RowFor
<1> QED
  BY <1>10, <1>11, <1>12 DEF IInv

LEMMA InvWalked == IInv /\ Walked => IInv'
<1> SUFFICES ASSUME IInv, Walked PROVE IInv'
  OBVIOUS
<1>1. /\ pc = "walk" /\ pc' = "publish" /\ ixStart > Len(dates)
      /\ UNCHANGED <<fecha, known, need, range, dates, asked, ixStart, chunks, queries>>
  BY DEF Walked, table, walking
<1>2. ASSUME NEW c \in Due PROVE InChunk(fecha[c])
  <2>1. PICK i \in DOMAIN dates : RowFor(i, c)
    BY <1>1, <1>2 DEF IInv, DueHasRow
  <2>2. i < ixStart
    BY <1>1 DEF IInv, TypeOK
  <2> QED
    BY <1>1, <2>1, <2>2 DEF IInv, WalkedIsCovered, RowFor
<1>3. DueIsCovered'
  BY <1>1, <1>2 DEF DueIsCovered, Due, InChunk, InQuery
<1>4. TypeOK'
  BY <1>1 DEF IInv, TypeOK
<1> QED
  BY <1>1, <1>3, <1>4 DEF IInv, NotWalked, AskedKnown, DueInRange, DueHasRow, RowsSorted,
     WalkedIsCovered, Due, InRange

LEMMA InvPublish == IInv /\ Publish => IInv'
<1> SUFFICES ASSUME IInv, Publish PROVE IInv'
  OBVIOUS
<1>1. /\ pc = "publish" /\ chunks # <<>>
      /\ queries' = queries \cup {Head(chunks)} /\ chunks' = Tail(chunks)
      /\ UNCHANGED <<fecha, known, need, range, dates, asked, pc, ixStart>>
  BY DEF Publish, table, walking
<1>2. chunks \in Seq(Span) /\ Head(chunks) \in Span /\ Tail(chunks) \in Seq(Span)
  BY <1>1 DEF IInv, TypeOK
<1>3. TypeOK'
  BY <1>1, <1>2 DEF IInv, TypeOK
<1>4. ASSUME NEW t, InChunk(t) \/ InQuery(t) PROVE InChunk(t)' \/ InQuery(t)'
  <2>1. CASE InQuery(t)
    BY <1>1, <2>1 DEF InQuery
  <2>2. CASE InChunk(t)
    <3>1. PICK n \in 1 .. Len(chunks) : Covers(chunks[n], t)
      BY <1>2, <2>2 DEF InChunk
    <3>2. CASE n = 1
      BY <1>1, <1>2, <3>1, <3>2 DEF InQuery
    <3>3. CASE n # 1
      <4>1. n - 1 \in DOMAIN chunks' /\ chunks'[n - 1] = chunks[n]
        BY <1>1, <1>2, <3>3
      <4> QED
        BY <3>1, <4>1 DEF InChunk, Covers
    <3> QED
      BY <3>2, <3>3
  <2> QED
    BY <1>4, <2>1, <2>2
<1>5. DueIsCovered'
  BY <1>1, <1>4 DEF IInv, DueIsCovered, Due
<1> QED
  BY <1>1, <1>3, <1>5 DEF IInv, NotWalked, AskedKnown, DueInRange, DueHasRow, RowsSorted,
     WalkedIsCovered, Due, InRange

-----------------------------------------------------------------------------
LEMMA Invariance == Spec => []IInv
<1>1. IInv /\ [Next]_vars => IInv'
  <2> SUFFICES ASSUME IInv, [Next]_vars PROVE IInv'
    OBVIOUS
  <2>1. CASE UNCHANGED vars
    BY <2>1 DEF vars, table, walking, IInv, TypeOK, NotWalked, AskedKnown, DueInRange, DueHasRow,
       RowsSorted, WalkedIsCovered, DueIsCovered, Due, InRange, RowFor, InChunk, InQuery
  <2>2. CASE \E c \in Cfdi : Insert(c) \/ Settle(c)
    BY <2>2, InvTable
  <2>3. CASE ReadRange \/ ReadRows
    BY <2>3, InvReadRange, InvReadRows
  <2>4. CASE WalkChunk \/ Walked \/ Publish
    BY <2>4, InvWalkChunk, InvWalked, InvPublish
  <2>5. CASE Return \/ Retry
    BY <2>5, InvLeave DEF Return, Retry
  <2>6. CASE NothingWanted
    BY <2>1, <2>6 DEF NothingWanted
  <2> QED
    BY <2>1, <2>2, <2>3, <2>4, <2>5, <2>6 DEF Next, CompleteCFDIs
<1> QED
  BY <1>1, InvInit, PTL DEF Spec

\* The shape of the table, the rows that are walked and the ranges.
THEOREM TypeCorrect == Spec => []TypeOK
<1>1. IInv => TypeOK
  BY DEF IInv
<1> QED
  BY <1>1, Invariance, PTL

\* getCFDIChunks and Handle leave out no CFDI that needed its XML when the run
\* read the range and still does when it returns, for every number of CFDIs,
\* every chunk size, and every change of the table meanwhile.
THEOREM NoCfdiLeftOut == Spec => NothingLeftOut
<1>1. IInv /\ Return => \A c \in asked \cap need : \E q \in queries : Covers(q, fecha[c])
  BY DEF IInv, DueIsCovered, Due, Return, InChunk, InQuery
<1>2. IInv /\ [Next]_vars =>
        [Return => \A c \in asked \cap need : \E q \in queries : Covers(q, fecha[c])]_vars
  BY <1>1
<1> QED
  BY <1>2, Invariance, PTL DEF Spec, NothingLeftOut

-----------------------------------------------------------------------------
(* Chunks are no wider than they must be *)

\* Chunk q was cut from the rows i to j, behind the walk.
CutFrom(q, i, j) ==
  /\ i <= j /\ j < ixStart /\ j - i < maxCFDIPerChunk
  /\ dates[i].Fecha = q.start /\ dates[i].NeedDownload
  /\ dates[j].Fecha = q.end /\ dates[j].NeedDownload

TightIInv ==
  pc = "walk" =>
    /\ \A n \in DOMAIN chunks : \E i, j \in DOMAIN dates : CutFrom(chunks[n], i, j)
    /\ \A m, n \in DOMAIN chunks : m < n => chunks[m].end <= chunks[n].start

LEMMA TightWalkChunk ==
  ASSUME IInv, TightIInv, WalkChunk
  PROVE  TightIInv'
<1>0. ixStart \in Nat \ {0} /\ Len(dates) \in Nat /\ DOMAIN dates = 1 .. Len(dates)
      /\ \A i \in DOMAIN dates : dates[i].Fecha \in Nat /\ dates[i].Fecha \in Fecha
  <2>1. ixStart \in Nat \ {0} /\ dates \in Seq(RowShape)
    BY DEF IInv, TypeOK, RowShape
  <2>2. Len(dates) \in Nat /\ DOMAIN dates = 1 .. Len(dates) /\ \A i \in DOMAIN dates : dates[i] \in RowShape
    BY <2>1
  <2>3. Fecha \subseteq Nat
    BY ChunksAssumption DEF Fecha
  <2> QED
    BY <2>1, <2>2, <2>3 DEF RowShape
<1>1. PICK first, end \in ixStart .. Len(dates) :
        /\ NoneNeeded(ixStart, first - 1)
        /\ dates[first].NeedDownload \/ first = Len(dates)
        /\ LastOfChunk(first, end)
        /\ chunks' = IF dates[first].NeedDownload
                     THEN Append(chunks, [start |-> dates[first].Fecha, end |-> dates[end].Fecha])
                     ELSE chunks
        /\ ixStart' = NextStart(first)
  BY DEF WalkChunk
<1>2. pc = "walk" /\ pc' = "walk" /\ dates' = dates
  BY DEF WalkChunk, walking
<1>3. first \in 1 .. Len(dates) /\ end \in 1 .. Len(dates)
  BY <1>0
<1>4. ChunkEnd(first) \in first .. Len(dates) /\ ChunkEnd(first) - first < maxCFDIPerChunk
  <2>1. ChunkEnd(first) \in first .. Len(dates)
    BY <1>3, ChunkEndBounds DEF IInv
  <2> QED
    BY <1>0, <1>3, <2>1, ChunksAssumption DEF ChunkEnd
<1>5. ixStart' = ChunkEnd(first) + 1 /\ ixStart <= first /\ ixStart < ixStart'
  <2>1. ixStart' = ChunkEnd(first) + 1
    BY <1>1 DEF NextStart
  <2>2. ixStart <= first /\ first \in Nat
    BY <1>0, <1>3
  <2> QED
    BY <1>0, <1>4, <2>1, <2>2
<1>6. ASSUME NEW q, NEW i \in DOMAIN dates, NEW j \in DOMAIN dates, CutFrom(q, i, j)
      PROVE  CutFrom(q, i, j)'
  BY <1>0, <1>2, <1>4, <1>5, <1>6 DEF CutFrom
<1>7. CASE ~dates[first].NeedDownload
  <2>1. chunks' = chunks
    BY <1>1, <1>7
  <2> QED
    BY <1>2, <1>6, <2>1 DEF TightIInv
<1>8. CASE dates[first].NeedDownload
  <2> DEFINE chunk == [start |-> dates[first].Fecha, end |-> dates[end].Fecha]
  <2>1. chunk \in Span /\ chunks \in Seq(Span) /\ chunks' = Append(chunks, chunk)
    BY <1>0, <1>1, <1>3, <1>8 DEF Span, IInv, TypeOK
  <2>2. /\ Len(chunks) \in Nat /\ DOMAIN chunks = 1 .. Len(chunks)
        /\ DOMAIN chunks' = 1 .. Len(chunks) + 1
        /\ \A n \in 1 .. Len(chunks) : chunks'[n] = chunks[n]
        /\ chunks'[Len(chunks) + 1] = chunk
    <3> HIDE DEF chunk
    <3> QED
      BY <2>1
  <2>3. CutFrom(chunk, first, end)'
    <3>1. first <= end /\ end <= ChunkEnd(first) /\ dates[end].NeedDownload
      BY <1>1, <1>8 DEF LastOfChunk
    <3>2. end < ixStart' /\ end - first < maxCFDIPerChunk
      BY <1>3, <1>4, <1>5, <3>1, ChunksAssumption
    <3>3. chunk.start = dates[first].Fecha /\ chunk.end = dates[end].Fecha
      OBVIOUS
    <3>4. ASSUME NEW q, q = chunk PROVE CutFrom(q, first, end)'
      BY <1>2, <1>8, <3>1, <3>2, <3>3, <3>4 DEF CutFrom
    <3>5. PICK q : q = chunk
      OBVIOUS
    <3>6. CutFrom(q, first, end)'
      BY <3>4, <3>5
    <3> QED
      BY <1>2, <3>5, <3>6 DEF CutFrom
  <2>4. ASSUME NEW m \in DOMAIN chunks PROVE chunks[m].end <= dates[first].Fecha
    <3>1. PICK i, j \in DOMAIN dates : CutFrom(chunks[m], i, j)
      BY <1>2, <2>4 DEF TightIInv
    <3>2. j < first /\ dates[j].Fecha = chunks[m].end
      BY <1>0, <1>3, <1>5, <3>1 DEF CutFrom
    <3> QED
      BY <1>0, <1>3, <3>1, <3>2 DEF IInv, RowsSorted
  <2>5. ASSUME NEW n \in DOMAIN chunks' PROVE \E i, j \in DOMAIN dates' : CutFrom(chunks[n], i, j)'
    <3>1. CASE n \in DOMAIN chunks
      <4>1. PICK i, j \in DOMAIN dates : CutFrom(chunks[n], i, j)
        BY <1>2, <3>1 DEF TightIInv
      <4>2. PICK q : q = chunks[n]
        OBVIOUS
      <4>3. CutFrom(q, i, j)' /\ chunks'[n] = q
        BY <1>6, <2>2, <3>1, <4>1, <4>2
      <4> QED
        BY <1>2, <4>3 DEF CutFrom
    <3>2. CASE n = Len(chunks) + 1
      <4>1. PICK q : q = chunk
        OBVIOUS
      <4> QED
        BY <1>0, <1>2, <1>3, <2>2, <2>3, <3>2 DEF CutFrom
    <3> QED
      BY <2>2, <3>1, <3>2
  <2>6. ASSUME NEW m \in DOMAIN chunks', NEW n \in DOMAIN chunks', m < n
        PROVE  chunks'[m].end <= chunks'[n].start
    <3>1. m \in DOMAIN chunks
      BY <2>2, <2>6
    <3>2. CASE n \in DOMAIN chunks
      BY <1>2, <2>2, <2>6, <3>1, <3>2 DEF TightIInv
    <3>3. CASE n = Len(chunks) + 1
      BY <2>2, <2>4, <3>1, <3>3
    <3> QED
      BY <2>2, <3>2, <3>3
  <2> QED
    BY <2>5, <2>6 DEF TightIInv
<1> QED
  BY <1>7, <1>8

LEMMA TightInvariance == Spec => []TightIInv
<1>1. Init => TightIInv
  BY DEF Init, TightIInv
<1>2. IInv /\ TightIInv /\ [Next]_vars => TightIInv'
  <2> SUFFICES ASSUME IInv, TightIInv, [Next]_vars PROVE TightIInv'
    OBVIOUS
  <2>1. CASE WalkChunk
    BY <2>1, TightWalkChunk
  <2>2. CASE ReadRows
    BY <2>2 DEF ReadRows, TightIInv, IInv, NotWalked
  <2>3. CASE UNCHANGED <<dates, pc, ixStart, chunks>>
    BY <2>3 DEF TightIInv, CutFrom
  <2>4. CASE pc' # "walk"
    BY <2>4 DEF TightIInv
  <2>5. CASE Publish
    BY <2>5 DEF Publish, TightIInv
  <2> QED
    BY <2>1, <2>2, <2>3, <2>4, <2>5 DEF Next, CompleteCFDIs, Insert, Settle, NothingWanted, ReadRange,
       Walked, Return, Retry, Leave, vars, walking
<1> QED
  BY Invariance, <1>1, <1>2, PTL DEF Spec

\* The rows of a chunk, when no two have the same Fecha, are those it was cut from.
LEMMA RowsOfChunk ==
  ASSUME IInv, \A i, j \in DOMAIN dates : dates[i].Fecha = dates[j].Fecha => i = j,
         NEW q, NEW i \in DOMAIN dates, NEW j \in DOMAIN dates, CutFrom(q, i, j)
  PROVE  Cardinality(RowsOf(q)) <= maxCFDIPerChunk
<1>1. /\ DOMAIN dates = 1 .. Len(dates) /\ Len(dates) \in Nat
      /\ \A k \in DOMAIN dates : dates[k].Fecha \in Int
  <2>1. Fecha \subseteq Int
    BY ChunksAssumption DEF Fecha
  <2>2. dates \in Seq(RowShape)
    BY DEF IInv, TypeOK, RowShape
  <2>3. DOMAIN dates = 1 .. Len(dates) /\ Len(dates) \in Nat /\ \A k \in DOMAIN dates : dates[k] \in RowShape
    BY <2>2
  <2> QED
    BY <2>1, <2>3 DEF RowShape
<1>2. ASSUME NEW k \in RowsOf(q) PROVE k \in i .. j
  <2>1. k \in DOMAIN dates /\ dates[i].Fecha <= dates[k].Fecha /\ dates[k].Fecha <= dates[j].Fecha
    BY <1>2 DEF RowsOf, Covers, CutFrom
  <2>2. ~(k < i)
    BY <1>1, <2>1 DEF IInv, RowsSorted
  <2>3. ~(j < k)
    BY <1>1, <2>1 DEF IInv, RowsSorted
  <2> QED
    BY <1>1, <2>1, <2>2, <2>3
<1>3. IsFiniteSet(i .. j) /\ Cardinality(i .. j) = j - i + 1
  BY <1>1, FS_Interval DEF CutFrom
<1>4. IsFiniteSet(RowsOf(q)) /\ Cardinality(RowsOf(q)) <= Cardinality(i .. j)
  BY <1>2, <1>3, FS_Subset
<1>5. Cardinality(RowsOf(q)) \in Nat
  BY <1>4, FS_CardinalityType
<1> QED
  BY <1>1, <1>3, <1>4, <1>5, ChunksAssumption DEF CutFrom

\* Every chunk starts and ends at a row that needs its XML, the chunks follow each
\* other, and where all Fechas differ none holds more rows than maxCFDIPerChunk
\* (ChunksAreTight), for every table, chunk size and number of rows.
THEOREM ChunksAreTightHolds == Spec => []ChunksAreTight
<1>1. IInv /\ TightIInv => ChunksAreTight
  <2> SUFFICES ASSUME IInv, TightIInv, pc = "walk" PROVE ChunksAreTight
    BY DEF ChunksAreTight
  <2>1. ASSUME NEW n \in DOMAIN chunks, NEW t \in {chunks[n].start, chunks[n].end}
        PROVE  \E i \in DOMAIN dates : dates[i].Fecha = t /\ dates[i].NeedDownload
    BY <2>1 DEF TightIInv, CutFrom
  <2>2. \A m, n \in DOMAIN chunks : m < n => chunks[m].end <= chunks[n].start
    BY DEF TightIInv
  <2>3. ASSUME \A i, j \in DOMAIN dates : dates[i].Fecha = dates[j].Fecha => i = j,
               NEW n \in DOMAIN chunks
        PROVE  Cardinality(RowsOf(chunks[n])) <= maxCFDIPerChunk
    BY <2>3, RowsOfChunk DEF TightIInv
  <2> QED
    BY <2>1, <2>2, <2>3 DEF ChunksAreTight
<1> QED
  BY <1>1, Invariance, TightInvariance, PTL

=============================================================================
