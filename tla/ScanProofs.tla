----------------------------- MODULE ScanProofs -----------------------------
(***************************************************************************)
(* The history a scan leaves behind, for every file tree, batch size and   *)
(* number of scans, edits and faults.                                       *)
(***************************************************************************)
EXTENDS Scan, SequenceTheorems, TLAPS

-----------------------------------------------------------------------------
(* What a log says once an event is appended to it (Events).                *)

(* The domain of a log, in the form the provers need it.                    *)
LEMMA LogDomain ==
  ASSUME NEW log \in Seq(Event)
  PROVE  /\ Len(log) \in Nat
         /\ DOMAIN log = 1 .. Len(log)
         /\ \A i \in 1 .. Len(log) : log[i] \in Event
  BY LenProperties, ElementOfSeq

(* Appending an event of f leaves f at that event's stamp.                  *)
LEMMA AppendExplainsSelf ==
  ASSUME NEW log \in Seq(Event), NEW e \in Event
  PROVE  Explains(Append(log, e), e.file, e.stamp)
  <1>1. e.stamp # NoRow
    BY EventsAssumption DEF Event
  <1> DEFINE n == Len(log) + 1
  <1>2. /\ DOMAIN Append(log, e) = 1 .. n
        /\ Append(log, e)[n] = e
        /\ n \in 1 .. n
    BY LogDomain, AppendProperties
  <1>3. \A j \in 1 .. n : ~ (j > n)
    BY LogDomain
  <1> HIDE DEF n
  <1>4. QED
    BY <1>1, <1>2, <1>3 DEF Explains

(* Appending an event of another file changes nothing for f.                *)
LEMMA AppendExplainsOther ==
  ASSUME NEW log \in Seq(Event), NEW e \in Event,
         NEW f, NEW row, e.file # f, Explains(log, f, row)
  PROVE  Explains(Append(log, e), f, row)
  <1> DEFINE n == Len(log) + 1
  <1>1. /\ n \in Nat
        /\ DOMAIN log = 1 .. (n - 1)
        /\ DOMAIN Append(log, e) = 1 .. n
        /\ Append(log, e)[n] = e
        /\ \A i \in 1 .. (n - 1) : Append(log, e)[i] = log[i]
    BY LogDomain, AppendProperties
  <1>2. \A i \in 1 .. n : i \in 1 .. (n - 1) \/ i = n
    BY <1>1
  <1>3. 1 .. (n - 1) \subseteq 1 .. n
    BY <1>1
  <1> HIDE DEF n
  <1>4. CASE row = NoRow
    BY <1>1, <1>2, <1>4 DEF Explains
  <1>5. CASE row # NoRow
    BY <1>1, <1>2, <1>3, <1>5 DEF Explains
  <1>6. QED
    BY <1>4, <1>5

(* A log that explains the rows still does once one changed row's event is  *)
(* appended and the row is updated.                                         *)
LEMMA AppendExplainsAll ==
  ASSUME NEW log \in Seq(Event), NEW rows, NEW now, NEW f \in Files,
         NEW new \in Stamps \cup {Tombstone},
         ExplainsAll(log, rows),
         EventFor(f, rows[f], new) \in Event,
         now[f] = new,
         \A g \in Files \ {f} : now[g] = rows[g]
  PROVE  ExplainsAll(Append(log, EventFor(f, rows[f], new)), now)
  <1> DEFINE e == EventFor(f, rows[f], new)
  <1>1. e.file = f /\ e.stamp = new
    BY DEF EventFor
  <1> HIDE DEF e
  <1>2. ASSUME NEW g \in Files
        PROVE  Explains(Append(log, e), g, now[g])
    <2>1. CASE g = f
      BY <1>1, <2>1, AppendExplainsSelf DEF e
    <2>2. CASE g # f
      BY <1>1, <2>2, AppendExplainsOther DEF ExplainsAll, e
    <2>3. QED
      BY <2>1, <2>2
  <1>3. QED
    BY <1>2 DEF ExplainsAll, e

(* A prefix depends on the elements before its end only.                    *)
LEMMA SamePrefix ==
  ASSUME NEW s, NEW t \in Seq(Event), NEW m \in 0 .. Len(t),
         \A k \in 1 .. m : s[k] = t[k]
  PROVE  SubSeq(s, 1, m) = SubSeq(t, 1, m)
  <1>1. /\ m \in Int /\ 1 \in Int
        /\ \A k \in 1 .. m : t[k] \in Event /\ s[k] \in Event
    BY LogDomain
  <1> DEFINE u == SubSeq(s, 1, m)
             v == SubSeq(t, 1, m)
  <1>2. /\ u \in Seq(Event)
        /\ Len(u) = IF 1 <= m THEN m - 1 + 1 ELSE 0
        /\ \A k \in 1 .. (m - 1 + 1) : u[k] = s[1 + k - 1]
    BY <1>1, SubSeqProperties
  <1>3. /\ v \in Seq(Event)
        /\ Len(v) = IF 1 <= m THEN m - 1 + 1 ELSE 0
        /\ \A k \in 1 .. (m - 1 + 1) : v[k] = t[1 + k - 1]
    BY <1>1, SubSeqProperties
  <1> HIDE DEF u, v
  <1>4. \A k \in 1 .. Len(u) : u[k] = v[k]
    BY <1>1, <1>2, <1>3, LogDomain
  <1>5. QED
    BY <1>2, <1>3, <1>4, SeqEqual DEF u, v

(* An event that records a change of what the log says is no repetition.    *)
LEMMA AppendOnlyChanges ==
  ASSUME NEW log \in Seq(Event), NEW f \in Files, NEW old \in Row,
         NEW new \in Stamps \cup {Tombstone}, old # new,
         OnlyChanges(log), Explains(log, f, old),
         EventFor(f, old, new) \in Event
  PROVE  OnlyChanges(Append(log, EventFor(f, old, new)))
  <1> DEFINE e == EventFor(f, old, new)
             n == Len(log) + 1
  <1>1. e.file = f /\ e.stamp = new
    BY DEF EventFor
  <1>2. /\ n \in Nat
        /\ Append(log, e) \in Seq(Event)
        /\ DOMAIN log = 1 .. (n - 1)
        /\ DOMAIN Append(log, e) = 1 .. n
        /\ Append(log, e)[n] = e
        /\ \A i \in 1 .. (n - 1) : Append(log, e)[i] = log[i]
    BY LogDomain, AppendProperties
  <1>3. ASSUME NEW i \in 1 .. n
        PROVE  SubSeq(Append(log, e), 1, i - 1) = SubSeq(log, 1, i - 1)
    BY <1>2, SamePrefix
  <1>4. SubSeq(log, 1, n - 1) = log
    BY SubSeqFull, LogDomain
  <1> HIDE DEF e
  <1>5. ASSUME NEW i \in 1 .. n
        PROVE  \E was \in Row \ {Append(log, e)[i].stamp} :
                 /\ Explains(SubSeq(Append(log, e), 1, i - 1), Append(log, e)[i].file, was)
                 /\ Append(log, e)[i] = EventFor(Append(log, e)[i].file, was, Append(log, e)[i].stamp)
    <2>1. CASE i = n
      BY <2>1, <1>1, <1>2, <1>3, <1>4 DEF e
    <2>2. CASE i # n
      <3>1. i \in 1 .. (n - 1)
        BY <2>2, <1>2
      <3> HIDE DEF n
      <3>2. QED
        BY <3>1, <1>2, <1>3 DEF OnlyChanges
    <2>3. QED
      BY <2>1, <2>2
  <1> HIDE DEF n
  <1>6. QED
    BY <1>2, <1>5 DEF OnlyChanges, e

-----------------------------------------------------------------------------
(* The scan.                                                                *)

(* A change of a file's row to a live stamp or a tombstone has an event.    *)
LEMMA EventForType ==
  ASSUME NEW f \in Files, NEW old, NEW new \in Stamps \cup {Tombstone}
  PROVE  EventFor(f, old, new) \in Event
  BY DEF EventFor, Event, ChangeKind, EventKind

(* Every variable keeps its type.                                           *)
THEOREM ScanTypeCorrect == Spec => []TypeOK
  <1>1. Init => TypeOK
    BY ScanAssumption DEF Init, TypeOK, Row
  <1>2. TypeOK /\ [Next]_vars => TypeOK'
    <2> SUFFICES ASSUME TypeOK, [Next]_vars PROVE TypeOK'
      OBVIOUS
    <2> USE DEF TypeOK
    <2>1. ASSUME NEW p \in Paths, NEW state \in Stamps \cup {Absent}, Edit(p, state)
          PROVE  TypeOK'
      BY <2>1 DEF Edit, store, walk
    <2>2. ASSUME NEW f \in Files, Remove(f)
          PROVE  TypeOK'
      <3>1. EventFor(f, files[f], Tombstone) \in Event
        BY EventForType
      <3>2. f \in Paths
        BY DEF Paths
      <3>3. events' \in Seq(Event)
        BY <2>2, <3>1, AppendProperties DEF Remove
      <3>4. QED
        BY <2>2, <3>2, <3>3 DEF Remove, counters, Row
    <2>3. CASE Start
      BY <2>3, ScanAssumption DEF Start, store
    <2>4. CASE MissingRoot
      BY <2>4 DEF MissingRoot, store, walk, counters
    <2>5. CASE Begin
      BY <2>5 DEF Begin, store, counters
    <2>6. ASSUME NEW p \in Paths, Visit(p)
          PROVE  TypeOK'
      <3>1. tx' \in [Paths -> Row] /\ batch' \in Seq(Event) /\ skipped' \subseteq Paths
        <4>1. CASE fs[p] # Absent /\ RecordEntry(p)
          <5>1. fs[p] \in Stamps
            BY <4>1
          <5>2. EventsOf(p, tx[p], fs[p]) \in Seq(Event)
            BY <5>1, EventForType DEF EventsOf, Paths
          <5>3. QED
            BY <4>1, <5>1, <5>2, ConcatProperties DEF RecordEntry, Row
        <4>2. CASE SkipEntry(p)
          BY <4>2 DEF SkipEntry
        <4>3. CASE UNCHANGED <<tx, batch, skipped>>
          BY <4>3
        <4>4. QED
          BY <2>6, <4>1, <4>2, <4>3 DEF Visit
      <3>2. QED
        BY <2>6, <3>1 DEF Visit, store, counters
    <2>7. CASE Flush
      BY <2>7, ConcatProperties, EmptySeq DEF Flush, Commit, counters
    <2>8. CASE Finish
      BY <2>8, ConcatProperties, EmptySeq DEF Finish, Commit, counters
    <2>9. ASSUME Abandon, result' \in {"none", "error"}
          PROVE  TypeOK'
      BY <2>9, EmptySeq DEF Abandon, store
    <2>10. CASE UNCHANGED vars
      BY <2>10 DEF vars, store, walk, counters
    <2>11. QED
      BY <2>1, <2>2, <2>3, <2>4, <2>5, <2>6, <2>7, <2>8, <2>9, <2>10
      DEF Next, Walk, Fail, Kill, Poll
  <1>3. QED
    BY <1>1, <1>2, PTL DEF Spec

-----------------------------------------------------------------------------
(* An event joining the batch joins the log the transaction would commit.   *)
LEMMA BatchAppend ==
  ASSUME NEW log \in Seq(Event), NEW b \in Seq(Event), NEW e \in Event
  PROVE  /\ b \o <<e>> = Append(b, e)
         /\ log \o (b \o <<e>>) = Append(log \o b, e)
  <1>1. <<e>> \in Seq(Event) /\ log \o b \in Seq(Event)
    BY ConcatProperties
  <1>2. QED
    BY <1>1, ConcatAssociative, AppendIsConcat

(* Recording an entry keeps what the open transaction would commit in order. *)
LEMMA RecordEntryKeepsHistory ==
  ASSUME HistoryInv, NEW p \in Paths, fs[p] # Absent, RecordEntry(p),
         UNCHANGED <<events, files>>
  PROVE  /\ ExplainsAll(events \o batch', tx')
         /\ OnlyChanges(events \o batch')
  <1> USE DEF HistoryInv, TypeOK
  <1>1. fs[p] \in Stamps
    OBVIOUS
  <1>2. /\ tx' = [tx EXCEPT ![p] = fs[p]]
        /\ batch' = batch \o EventsOf(p, tx[p], fs[p])
    BY DEF RecordEntry
  <1>3. CASE p \in Dirs \/ tx[p] = fs[p]
    <2>1. batch' = batch
      BY <1>2, <1>3, ConcatEmptySeq DEF EventsOf
    <2>2. \A f \in Files : tx'[f] = tx[f]
      BY <1>2, <1>3, ScanAssumption DEF Paths
    <2>3. QED
      BY <2>1, <2>2 DEF ExplainsAll
  <1>4. CASE ~ (p \in Dirs \/ tx[p] = fs[p])
    <2> DEFINE e == EventFor(p, tx[p], fs[p])
    <2>1. p \in Files /\ tx[p] \in Row
      BY <1>4 DEF Paths
    <2>2. e \in Event
      BY <1>1, <2>1, EventForType
    <2>3. batch' = batch \o <<e>>
      BY <1>2, <1>4 DEF EventsOf
    <2> HIDE DEF e
    <2>4. events \o batch' = Append(events \o batch, e)
      BY <2>2, <2>3, BatchAppend
    <2>5. events \o batch \in Seq(Event)
      BY ConcatProperties
    <2>6. tx'[p] = fs[p] /\ \A f \in Files \ {p} : tx'[f] = tx[f]
      BY <1>2, <2>1 DEF Paths
    <2>7. ExplainsAll(Append(events \o batch, e), tx')
      BY <1>1, <2>1, <2>2, <2>5, <2>6, AppendExplainsAll DEF e
    <2>8. OnlyChanges(Append(events \o batch, e))
      BY <1>1, <1>4, <2>1, <2>2, <2>5, AppendOnlyChanges DEF e, ExplainsAll
    <2>9. QED
      BY <2>4, <2>7, <2>8
  <1>5. QED
    BY <1>3, <1>4

(* The inductive invariant.                                                 *)
LEMMA HistoryInvariant == Spec => []HistoryInv
  <1>1. Init => HistoryInv
    <2> SUFFICES ASSUME Init PROVE HistoryInv
      OBVIOUS
    <2>1. TypeOK
      BY ScanAssumption DEF Init, TypeOK, Row
    <2>2. events \o batch = <<>> /\ events = <<>>
      BY ConcatEmptySeq, EmptySeq DEF Init
    <2>3. ExplainsAll(<<>>, files) /\ ExplainsAll(<<>>, tx)
      BY DEF Init, ExplainsAll, Explains, Paths
    <2>4. OnlyChanges(<<>>)
      BY DEF OnlyChanges
    <2>5. QED
      BY <2>1, <2>2, <2>3, <2>4 DEF HistoryInv, Explained, EventsAreChanges, Init
  <1>2. HistoryInv /\ TypeOK' /\ [Next]_vars => HistoryInv'
    <2> SUFFICES ASSUME HistoryInv, TypeOK', [Next]_vars PROVE HistoryInv'
      OBVIOUS
    <2> USE DEF HistoryInv, Explained, EventsAreChanges
    <2>1. CASE UNCHANGED <<files, events, tx, batch>> /\ pc' = pc
      BY <2>1
    <2>2. ASSUME NEW f \in Files, Remove(f)
          PROVE  HistoryInv'
      <3> DEFINE e == EventFor(f, files[f], Tombstone)
      <3>1. e \in Event /\ files[f] \in Row /\ files[f] # Tombstone /\ f \in Paths
        BY <2>2, EventForType, EventsAssumption DEF Remove, Row, Paths
      <3>2. /\ events' = Append(events, e)
            /\ files' = [files EXCEPT ![f] = Tombstone]
            /\ tx' = files' /\ batch' = <<>> /\ pc' = "idle"
        BY <2>2 DEF Remove
      <3>3. events \in Seq(Event)
        BY DEF TypeOK
      <3>4. files'[f] = Tombstone /\ \A g \in Files \ {f} : files'[g] = files[g]
        BY <3>1, <3>2 DEF TypeOK, Paths
      <3>5. ExplainsAll(events', files')
        BY <3>1, <3>2, <3>3, <3>4, AppendExplainsAll DEF e
      <3>6. OnlyChanges(events')
        BY <3>1, <3>2, <3>3, AppendOnlyChanges DEF e, ExplainsAll
      <3>7. events' \o batch' = events'
        BY <3>2, ConcatEmptySeq DEF TypeOK
      <3>8. QED
        BY <3>2, <3>5, <3>6, <3>7
    <2>3. CASE Start
      BY <2>3 DEF Start, store
    <2>4. CASE Begin
      BY <2>4 DEF Begin, store
    <2>5. ASSUME NEW p \in Paths, Visit(p)
          PROVE  HistoryInv'
      <3>1. UNCHANGED <<files, events>> /\ pc' \notin {"idle", "begin"}
        BY <2>5 DEF Visit, store
      <3>2. CASE fs[p] # Absent /\ RecordEntry(p)
        BY <3>1, <3>2, RecordEntryKeepsHistory
      <3>3. CASE UNCHANGED <<tx, batch>>
        BY <3>1, <3>3
      <3>4. QED
        BY <2>5, <3>2, <3>3 DEF Visit, SkipEntry
    <2>6. ASSUME Commit, UNCHANGED tx
          PROVE  HistoryInv'
      <3>1. events' = events \o batch /\ files' = tx /\ batch' = <<>> /\ tx' = tx
        BY <2>6 DEF Commit
      <3>2. events' \o batch' = events'
        BY <3>1, ConcatEmptySeq DEF TypeOK
      <3>3. QED
        BY <3>1, <3>2
    <2>7. CASE Abandon
      <3>1. /\ UNCHANGED <<files, events>>
            /\ tx' = files /\ batch' = <<>>
        BY <2>7 DEF Abandon, store
      <3>2. events \o <<>> = events
        BY ConcatEmptySeq DEF TypeOK
      <3>3. QED
        BY <3>1, <3>2
    <2>8. QED
      BY <2>1, <2>2, <2>3, <2>4, <2>5, <2>6, <2>7
      DEF Next, Walk, Edit, MissingRoot, Flush, Finish, Fail, Kill, Poll, vars, store, walk
  <1>3. QED
    BY <1>1, <1>2, ScanTypeCorrect, PTL DEF Spec

(* Whatever a kill, a failed write or an edit interrupts, replaying the     *)
(* committed events yields the committed rows of the files: the property    *)
(* the transaction around upserts and events in `scan` exists for.          *)
THEOREM ScanExplained == Spec => []Explained
  <1>1. HistoryInv => Explained
    BY DEF HistoryInv
  <1>2. QED
    BY <1>1, HistoryInvariant, PTL

(* No scan, however often interrupted and run again, records an event that  *)
(* is not a change: record_entry's unchanged branch.                        *)
THEOREM ScanEventsAreChanges == Spec => []EventsAreChanges
  <1>1. HistoryInv => EventsAreChanges
    BY DEF HistoryInv
  <1>2. QED
    BY <1>1, HistoryInvariant, PTL

-----------------------------------------------------------------------------
(* The detailed specification implements the abstract one.                  *)

(* The definitions of the instance are those of Events.                     *)
LEMMA SameEvents ==
  /\ TimelineOf!Row = Row
  /\ TimelineOf!Event = Event
  /\ \A f, old, new : TimelineOf!EventFor(f, old, new) = EventFor(f, old, new)
  BY DEF TimelineOf!Row, Row, TimelineOf!Event, Event, TimelineOf!EventKind,
         EventKind, TimelineOf!EventFor, EventFor, TimelineOf!ChangeKind, ChangeKind

(* Recording an entry the walk had not reached keeps the batch one event    *)
(* for each file whose row the transaction changes.                         *)
LEMMA RecordEntryKeepsBatch ==
  ASSUME TypeOK, TimelineOf!Accounts(batch, files, tx),
         NEW p \in Paths, tx[p] = files[p], fs[p] # Absent, RecordEntry(p)
  PROVE  TimelineOf!Accounts(batch', files, tx')
  <1> USE DEF TypeOK
  <1>1. /\ tx' = [tx EXCEPT ![p] = fs[p]]
        /\ batch' = batch \o EventsOf(p, tx[p], fs[p])
        /\ fs[p] \in Stamps
    BY DEF RecordEntry
  <1>2. CASE p \in Dirs \/ tx[p] = fs[p]
    <2>1. batch' = batch
      BY <1>1, <1>2, ConcatEmptySeq DEF EventsOf
    <2>2. \A f \in Files : tx'[f] = tx[f]
      BY <1>1, <1>2, ScanAssumption DEF Paths
    <2>3. QED
      BY <2>1, <2>2 DEF TimelineOf!Accounts
  <1>3. CASE ~ (p \in Dirs \/ tx[p] = fs[p])
    <2> DEFINE e == EventFor(p, files[p], fs[p])
               n == Len(batch) + 1
    <2>1. p \in Files
      BY <1>3 DEF Paths
    <2>2. e \in Event /\ e.file = p
      BY <1>1, <2>1, EventForType DEF EventFor
    <2>3. batch' = Append(batch, e)
      BY <1>1, <1>3, <2>2, BatchAppend DEF EventsOf
    <2>4. /\ n \in Nat
          /\ DOMAIN batch = 1 .. (n - 1)
          /\ DOMAIN batch' = 1 .. n
          /\ batch'[n] = e
          /\ \A i \in 1 .. (n - 1) : batch'[i] = batch[i]
      BY <2>2, <2>3, LogDomain, AppendProperties
    <2>5. \A i \in 1 .. n : i \in 1 .. (n - 1) \/ i = n
      BY <2>4
    <2>6. /\ tx'[p] = fs[p] /\ tx'[p] # files[p]
          /\ \A f \in Files \ {p} : tx'[f] = tx[f]
      BY <1>1, <1>3, <2>1 DEF Paths
    <2>7. \A i \in 1 .. (n - 1) : batch[i].file # p
      BY <2>4 DEF TimelineOf!Accounts
    <2>8. e = EventFor(p, files[p], tx'[p])
      BY <2>6
    <2> HIDE DEF e
    <2>9. ASSUME NEW i \in DOMAIN batch'
          PROVE  /\ batch'[i].file \in Files
                 /\ tx'[batch'[i].file] # files[batch'[i].file]
                 /\ batch'[i] = TimelineOf!EventFor(batch'[i].file, files[batch'[i].file],
                                                    tx'[batch'[i].file])
      <3>1. CASE i = n
        BY <3>1, <2>1, <2>2, <2>4, <2>6, <2>8, SameEvents
      <3>2. CASE i \in 1 .. (n - 1)
        BY <3>2, <2>4, <2>6, <2>7 DEF TimelineOf!Accounts
      <3>3. QED
        BY <3>1, <3>2, <2>4, <2>5
    <2>10. ASSUME NEW f \in Files, tx'[f] # files[f]
           PROVE  \E i \in DOMAIN batch' : batch'[i].file = f
      <3>1. CASE f = p
        BY <3>1, <2>2, <2>4
      <3>2. CASE f # p
        <4>1. PICK i \in DOMAIN batch : batch[i].file = f
          BY <3>2, <2>6, <2>10 DEF TimelineOf!Accounts
        <4>2. i \in DOMAIN batch' /\ batch'[i].file = f
          BY <4>1, <2>4
        <4>3. QED
          BY <4>2
      <3>3. QED
        BY <3>1, <3>2
    <2>11. ASSUME NEW i \in DOMAIN batch', NEW j \in DOMAIN batch',
                  batch'[i].file = batch'[j].file
           PROVE  i = j
      BY <2>2, <2>4, <2>5, <2>7, <2>11 DEF TimelineOf!Accounts
    <2>12. QED
      BY <2>9, <2>10, <2>11 DEF TimelineOf!Accounts
  <1>4. QED
    BY <1>2, <1>3

LEMMA BatchInvariant == Spec => []BatchInv
  <1>1. Init => BatchInv
    BY DEF Init, BatchInv, TimelineOf!Accounts
  <1>2. HistoryInv /\ BatchInv /\ [Next]_vars => BatchInv'
    <2> SUFFICES ASSUME HistoryInv, BatchInv, [Next]_vars PROVE BatchInv'
      OBVIOUS
    <2> USE DEF BatchInv
    <2>1. CASE UNCHANGED <<files, tx, batch>> /\ pc' # "walk"
      BY <2>1
    <2>2. CASE UNCHANGED <<files, tx, batch, todo, pc>>
      BY <2>2
    <2>3. ASSUME tx' = files', batch' = <<>>
          PROVE  BatchInv'
      BY <2>3 DEF TimelineOf!Accounts
    <2>4. CASE Begin
      BY <2>4 DEF Begin, HistoryInv, store
    <2>5. ASSUME NEW p \in Paths, Visit(p)
          PROVE  BatchInv'
      <3>1. /\ UNCHANGED <<files, events>>
            /\ pc = "walk" /\ p \in todo /\ todo' = todo \ {p}
        BY <2>5 DEF Visit, store
      <3>2. CASE fs[p] # Absent /\ RecordEntry(p)
        <4>1. TimelineOf!Accounts(batch', files, tx')
          BY <3>1, <3>2, RecordEntryKeepsBatch DEF HistoryInv
        <4>2. \A q \in todo' : tx'[q] = files'[q]
          BY <3>1, <3>2 DEF RecordEntry, HistoryInv, TypeOK
        <4>3. QED
          BY <3>1, <4>1, <4>2
      <3>3. CASE UNCHANGED <<tx, batch>>
        BY <3>1, <3>3
      <3>4. QED
        BY <2>5, <3>2, <3>3 DEF Visit, SkipEntry
    <2>6. ASSUME NEW f \in Files, Remove(f)
          PROVE  tx' = files' /\ batch' = <<>>
      BY <2>6 DEF Remove, HistoryInv
    <2>7. CASE Abandon
      BY <2>3, <2>7 DEF Abandon, store
    <2>8. CASE Commit /\ UNCHANGED tx
      BY <2>3, <2>8 DEF Commit
    <2>9. QED
      BY <2>1, <2>2, <2>3, <2>4, <2>5, <2>6, <2>7, <2>8
      DEF Next, Walk, Edit, Start, MissingRoot, Flush, Finish, Fail, Kill, Poll, vars, store, walk
  <1>3. QED
    BY <1>1, <1>2, HistoryInvariant, PTL DEF Spec

(* A commit of accounted changes is a step of Timeline.                     *)
LEMMA CommitIsRecord ==
  ASSUME TypeOK, TypeOK', NEW new \in Seq(Event),
         events' = events \o new,
         TimelineOf!Accounts(new, files, files')
  PROVE  TimelineOf!Record
  <1> USE DEF TypeOK
  <1> DEFINE old == [f \in Files |-> files[f]]
             now == [f \in Files |-> files'[f]]
  <1>1. Files \subseteq Paths
    BY DEF Paths
  <1>2. now \in [Files -> TimelineOf!Row] /\ old \in [Files -> TimelineOf!Row]
    BY <1>1, SameEvents
  <1>3. TimelineOf!Appended = new
    <2> DEFINE n == Len(events)
               m == Len(new)
               log == events \o new
    <2>1. /\ n \in Nat /\ m \in Nat
          /\ log \in Seq(Event) /\ Len(log) = n + m
          /\ \A i \in 1 .. (n + m) : log[i] = IF i <= n THEN events[i] ELSE new[i - n]
      BY LogDomain, ConcatProperties
    <2> HIDE DEF log, n, m
    <2> DEFINE s == SubSeq(log, n + 1, n + m)
    <2>2. \A i \in (n + 1) .. (n + m) : log[i] \in Event
      BY <2>1, LogDomain
    <2>3. /\ s \in Seq(Event)
          /\ Len(s) = IF n + 1 <= n + m THEN n + m - (n + 1) + 1 ELSE 0
          /\ \A i \in 1 .. (n + m - (n + 1) + 1) : s[i] = log[n + 1 + i - 1]
      BY <2>1, <2>2, SubSeqProperties
    <2> HIDE DEF s
    <2>4. Len(s) = m
      <3>1. n + 1 <= n + m <=> m # 0
        BY <2>1
      <3>2. n + m - (n + 1) + 1 = m
        BY <2>1
      <3>3. QED
        BY <2>3, <3>1, <3>2
    <2>5. \A i \in 1 .. m : s[i] = new[i]
      BY <2>1, <2>3
    <2>6. s = new
      BY <2>3, <2>4, <2>5, SeqEqual DEF m
    <2>7. QED
      BY <2>1, <2>6 DEF s, log, n, TimelineOf!Appended
  <1>4. TimelineOf!Accounts(new, old, now)
    BY DEF TimelineOf!Accounts
  <1>5. ASSUME NEW f \in Files, now[f] = NoRow
        PROVE  old[f] = NoRow
    <2>1. SUFFICES ASSUME files'[f] # files[f] PROVE FALSE
      BY <1>5
    <2>2. PICK i \in DOMAIN new : new[i].file = f
      BY <2>1 DEF TimelineOf!Accounts
    <2>3. new[i] = EventFor(f, files[f], files'[f]) /\ new[i] \in Event
      BY <2>2, SameEvents, LogDomain DEF TimelineOf!Accounts
    <2>4. new[i].stamp = NoRow
      BY <2>3, <1>5 DEF EventFor
    <2>5. QED
      BY <2>3, <2>4, EventsAssumption DEF Event
  <1>6. QED
    BY <1>2, <1>3, <1>4, <1>5 DEF TimelineOf!Record

(* The scan commits the rows of the files and their events together, one    *)
(* event for each changed row: the abstract history of Timeline, whatever   *)
(* is in memory when the process dies.                                      *)
THEOREM ScanImplementsTimeline == Spec => ImplementsTimeline
  <1>1. Init => TimelineOf!Init
    <2> SUFFICES ASSUME Init PROVE TimelineOf!Init
      OBVIOUS
    <2>1. [f \in Files |-> files[f]] \in [Files -> TimelineOf!Row]
      BY SameEvents DEF Init, Paths, Row
    <2>2. events = <<>> /\ events \in Seq(TimelineOf!Event)
      BY EmptySeq DEF Init
    <2>3. TimelineOf!OnlyChanges(events)
      BY <2>2 DEF TimelineOf!OnlyChanges
    <2>4. TimelineOf!ExplainsAll(events, [f \in Files |-> files[f]])
      BY <2>2 DEF TimelineOf!ExplainsAll, TimelineOf!Explains, Init, Paths
    <2>5. QED
      BY <2>1, <2>2, <2>3, <2>4 DEF TimelineOf!Init
  <1>2. HistoryInv /\ HistoryInv' /\ BatchInv /\ [Next]_vars
          => [TimelineOf!Record]_(TimelineOf!vars)
    <2> SUFFICES ASSUME HistoryInv, HistoryInv', BatchInv, [Next]_vars
                 PROVE  TimelineOf!Record \/ UNCHANGED TimelineOf!vars
      OBVIOUS
    <2> USE DEF HistoryInv
    <2>1. CASE UNCHANGED <<files, events>>
      BY <2>1 DEF TimelineOf!vars
    <2>2. CASE Commit
      BY <2>2, CommitIsRecord DEF Commit, BatchInv, TypeOK
    <2>3. ASSUME NEW f \in Files, Remove(f)
          PROVE  TimelineOf!Record
      <3> DEFINE e == EventFor(f, files[f], Tombstone)
      <3>1. e \in Event /\ e.file = f /\ f \in Paths /\ files[f] # Tombstone
        BY <2>3, EventForType, EventsAssumption DEF EventFor, Paths, Remove
      <3>2. <<e>> \in Seq(Event) /\ DOMAIN <<e>> = {1} /\ <<e>>[1] = e
        BY <3>1
      <3>3. /\ files' = [files EXCEPT ![f] = Tombstone]
            /\ events' = Append(events, e)
        BY <2>3 DEF Remove
      <3>4. events' = events \o <<e>>
        BY <3>1, <3>3, BatchAppend DEF TypeOK
      <3>5. files'[f] = Tombstone /\ \A g \in Files \ {f} : files'[g] = files[g]
        BY <3>1, <3>3 DEF TypeOK, Paths
      <3>6. e = TimelineOf!EventFor(f, files[f], files'[f])
        BY <3>5, SameEvents
      <3> HIDE DEF e
      <3>7. TimelineOf!Accounts(<<e>>, files, files')
        BY <3>1, <3>2, <3>5, <3>6 DEF TimelineOf!Accounts
      <3>8. QED
        BY <3>2, <3>4, <3>7, CommitIsRecord
    <2>4. QED
      BY <2>1, <2>2, <2>3
      DEF Next, Walk, Edit, Start, MissingRoot, Begin, Visit, Flush, Finish, Fail, Kill, Poll,
          Abandon, vars, store
  <1>3. QED
    BY <1>1, <1>2, HistoryInvariant, BatchInvariant, PTL
    DEF Spec, ImplementsTimeline, TimelineOf!Spec

-----------------------------------------------------------------------------
(* What the walk has passed is in the open transaction, at a state it had    *)
(* since the scan began. A commit in the middle of the walk keeps that only  *)
(* because the next transaction starts from what was committed.             *)
CoverInv ==
  /\ pc # "idle" =>
       \A p \in Paths :
         /\ fs[p] \in window[p]
         /\ p \notin todo \cup skipped /\ Absent \notin window[p] => tx[p] \in window[p]
  /\ ScanCovers

LEMMA CoverStep == HistoryInv /\ CoverInv /\ [Next]_vars => CoverInv'
  <1> SUFFICES ASSUME HistoryInv, CoverInv, [Next]_vars PROVE CoverInv'
    OBVIOUS
  <1>1. TypeOK
    BY DEF HistoryInv
  <1>2. ASSUME NEW p \in Paths, NEW state \in Stamps \cup {Absent}, Edit(p, state)
        PROVE  CoverInv'
    <2>1. /\ window' = [window EXCEPT ![p] = IF pc = "idle" THEN @ ELSE @ \cup {state}]
          /\ fs' = [fs EXCEPT ![p] = state]
          /\ UNCHANGED <<tx, files, todo, skipped, pc, result>>
      BY <1>2 DEF Edit, store, walk
    <2>2. CASE pc = "idle"
      <3>1. window' = window
        BY <2>1, <2>2, <1>1 DEF TypeOK
      <3>2. QED
        BY <2>1, <2>2, <3>1 DEF CoverInv, ScanCovers
    <2>3. CASE pc # "idle"
      <3>1. \A q \in Paths :
              /\ q = p => fs'[q] = state /\ window'[q] = window[q] \cup {state}
              /\ q # p => fs'[q] = fs[q] /\ window'[q] = window[q]
        BY <2>1, <2>3, <1>1 DEF TypeOK
      <3>2. \A q \in Paths : window[q] \subseteq window'[q] /\ fs'[q] \in window'[q]
        BY <2>3, <3>1 DEF CoverInv
      <3>3. QED
        BY <2>1, <2>3, <3>2 DEF CoverInv, ScanCovers
    <2>4. QED
      BY <2>2, <2>3
  <1>3. ASSUME NEW f \in Files, Remove(f) PROVE CoverInv'
    BY <1>3 DEF Remove, CoverInv, ScanCovers
  <1>4. CASE Start
    <2>1. /\ pc' = "begin" /\ todo' = Paths /\ fs' = fs
          /\ window' = [p \in Paths |-> {fs[p]}]
      BY <1>4 DEF Start
    <2>2. QED
      BY <2>1 DEF CoverInv, ScanCovers
  <1>5. CASE MissingRoot
    BY <1>5 DEF MissingRoot, CoverInv, ScanCovers
  <1>6. CASE Begin
    <2>1. tx' = tx /\ pc = "begin" /\ pc' = "walk"
      BY <1>6 DEF Begin, HistoryInv
    <2>2. QED
      BY <1>6, <2>1 DEF Begin, CoverInv, ScanCovers
  <1>7. CASE Flush
    BY <1>7 DEF Flush, CoverInv, ScanCovers
  <1>8. CASE Finish
    <2>1. /\ pc = "walk" /\ todo = {} /\ files' = tx /\ pc' = "idle"
          /\ UNCHANGED <<skipped, window>>
      BY <1>8 DEF Finish, Commit
    <2>2. ScanCovers'
      BY <2>1 DEF CoverInv, ScanCovers
    <2>3. QED
      BY <2>1, <2>2 DEF CoverInv
  <1>9. ASSUME NEW p \in Paths, Visit(p) PROVE CoverInv'
    <2>1. /\ pc = "walk" /\ pc' # "idle" /\ todo' = todo \ {p}
          /\ UNCHANGED <<fs, window>>
      BY <1>9 DEF Visit
    <2>2. ASSUME NEW q \in Paths, q \notin todo' \cup skipped', Absent \notin window[q]
          PROVE  tx'[q] \in window[q]
      <3>1. CASE q = p
        <4>1. fs[p] \in window[p] /\ fs[p] # Absent
          BY <2>1, <2>2, <3>1 DEF CoverInv
        <4>2. CASE RecordEntry(p)
          <5>1. tx' = [tx EXCEPT ![p] = fs[p]]
            BY <4>2 DEF RecordEntry
          <5>2. tx'[p] = fs[p]
            BY <5>1, <1>1 DEF TypeOK
          <5>3. QED
            BY <4>1, <5>2, <3>1
        <4>3. CASE SkipEntry(p)
          BY <2>2, <3>1, <4>3 DEF SkipEntry
        <4>4. QED
          BY <1>9, <4>1, <4>2, <4>3 DEF Visit
      <3>2. CASE q # p
        <4>1. q \notin todo \cup skipped
          BY <1>9, <2>1, <2>2, <3>2 DEF Visit, RecordEntry, SkipEntry
        <4>2. tx[q] \in window[q]
          BY <2>1, <2>2, <4>1 DEF CoverInv
        <4>3. tx'[q] = tx[q]
          <5>1. CASE RecordEntry(p)
            BY <5>1, <3>2, <1>1 DEF RecordEntry, TypeOK
          <5>2. CASE UNCHANGED tx
            BY <5>2
          <5>3. QED
            BY <1>9, <5>1, <5>2 DEF Visit, SkipEntry
        <4>4. QED
          BY <4>2, <4>3
      <3>3. QED
        BY <3>1, <3>2
    <2>3. QED
      BY <2>1, <2>2 DEF CoverInv, ScanCovers
  <1>10. CASE Fail
    BY <1>10 DEF Fail, Abandon, CoverInv, ScanCovers
  <1>11. CASE Kill
    BY <1>11 DEF Kill, Abandon, CoverInv, ScanCovers
  <1>12. CASE UNCHANGED vars
    BY <1>12 DEF vars, store, walk, CoverInv, ScanCovers
  <1>13. QED
    BY <1>2, <1>3, <1>4, <1>5, <1>6, <1>7, <1>8, <1>9, <1>10, <1>11, <1>12
    DEF Next, Walk, Poll

(* A scan that returned Ok recorded every path that was there throughout and *)
(* could be read, at a state it had meanwhile, in however many batches and   *)
(* beside whatever edits (scan_inner).                                      *)
THEOREM ScanCoversTree == Spec => []ScanCovers
  <1>1. Init => CoverInv
    BY DEF Init, CoverInv, ScanCovers
  <1>2. CoverInv => ScanCovers
    BY DEF CoverInv
  <1>3. QED
    BY <1>1, <1>2, CoverStep, HistoryInvariant, PTL DEF Spec
=============================================================================
