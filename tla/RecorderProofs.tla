--------------------------- MODULE RecorderProofs ---------------------------
(***************************************************************************)
(* The history and the rows the watch's handlers leave behind, for every     *)
(* number of names, edits, kills, failed statements and overflows. With the  *)
(* perfect watch of Recorder: the history, that the rows mirror the files,   *)
(* and that a file keeps its row. With the real one (Observer): the history, *)
(* and that the rows mirror the files at names no rename touched.           *)
(***************************************************************************)
EXTENDS Observer, SequenceTheorems, WellFoundedInduction, TLAPS

(* What is proved of the watch.                                             *)
P == INSTANCE WatchProofs

-----------------------------------------------------------------------------
(* What the statements on `files` find and leave, for any table (Rows).     *)

(* A set of numbers has a least one. Induction over a table's length uses it *)
(* on the lengths for which a claim fails.                                  *)
LEMMA LeastNat ==
  ASSUME NEW T \in SUBSET Nat, T # {}
  PROVE  \E x \in T : \A y \in T : x <= y
  <1> DEFINE R == {s \in Nat \X Nat : s[1] < s[2]}
  <1>1. OpToRel(<, Nat) = R
    BY DEF OpToRel
  <1>2. IsWellFoundedOn(R, Nat)
    BY <1>1, NatLessThanWellFounded, Zenon
  <1>3. PICK x \in T : \A y \in T : ~ (<<y, x>> \in R)
    <2> HIDE DEF R
    <2>1. QED
      BY <1>2, WFMin, Zenon
  <1>4. ASSUME NEW y \in T PROVE x <= y
    <2>1. x \in Nat /\ y \in Nat
      OBVIOUS
    <2>2. ~ (<<y, x>> \in R)
      BY <1>3
    <2>3. ~ (y < x)
      BY <2>1, <2>2
    <2>4. QED
      BY <2>1, <2>3
  <1>5. QED
    BY <1>4

(* The types of a table.                                                    *)
LEMMA TableType ==
  ASSUME NEW table \in Seq(Row)
  PROVE  /\ Len(table) \in Nat
         /\ DOMAIN table = 1 .. Len(table)
         /\ \A r \in DOMAIN table :
              /\ r \in Nat \ {0}
              /\ table[r] \in Row
              /\ table[r].name \in Names
              /\ table[r].stamp \in Stamps
              /\ table[r].deleted \in Nat
  <1>1. Len(table) \in Nat /\ DOMAIN table = 1 .. Len(table)
    BY LenProperties
  <1>2. \A r \in 1 .. Len(table) : table[r] \in Row
    BY ElementOfSeq
  <1>3. \A r \in 1 .. Len(table) : r \in Nat \ {0}
    BY <1>1
  <1>4. QED
    BY <1>1, <1>2, <1>3 DEF Row

(* Among some rows one was deleted last.                                     *)
LEMMA LastDeleted ==
  ASSUME NEW table \in Seq(Row), NEW S \in SUBSET DOMAIN table, S # {}
  PROVE  \E r \in S : \A q \in S : table[q].deleted <= table[r].deleted
  <1> DEFINE Upto(k) == S \cap 1 .. k
             Top(k) == \E r \in Upto(k) : \A q \in Upto(k) : table[q].deleted <= table[r].deleted
             T == {k \in Nat : Upto(k) # {} /\ ~ Top(k)}
  <1>1. /\ Len(table) \in Nat
        /\ \A r \in S : r \in 1 .. Len(table) /\ table[r].deleted \in Nat
    BY TableType
  <1>2. ASSUME NEW k \in T, \A j \in T : k <= j PROVE FALSE
    <2>1. k \in Nat /\ Upto(k) # {} /\ ~ Top(k)
      OBVIOUS
    <2>12. \A j \in Nat : Upto(j) = {} \/ Top(j) \/ j \in T
      OBVIOUS
    <2> HIDE DEF T, Top
    <2>2. k # 0
      BY <2>1
    <2>3. k - 1 \in Nat /\ ~ (k <= k - 1)
      BY <2>1, <2>2
    <2>4. k - 1 \notin T
      BY <1>2, <2>3
    <2>5. Upto(k - 1) = {} \/ Top(k - 1)
      <3> HIDE DEF Upto
      <3>1. QED
        BY <2>12, <2>3, <2>4
    <2>6. Upto(k) \subseteq Upto(k - 1) \cup {k} /\ Upto(k - 1) \subseteq Upto(k)
      <3>1. 1 .. k \subseteq 1 .. (k - 1) \cup {k} /\ 1 .. (k - 1) \subseteq 1 .. k
        BY <2>1, <2>2
      <3>2. QED
        BY <3>1
    <2>7. k \in S
      <3> SUFFICES ASSUME k \notin S PROVE FALSE
        OBVIOUS
      <3>1. Upto(k) = Upto(k - 1)
        BY <2>6
      <3> HIDE DEF Upto
      <3>2. QED
        BY <2>1, <2>5, <3>1 DEF Top
    <2>8. k \in Upto(k) /\ \A q \in Upto(k) : q \in S
      BY <2>1, <2>2, <2>7
    <2> HIDE DEF Upto
    <2>9. CASE Upto(k - 1) = {}
      <3>1. \A q \in Upto(k) : q = k
        BY <2>6, <2>9
      <3>2. table[k].deleted <= table[k].deleted
        BY <1>1, <2>7
      <3>3. QED
        BY <2>1, <2>8, <3>1, <3>2 DEF Top
    <2>10. CASE Top(k - 1)
      <3>1. PICK r \in Upto(k - 1) :
              \A q \in Upto(k - 1) : table[q].deleted <= table[r].deleted
        BY <2>10 DEF Top
      <3>2. r \in Upto(k)
        BY <2>6, <3>1
      <3>3. table[r].deleted \in Nat /\ table[k].deleted \in Nat
        BY <1>1, <2>8, <3>2
      <3>4. CASE table[k].deleted <= table[r].deleted
        BY <2>1, <2>6, <3>1, <3>2, <3>4 DEF Top
      <3>5. CASE table[r].deleted <= table[k].deleted
        <4>1. ASSUME NEW q \in Upto(k) PROVE table[q].deleted <= table[k].deleted
          <5>1. table[q].deleted \in Nat
            BY <1>1, <2>8
          <5>2. q = k \/ table[q].deleted <= table[r].deleted
            BY <2>6, <3>1
          <5>3. QED
            BY <3>3, <3>5, <5>1, <5>2
        <4>2. QED
          BY <2>1, <2>8, <4>1 DEF Top
      <3>6. QED
        BY <3>3, <3>4, <3>5
    <2>11. QED
      BY <2>5, <2>9, <2>10
  <1>3. T = {}
    <2>1. T \in SUBSET Nat
      OBVIOUS
    <2> HIDE DEF T
    <2>2. QED
      BY <1>2, <2>1, LeastNat
  <1>4. Upto(Len(table)) = S
    BY <1>1
  <1>5. Top(Len(table))
    <2>1. Len(table) \notin T
      BY <1>3
    <2> HIDE DEF Upto, Top
    <2>2. QED
      BY <1>1, <1>4, <2>1
  <1>6. QED
    BY <1>4, <1>5

-----------------------------------------------------------------------------
(* What a lookup finds is at the name, and live if anything there is.       *)
LEMMA FoundAtIsThere ==
  ASSUME NEW table \in Seq(Row), NEW n \in Names, RowsAt(table, n) # {}
  PROVE  /\ FoundAt(table, n) \in RowsAt(table, n)
         /\ LiveAt(table, n) # {} => FoundAt(table, n) \in LiveAt(table, n)
  <1> DEFINE Is(r) == \/ r \in LiveAt(table, n)
                      \/ /\ LiveAt(table, n) = {}
                         /\ \A q \in RowsAt(table, n) : table[q].deleted <= table[r].deleted
  <1>1. \E r \in RowsAt(table, n) : Is(r)
    <2>1. CASE LiveAt(table, n) # {}
      BY <2>1 DEF LiveAt
    <2>2. CASE LiveAt(table, n) = {}
      <3>1. RowsAt(table, n) \in SUBSET DOMAIN table
        BY DEF RowsAt
      <3>2. \E r \in RowsAt(table, n) :
              \A q \in RowsAt(table, n) : table[q].deleted <= table[r].deleted
        BY <3>1, LastDeleted
      <3>3. QED
        BY <2>2, <3>2
    <2>3. QED
      BY <2>1, <2>2
  <1>2. FoundAt(table, n) = CHOOSE r \in RowsAt(table, n) : Is(r)
    BY DEF FoundAt
  <1>3. FoundAt(table, n) \in RowsAt(table, n) /\ Is(FoundAt(table, n))
    <2> HIDE DEF Is
    <2>1. QED
      BY <1>1, <1>2, Zenon
  <1>4. QED
    BY <1>3

(* A deletion is given a number.                                            *)
LEMMA NowIsLater ==
  ASSUME NEW table \in Seq(Row), NEW n \in Names
  PROVE  Now(table, n) \in Nat \ {0}
  <1> DEFINE D == {0} \cup {table[r].deleted : r \in RowsAt(table, n)}
  <1>1. \A r \in RowsAt(table, n) : r \in DOMAIN table /\ table[r].deleted \in Nat
    BY TableType DEF RowsAt
  <1>2. \E m \in D : \A d \in D : m >= d
    <2>1. CASE RowsAt(table, n) = {}
      BY <2>1
    <2>2. CASE RowsAt(table, n) # {}
      <3>1. RowsAt(table, n) \in SUBSET DOMAIN table
        BY <1>1
      <3>2. PICK r \in RowsAt(table, n) :
              \A q \in RowsAt(table, n) : table[q].deleted <= table[r].deleted
        BY <2>2, <3>1, LastDeleted
      <3>3. \A d \in D : table[r].deleted >= d
        BY <1>1, <3>2
      <3>4. QED
        BY <3>2, <3>3
    <2>3. QED
      BY <2>1, <2>2
  <1>3. Max(D) \in D
    <2> HIDE DEF D
    <2>1. QED
      BY <1>2 DEF Max
  <1>4. Max(D) \in Nat
    BY <1>1, <1>3
  <1>5. QED
    BY <1>4 DEF Now

-----------------------------------------------------------------------------
(* Every statement sets one row, an old one or the next, and no other.      *)
Sets(old, new, r, row) ==
  /\ new \in Seq(Row)
  /\ DOMAIN new = DOMAIN old \cup {r}
  /\ r \in Nat \ {0}
  /\ new[r] = row
  /\ \A q \in DOMAIN old \ {r} : new[q] = old[q]

LEMMA ExceptSets ==
  ASSUME NEW table \in Seq(Row), NEW r \in DOMAIN table, NEW row \in Row
  PROVE  Sets(table, [table EXCEPT ![r] = row], r, row)
  <1>1. DOMAIN table = 1 .. Len(table) /\ Len(table) \in Nat
    BY LenProperties
  <1>2. [table EXCEPT ![r] = row] \in Seq(Row)
    BY <1>1, ExceptSeq
  <1>3. QED
    BY <1>1, <1>2 DEF Sets

LEMMA UpsertSets ==
  ASSUME NEW table \in Seq(Row), NEW n \in Names, NEW s \in Stamps
  PROVE  Sets(table, Upsert(table, n, s), UpsertId(table, n),
              [name |-> n, stamp |-> s, deleted |-> 0])
  <1> DEFINE row == [name |-> n, stamp |-> s, deleted |-> 0]
  <1>1. row \in Row
    BY DEF Row
  <1>2. DOMAIN table = 1 .. Len(table) /\ Len(table) \in Nat
    BY LenProperties
  <1>3. CASE RowsAt(table, n) = {}
    <2>1. Upsert(table, n, s) = Append(table, row) /\ UpsertId(table, n) = Len(table) + 1
      BY <1>3 DEF Upsert, UpsertId
    <2> HIDE DEF row
    <2>2. /\ Append(table, row) \in Seq(Row)
          /\ DOMAIN Append(table, row) = 1 .. Len(table) + 1
          /\ Append(table, row)[Len(table) + 1] = row
          /\ \A q \in 1 .. Len(table) : Append(table, row)[q] = table[q]
      BY <1>1, <1>2, AppendProperties, LenProperties
    <2>3. QED
      BY <1>2, <2>1, <2>2 DEF Sets, row
  <1>4. CASE RowsAt(table, n) # {}
    <2>1. FoundAt(table, n) \in DOMAIN table
      BY <1>4, FoundAtIsThere DEF RowsAt
    <2>2. Upsert(table, n, s) = [table EXCEPT ![FoundAt(table, n)] = row]
          /\ UpsertId(table, n) = FoundAt(table, n)
      BY <1>4 DEF Upsert, UpsertId
    <2>3. QED
      BY <1>1, <2>1, <2>2, ExceptSets
  <1>5. QED
    BY <1>3, <1>4

LEMMA TombstonedSets ==
  ASSUME NEW table \in Seq(Row), NEW r \in DOMAIN table
  PROVE  \E d \in Nat \ {0} :
           Sets(table, Tombstoned(table, r), r,
                [name |-> table[r].name, stamp |-> table[r].stamp, deleted |-> d])
  <1> DEFINE d == Now(table, table[r].name)
  <1> DEFINE row == [name |-> table[r].name, stamp |-> table[r].stamp, deleted |-> d]
  <1>1. table[r] \in Row /\ table[r].name \in Names /\ table[r].stamp \in Stamps
    BY TableType
  <1>2. d \in Nat \ {0}
    BY <1>1, NowIsLater
  <1>3. row \in Row
    BY <1>1, <1>2 DEF Row
  <1>4. [table[r] EXCEPT !.deleted = d] = row
    BY <1>1 DEF Row
  <1>5. Tombstoned(table, r) = [table EXCEPT ![r] = row]
    BY <1>4 DEF Tombstoned
  <1> HIDE DEF row, d
  <1>6. Sets(table, [table EXCEPT ![r] = row], r, row)
    BY <1>3, ExceptSets
  <1>7. QED
    BY <1>2, <1>5, <1>6 DEF row

LEMMA MovedSets ==
  ASSUME NEW table \in Seq(Row), NEW r \in DOMAIN table, NEW n \in Names
  PROVE  Sets(table, Moved(table, r, n), r,
              [name |-> n, stamp |-> table[r].stamp, deleted |-> 0])
  <1> DEFINE row == [name |-> n, stamp |-> table[r].stamp, deleted |-> 0]
  <1>1. table[r] \in Row /\ table[r].stamp \in Stamps
    BY TableType
  <1>2. row \in Row
    BY <1>1 DEF Row
  <1>3. Moved(table, r, n) = [table EXCEPT ![r] = row]
    BY DEF Moved
  <1> HIDE DEF row
  <1>4. Sets(table, [table EXCEPT ![r] = row], r, row)
    BY <1>2, ExceptSets
  <1>5. QED
    BY <1>3, <1>4 DEF row

-----------------------------------------------------------------------------
(* The handlers of the watch.                                              *)

LEMMA FileChangeNames ==
  ASSUME NEW c \in Change, c.kind # "overflowed"
  PROVE  c.from \in Names /\ c.to \in Names
  BY DEF Change, FileChange, Touched, Removed, Renamed, Overflowed

(* What an event needs to be one.                                           *)
LEMMA EventType ==
  ASSUME NEW r \in Nat \ {0}, NEW n \in Names, NEW p \in Names \cup {None},
         NEW kind \in {"created", "modified", "deleted", "renamed"}
  PROVE  /\ [row |-> r, kind |-> kind, prev |-> p, name |-> n] \in Event
         /\ [row |-> r, kind |-> kind, prev |-> p, name |-> n] # None
  BY NoneAssumption DEF Event

LEMMA EventAtType ==
  ASSUME TypeOK, NEW n \in Names, NEW s \in Stamps
  PROVE  IsNews(n, s) => EventAt(n, s) \in Event /\ EventAt(n, s) # None
  <1>1. UpsertId(rows, n) \in Nat \ {0}
    BY UpsertSets DEF TypeOK, Sets
  <1>2. QED
    BY <1>1, EventType DEF EventAt

(* record_removal and record_path keep the types.                           *)
LEMMA RecordRemovalType ==
  ASSUME TypeOK, due = None, NEW n \in Names, RecordRemoval(n)
  PROVE  /\ rows' \in Seq(Row)
         /\ DOMAIN rows \subseteq DOMAIN rows'
         /\ due' \in Event \cup {None}
         /\ due' # None => due'.row \in DOMAIN rows'
  <1>1. CASE LiveAt(rows, n) = {}
    BY <1>1 DEF RecordRemoval, TypeOK
  <1>2. CASE LiveAt(rows, n) # {}
    <2> DEFINE r == FoundAt(rows, n)
    <2>1. rows \in Seq(Row)
      BY DEF TypeOK
    <2>2. r \in DOMAIN rows
      BY <1>2, <2>1, FoundAtIsThere DEF LiveAt, RowsAt
    <2>3. r \in Nat \ {0}
      BY <2>1, <2>2, TableType
    <2>4. /\ rows' = Tombstoned(rows, r)
          /\ due' = [row |-> r, kind |-> "deleted", prev |-> None, name |-> n]
      BY <1>2 DEF RecordRemoval
    <2> HIDE DEF r
    <2>5. due' \in Event /\ due'.row = r
      BY <2>3, <2>4, EventType
    <2>6. rows' \in Seq(Row) /\ DOMAIN rows' = DOMAIN rows
      BY <2>1, <2>2, <2>4, TombstonedSets DEF Sets
    <2>7. QED
      BY <2>2, <2>5, <2>6
  <1>3. QED
    BY <1>1, <1>2

LEMMA RecordPathType ==
  ASSUME TypeOK, due = None, NEW n \in Names, RecordPath(n)
  PROVE  /\ rows' \in Seq(Row)
         /\ DOMAIN rows \subseteq DOMAIN rows'
         /\ due' \in Event \cup {None}
         /\ due' # None => due'.row \in DOMAIN rows'
  <1>1. CASE fs[n] = Absent
    <2>1. RecordRemoval(n)
      BY <1>1 DEF RecordPath
    <2>2. QED
      BY <2>1, RecordRemovalType
  <1>2. CASE fs[n] # Absent
    <2> DEFINE s == fs[n].stamp
               r == UpsertId(rows, n)
    <2>1. rows \in Seq(Row) /\ s \in Stamps
      BY <1>2 DEF TypeOK
    <2>2. rows' = Upsert(rows, n, s) /\ due' = EventAt(n, s)
      BY <1>2 DEF RecordPath
    <2>3. IsNews(n, s) => due'.row = r
      BY <2>2 DEF EventAt
    <2>4. ~ IsNews(n, s) => due' = None
      BY <2>2 DEF EventAt
    <2> HIDE DEF s, r
    <2>5. rows' \in Seq(Row) /\ DOMAIN rows' = DOMAIN rows \cup {r}
      BY <2>1, <2>2, UpsertSets DEF Sets, r
    <2>6. QED
      BY <2>1, <2>2, <2>3, <2>4, <2>5, EventAtType
  <1>3. QED
    BY <1>1, <1>2

-----------------------------------------------------------------------------
(* What Recorder and Observer have in common: the steps of both, with any    *)
(* names still waiting for a scan's entry or lost in a kill, and anything a  *)
(* watch may do to the inbox.                                               *)

Arrives ==
  /\ inbox' \in Seq(Change)
  /\ overflows' \in 0 .. MaxOverflows
  /\ known' \in [FileIds -> Nat]
  /\ missed' \subseteq Names

CommonStep ==
  \/ \E e \in EditsNow : ChangeFiles(e) /\ Arrives /\ UNCHANGED <<crashes, faults>>
  \/ Arrives /\ UNCHANGED <<disk, store, pc, scanning, handler, crashes, faults, broken>>
  \/ Boot
  \/ \E n \in Names : \E waiting \in SUBSET Names : ScanEntryBefore(n, waiting)
  \/ EndScan
  \/ ApplyOverflowed
  \/ ApplyTouched
  \/ ApplyRemoved
  \/ ApplyRenamed
  \/ AppendEvent
  \/ MoveRow
  \/ HandlerFails
  \/ ScanFails
  \/ \E names \in SUBSET Names : CrashLosing(names)

LEMMA RowsOfFilesType ==
  ASSUME TypeOK
  PROVE  /\ RowsOfFiles \in [FileIds -> Nat]
         /\ [i \in FileIds |-> 0] \in [FileIds -> Nat]
  <1> USE DEF TypeOK
  <1>1. ASSUME NEW i \in FileIds PROVE RowOf(i) \in Nat
    <2> DEFINE S == {r \in DOMAIN rows :
            rows[r].deleted = 0 /\ fs[rows[r].name] # Absent /\ fs[rows[r].name].file = i}
    <2>1. S \subseteq Nat
      BY TableType
    <2>2. RowOf(i) = IF S = {} THEN 0 ELSE CHOOSE r \in S : TRUE
      BY DEF RowOf
    <2> HIDE DEF S
    <2>3. S # {} => (CHOOSE r \in S : TRUE) \in S
      BY Zenon
    <2>4. CASE S = {}
      BY <2>2, <2>4
    <2>5. CASE S # {}
      <3>1. RowOf(i) = CHOOSE r \in S : TRUE
        BY <2>2, <2>5, Zenon
      <3>2. RowOf(i) \in S
        BY <2>3, <2>5, <3>1, Zenon
      <3>3. QED
        BY <2>1, <3>2
    <2>6. QED
      BY <2>4, <2>5
  <1>2. QED
    BY <1>1 DEF RowsOfFiles

LEMMA LoseType ==
  ASSUME TypeOK, NEW names \in SUBSET Names, Lose(names)
  PROVE  known' \in [FileIds -> Nat] /\ missed' \subseteq Names
  BY RowsOfFilesType DEF Lose, Forget, TypeOK

(* What the users may do, and what it is called.                            *)
LEMMA EditsNowType ==
  ASSUME TypeOK, edits < MaxEdits, NEW e \in EditsNow
  PROVE  /\ e.fs \in [Names -> [file : FileIds, stamp : Stamps] \cup {Absent}]
         /\ e.change \in FileChange
  <1> USE DEF TypeOK
  <1>1. PICK n \in Names : \/ e \in Creations(n)
                           \/ e \in Modifications(n)
                           \/ e \in Deletions(n)
                           \/ e \in Moves(n)
    BY DEF EditsNow
  <1>2. CASE e \in Creations(n)
    <2>1. PICK s \in Stamps :
            e = Edit([fs EXCEPT ![n] = [file |-> edits + 1, stamp |-> s]], Touched(n))
      BY <1>2 DEF Creations
    <2>2. e.fs = [fs EXCEPT ![n] = [file |-> edits + 1, stamp |-> s]]
          /\ e.change = Touched(n)
      BY <2>1 DEF Edit
    <2>3. edits + 1 \in FileIds
      BY RecorderAssumption DEF FileIds
    <2>4. QED
      BY <2>2, <2>3 DEF FileChange
  <1>3. CASE e \in Modifications(n)
    <2>1. PICK s \in Stamps :
            e = Edit([fs EXCEPT ![n] = [file |-> fs[n].file, stamp |-> s]], Touched(n))
      BY <1>3 DEF Modifications
    <2>2. e.fs = [fs EXCEPT ![n] = [file |-> fs[n].file, stamp |-> s]]
          /\ e.change = Touched(n)
      BY <2>1 DEF Edit
    <2>3. fs[n] # Absent
      BY <1>3 DEF Modifications
    <2>4. fs[n].file \in FileIds
      BY <2>3
    <2>5. QED
      BY <2>2, <2>4 DEF FileChange
  <1>4. CASE e \in Deletions(n)
    BY <1>4 DEF Deletions, Edit, FileChange
  <1>5. CASE e \in Moves(n)
    <2>1. PICK m \in Names \ {n} :
            e = Edit([fs EXCEPT ![m] = fs[n], ![n] = Absent], Renamed(n, m))
      BY <1>5 DEF Moves
    <2>2. /\ e.fs = [fs EXCEPT ![m] = fs[n], ![n] = Absent]
          /\ e.change = Renamed(n, m)
      BY <2>1 DEF Edit
    <2>3. e.change \in FileChange
      BY <2>2 DEF FileChange
    <2>4. QED
      BY <2>2, <2>3
  <1>6. QED
    BY <1>1, <1>2, <1>3, <1>4, <1>5

LEMMA RecorderIsCommon == TypeOK /\ [Next]_vars => CommonStep \/ UNCHANGED vars
  <1> SUFFICES ASSUME TypeOK, [Next]_vars PROVE CommonStep \/ UNCHANGED vars
    OBVIOUS
  <1>1. inbox \in Seq(Change) /\ known \in [FileIds -> Nat] /\ missed \subseteq Names
        /\ overflows \in 0 .. MaxOverflows
    BY DEF TypeOK
  <1>2. CASE Users
    <2>1. PICK e \in EditsNow :
            /\ ChangeFiles(e)
            /\ \/ /\ inbox' = Append(inbox, e.change)
                  /\ known' = known \/ known' = RowsOfFiles
                  /\ UNCHANGED missed
               \/ Lose(NamesOf(e.change)) /\ UNCHANGED inbox
            /\ UNCHANGED faultCounters
      BY <1>2 DEF Users
    <2>2. e.change \in Change
      BY <2>1, EditsNowType DEF ChangeFiles, Change
    <2>3. inbox' \in Seq(Change)
      <3>1. Append(inbox, e.change) \in Seq(Change)
        BY <1>1, <2>2, AppendProperties
      <3>2. QED
        BY <1>1, <2>1, <3>1
    <2>4. known' \in [FileIds -> Nat] /\ missed' \subseteq Names
      <3>1. NamesOf(e.change) \in SUBSET Names
        BY DEF NamesOf
      <3>2. QED
        BY <1>1, <2>1, <3>1, RowsOfFilesType, LoseType
    <2>5. QED
      BY <1>1, <2>1, <2>3, <2>4 DEF CommonStep, Arrives, faultCounters
  <1>3. ASSUME NEW n \in Names, ScanEntry(n) PROVE CommonStep
    <2>1. Mentioned(inbox) \in SUBSET Names
      BY DEF Mentioned, NamesOf
    <2>2. QED
      BY <1>3, <2>1 DEF ScanEntry, CommonStep
  <1>4. CASE Crash
    <2>1. Mentioned(inbox) \in SUBSET Names
      BY DEF Mentioned, NamesOf
    <2>2. QED
      BY <1>4, <2>1 DEF Crash, CommonStep
  <1>5. CASE Overflow
    <2>1. PICK k \in 0 .. Len(inbox) - 1 :
            /\ inbox' = <<Overflowed>> \o SubSeq(inbox, 1, k)
            /\ Lose(Mentioned(SubSeq(inbox, k + 1, Len(inbox))))
      BY <1>5 DEF Overflow
    <2>2. Len(inbox) \in Nat /\ \A i \in 1 .. k : inbox[i] \in Change
      BY <1>1, LenProperties, ElementOfSeq
    <2>3. SubSeq(inbox, 1, k) \in Seq(Change)
      BY <2>2, SubSeqProperties
    <2>4. <<Overflowed>> \in Seq(Change)
      BY DEF Change
    <2>5. inbox' \in Seq(Change)
      BY <2>1, <2>3, <2>4, ConcatProperties
    <2>6. Mentioned(SubSeq(inbox, k + 1, Len(inbox))) \in SUBSET Names
      BY DEF Mentioned, NamesOf
    <2>7. known' \in [FileIds -> Nat] /\ missed' \subseteq Names
      BY <2>1, <2>6, LoseType
    <2>8. /\ UNCHANGED <<disk, store, pc, scanning, handler, crashes, faults, broken>>
          /\ overflows < MaxOverflows /\ overflows' = overflows + 1
      BY <1>5 DEF Overflow
    <2>9. QED
      BY <1>1, <2>5, <2>7, <2>8, RecorderAssumption DEF CommonStep, Arrives
  <1>6. QED
    BY <1>2, <1>3, <1>4, <1>5 DEF Next, Observe, CommonStep

(* Every variable keeps its type.                                           *)
LEMMA RecorderTypeStep == TypeOK /\ (CommonStep \/ UNCHANGED vars) => TypeOK'
  <1> SUFFICES ASSUME TypeOK, CommonStep \/ UNCHANGED vars PROVE TypeOK'
    OBVIOUS
  <1> USE DEF TypeOK
  <1>1. [i \in FileIds |-> 0] \in [FileIds -> Nat]
    OBVIOUS
  <1>2. ASSUME NEW e \in EditsNow, ChangeFiles(e), Arrives, UNCHANGED <<crashes, faults>>
        PROVE  TypeOK'
    <2>1. e.fs \in [Names -> [file : FileIds, stamp : Stamps] \cup {Absent}]
      BY <1>2, EditsNowType DEF ChangeFiles
    <2>2. QED
      BY <1>2, <2>1, RecorderAssumption DEF ChangeFiles, Arrives, store, handler
  <1>3. CASE Boot
    BY <1>3 DEF Boot, disk, store, handler, faultCounters, history
  <1>4. ASSUME NEW n \in Names, NEW waiting, ScanEntryBefore(n, waiting)
        PROVE  TypeOK'
    <2>1. rows' \in Seq(Row) /\ events' \in Seq(Event) /\ DOMAIN rows \subseteq DOMAIN rows'
      <3>1. CASE fs[n] = Absent
        BY <1>4, <3>1 DEF ScanEntryBefore, store
      <3>2. CASE fs[n] # Absent
        <4> DEFINE s == fs[n].stamp
        <4>1. s \in Stamps
          BY <3>2
        <4>2. /\ rows' = Upsert(rows, n, s)
              /\ events' = IF IsNews(n, s) THEN Append(events, EventAt(n, s)) ELSE events
          BY <1>4, <3>2 DEF ScanEntryBefore
        <4> HIDE DEF s
        <4>3. events' \in Seq(Event)
          BY <4>1, <4>2, EventAtType, AppendProperties
        <4>4. Sets(rows, Upsert(rows, n, s), UpsertId(rows, n),
                   [name |-> n, stamp |-> s, deleted |-> 0])
          BY <4>1, UpsertSets
        <4>5. QED
          BY <4>2, <4>3, <4>4 DEF Sets
      <3>3. QED
        BY <3>1, <3>2
    <2>2. QED
      BY <1>4, <2>1
      DEF ScanEntryBefore, disk, handler, faultCounters
  <1>5. CASE EndScan
    BY <1>5 DEF EndScan, disk, store, handler, faultCounters, history
  <1>6. ASSUME NEW kind, Take(kind)
        PROVE  inbox' \in Seq(Change) /\ Head(inbox) \in Change /\ due = None /\ moving = None
    BY <1>6, HeadTailProperties DEF Take, Idle
  <1>7. CASE ApplyOverflowed
    BY <1>7, <1>6 DEF ApplyOverflowed, Take, disk, store, handler, faultCounters, history
  <1>8. CASE ApplyTouched
    <2>1. Take("touched") /\ RecordPath(Head(inbox).to)
      BY <1>8 DEF ApplyTouched
    <2>2. Head(inbox).to \in Names
      BY <2>1, <1>6, FileChangeNames DEF Take
    <2>3. QED
      BY <1>8, <2>1, <2>2, <1>6, RecordPathType
      DEF ApplyTouched, Take, disk, faultCounters, history
  <1>9. CASE ApplyRemoved
    <2>1. Take("removed") /\ RecordRemoval(Head(inbox).to)
      BY <1>9 DEF ApplyRemoved
    <2>2. Head(inbox).to \in Names
      BY <2>1, <1>6, FileChangeNames DEF Take
    <2>3. QED
      BY <1>9, <2>1, <2>2, <1>6, RecordRemovalType
      DEF ApplyRemoved, Take, disk, faultCounters, history
  <1>10. CASE ApplyRenamed
    <2> DEFINE from == Head(inbox).from
               to == Head(inbox).to
    <2>1. Take("renamed")
      BY <1>10 DEF ApplyRenamed
    <2>2. from \in Names /\ to \in Names
      BY <2>1, <1>6, FileChangeNames DEF Take
    <2>3. /\ rows' \in Seq(Row)
          /\ DOMAIN rows \subseteq DOMAIN rows'
          /\ due' \in Event \cup {None}
          /\ due' # None => due'.row \in DOMAIN rows'
          /\ moving' \in Move \cup {None}
          /\ moving' # None => moving'.row \in DOMAIN rows'
      <3>1. CASE ~ IsKnown(from)
        <4>1. RecordPath(to) /\ UNCHANGED moving
          BY <1>10, <3>1 DEF ApplyRenamed
        <4>2. QED
          BY <2>1, <2>2, <4>1, <1>6, RecordPathType
      <3>2. CASE IsKnown(from)
        <4> DEFINE r == FoundAt(rows, from)
        <4>1. Displace(r, to) /\ moving' = [row |-> r, from |-> from, to |-> to]
          BY <1>10, <3>2 DEF ApplyRenamed
        <4>2. r \in DOMAIN rows /\ r \in Nat \ {0}
          BY <2>2, <3>2, FoundAtIsThere, TableType DEF IsKnown, RowsAt
        <4> HIDE DEF r, from, to
        <4>3. moving' \in Move /\ moving'.row = r
          BY <2>2, <4>1, <4>2 DEF Move
        <4>4. CASE RowsAt(rows, to) = {} \/ FoundAt(rows, to) = r
          BY <2>1, <4>1, <4>2, <4>3, <4>4, <1>6 DEF Displace
        <4>5. CASE ~ (RowsAt(rows, to) = {} \/ FoundAt(rows, to) = r)
          <5> DEFINE d == FoundAt(rows, to)
          <5>1. d \in DOMAIN rows /\ d \in Nat \ {0}
            BY <2>2, <4>5, FoundAtIsThere, TableType DEF RowsAt
          <5>2. /\ rows' = Tombstoned(rows, d)
                /\ due' = [row |-> d, kind |-> "deleted", prev |-> None, name |-> to]
            BY <4>1, <4>5 DEF Displace
          <5> HIDE DEF d
          <5>3. due' \in Event /\ due'.row = d
            BY <2>2, <5>1, <5>2, EventType
          <5>4. rows' \in Seq(Row) /\ DOMAIN rows' = DOMAIN rows
            <6>1. PICK k \in Nat \ {0} :
                    Sets(rows, Tombstoned(rows, d), d,
                         [name |-> rows[d].name, stamp |-> rows[d].stamp, deleted |-> k])
              BY <5>1, TombstonedSets
            <6>2. QED
              BY <5>1, <5>2, <6>1 DEF Sets
          <5>5. QED
            BY <4>2, <4>3, <5>1, <5>3, <5>4
        <4>6. QED
          BY <4>4, <4>5
      <3>3. QED
        BY <3>1, <3>2
    <2>4. QED
      BY <1>10, <2>1, <2>3, <1>6
      DEF ApplyRenamed, Take, disk, faultCounters, history
  <1>11. CASE AppendEvent
    BY <1>11, AppendProperties DEF AppendEvent, disk, faultCounters, history
  <1>12. CASE MoveRow
    <2>1. moving \in Move /\ moving.row \in DOMAIN rows
      BY <1>12 DEF MoveRow
    <2>2. moving.row \in Nat \ {0} /\ moving.from \in Names /\ moving.to \in Names
      BY <2>1 DEF Move
    <2>3. rows' \in Seq(Row) /\ DOMAIN rows' = DOMAIN rows
      <3>1. Sets(rows, Moved(rows, moving.row, moving.to), moving.row,
                 [name |-> moving.to, stamp |-> rows[moving.row].stamp, deleted |-> 0])
        BY <2>1, <2>2, MovedSets
      <3>2. rows' = Moved(rows, moving.row, moving.to)
        BY <1>12 DEF MoveRow
      <3>3. QED
        BY <2>1, <3>1, <3>2 DEF Sets
    <2>4. due' \in Event /\ due'.row = moving.row
      BY <1>12, <2>2, EventType DEF MoveRow
    <2>5. QED
      BY <1>12, <2>1, <2>3, <2>4 DEF MoveRow, disk, faultCounters, history
  <1>13. MovingNames \subseteq Names
    BY DEF MovingNames, Move
  <1>14. StopHandler => broken' \subseteq DOMAIN rows /\ due' = None /\ moving' = None
    BY DEF StopHandler
  <1>15. CASE HandlerFails
    <2>1. /\ UNCHANGED <<disk, store, pc, scanning, crashes, overflows>>
          /\ faults < MaxFaults /\ faults' = faults + 1
      BY <1>15 DEF HandlerFails
    <2>2. CASE StopHandler /\ Lose(MovingNames) /\ UNCHANGED inbox
      BY <2>1, <2>2, <1>1, <1>13, <1>14, RecorderAssumption DEF Lose, Forget, disk, store
    <2>3. CASE /\ inbox # <<>>
               /\ inbox' = Tail(inbox)
               /\ Lose(NamesOf(Head(inbox)))
               /\ UNCHANGED <<handler, broken>>
      <3>1. inbox' \in Seq(Change)
        BY <2>3, HeadTailProperties
      <3>2. QED
        BY <2>1, <2>3, <1>1, <3>1, RecorderAssumption
        DEF Lose, Forget, NamesOf, disk, store, handler
    <2>4. QED
      BY <1>15, <2>2, <2>3 DEF HandlerFails
  <1>16. CASE ScanFails
    BY <1>16, RecorderAssumption DEF ScanFails, disk, store, handler, history
  <1>17. CASE Arrives /\ UNCHANGED <<disk, store, pc, scanning, handler, crashes, faults, broken>>
    BY <1>17 DEF Arrives, disk, store, handler
  <1>18. ASSUME NEW names \in SUBSET Names, CrashLosing(names) PROVE TypeOK'
    <2>1. <<>> \in Seq(Change)
      BY EmptySeq
    <2>2. QED
      BY <1>18, <1>1, <1>13, <1>14, <2>1, RecorderAssumption
      DEF CrashLosing, Lose, Forget, disk, store
  <1>19. CASE UNCHANGED vars
    BY <1>19 DEF vars, disk, store, handler, faultCounters, history
  <1>20. QED
    BY <1>2, <1>3, <1>4, <1>5, <1>7, <1>8, <1>9, <1>10, <1>11, <1>12, <1>15, <1>16,
       <1>17, <1>18, <1>19
    DEF CommonStep

-----------------------------------------------------------------------------
(* The inductive invariant. That the log tells where a row is does not carry *)
(* over a handler's statements unless the event still due tells it, and     *)
(* unless a row about to be moved is still where it is moved from and finds  *)
(* no other live row where it goes.                                         *)

LogInv == \A i \in DOMAIN events : events[i].row \in DOMAIN rows

DueInv ==
  due # None =>
    /\ due.name = rows[due.row].name
    /\ (due.kind = "deleted") = (rows[due.row].deleted # 0)
    /\ due.row \notin broken => Follows(events, due, LastOf(events, due.row))

MovingInv ==
  moving # None =>
    /\ pc = "watch"
    /\ rows[moving.row].name = moving.from
    /\ LiveAt(rows, moving.to) \subseteq {moving.row}
    /\ due # None => due.row # moving.row

HandlerInv == due # None => pc = "watch"

RecorderInv ==
  /\ OneLiveRow
  /\ Explained
  /\ HistoryFits
  /\ LogInv
  /\ DueInv
  /\ MovingInv
  /\ HandlerInv

-----------------------------------------------------------------------------
LEMMA LatestIs ==
  ASSUME NEW T, NEW m \in T, T \subseteq Nat, \A k \in T : k <= m
  PROVE  Latest(T) = m
  <1>1. \A j \in T : (\A k \in T : k <= j) => j = m
    OBVIOUS
  <1>2. m \in T /\ \A k \in T : k <= m
    OBVIOUS
  <1>3. (CHOOSE j \in T : \A k \in T : k <= j) = m
    BY <1>1, <1>2
  <1>4. QED
    BY <1>3 DEF Latest

(* An appended event is the last one of its row, and leaves the last ones of *)
(* the other rows and the one before every older event.                     *)
LEMMA BeforeAppend ==
  ASSUME NEW log \in Seq(Event), NEW e \in Event
  PROVE  /\ \A r : \A i \in 1 .. Len(log) + 1 : Before(Append(log, e), r, i) = Before(log, r, i)
         /\ LastOf(Append(log, e), e.row) = Len(log) + 1
         /\ \A r : r # e.row => LastOf(Append(log, e), r) = LastOf(log, r)
  <1> DEFINE new == Append(log, e)
  <1>1. /\ Len(log) \in Nat
        /\ DOMAIN log = 1 .. Len(log)
        /\ Len(new) = Len(log) + 1
        /\ new[Len(log) + 1] = e
        /\ \A i \in 1 .. Len(log) : new[i] = log[i]
    BY LenProperties, AppendProperties
  <1> HIDE DEF new
  <1>2. ASSUME NEW r, NEW i \in 1 .. Len(log) + 1
        PROVE  Before(new, r, i) = Before(log, r, i)
    <2>1. {j \in 1 .. i - 1 : new[j].row = r} = {j \in 1 .. i - 1 : log[j].row = r}
      BY <1>1
    <2>2. QED
      BY <2>1 DEF Before
  <1>3. ASSUME NEW r, r # e.row PROVE LastOf(new, r) = LastOf(log, r)
    <2>1. {j \in 1 .. (Len(new) + 1) - 1 : new[j].row = r}
            = {j \in 1 .. (Len(log) + 1) - 1 : log[j].row = r}
      BY <1>1, <1>3
    <2>2. QED
      BY <2>1 DEF LastOf, Before
  <1>4. LastOf(new, e.row) = Len(log) + 1
    <2> DEFINE T == {j \in 1 .. (Len(new) + 1) - 1 : new[j].row = e.row}
    <2>1. Len(log) + 1 \in T /\ \A k \in T : k \in Nat /\ k <= Len(log) + 1
      BY <1>1
    <2>2. LastOf(new, e.row) = Latest(T)
      BY DEF LastOf, Before
    <2> HIDE DEF T
    <2>3. QED
      BY <1>1, <2>1, <2>2, LatestIs
  <1>5. QED
    BY <1>2, <1>3, <1>4 DEF new

(* Before finds an earlier event, or says that there is none.               *)
LEMMA LatestIsThere ==
  ASSUME NEW n \in Nat, NEW T \in SUBSET (1 .. n)
  PROVE  (T = {} /\ Latest(T) = 0) \/ Latest(T) \in T
  <1> DEFINE B == {b \in Nat : \A k \in T : k <= b}
  <1>1. CASE T = {}
    BY <1>1 DEF Latest
  <1>2. CASE T # {}
    <2>1. n \in B /\ B \in SUBSET Nat
      OBVIOUS
    <2>2. PICK b \in B : \A c \in B : b <= c
      <3> HIDE DEF B
      <3>1. QED
        BY <2>1, LeastNat
    <2>3. b \in Nat /\ \A k \in T : k <= b
      BY <2>2
    <2>4. ASSUME b \notin T PROVE FALSE
      <3>1. \A k \in T : k \in Nat \ {0} /\ k <= b /\ k # b
        BY <2>3, <2>4
      <3>2. PICK k \in T : TRUE
        BY <1>2
      <3>3. b - 1 \in Nat /\ ~ (b <= b - 1)
        BY <2>3, <3>1, <3>2
      <3>4. \A i \in T : i <= b - 1
        BY <2>3, <3>1, <3>3
      <3>5. b - 1 \in B
        BY <3>3, <3>4
      <3> HIDE DEF B
      <3>6. QED
        BY <2>2, <3>3, <3>5
    <2>5. T \subseteq Nat
      OBVIOUS
    <2> HIDE DEF B
    <2>6. Latest(T) = b
      BY <2>3, <2>4, <2>5, LatestIs
    <2>7. QED
      BY <2>4, <2>6
  <1>3. QED
    BY <1>1, <1>2

LEMMA BeforeIsThere ==
  ASSUME NEW log \in Seq(Event), NEW r, NEW i \in 1 .. Len(log) + 1
  PROVE  /\ Before(log, r, i) \in 0 .. i - 1
         /\ Before(log, r, i) # 0 => /\ Before(log, r, i) \in DOMAIN log
                                     /\ log[Before(log, r, i)].row = r
  <1> DEFINE T == {j \in 1 .. i - 1 : log[j].row = r}
             b == Before(log, r, i)
  <1>1. Len(log) \in Nat /\ DOMAIN log = 1 .. Len(log) /\ i - 1 \in Nat
    BY LenProperties
  <1>2. T \in SUBSET (1 .. i - 1) /\ b = Latest(T)
    BY DEF Before
  <1>3. \A j \in T : log[j].row = r /\ j \in 1 .. i - 1 /\ j \in DOMAIN log
    BY <1>1
  <1> HIDE DEF T, b
  <1>4. (T = {} /\ Latest(T) = 0) \/ Latest(T) \in T
    BY <1>1, <1>2, LatestIsThere
  <1>5. b = 0 \/ (b \in 1 .. i - 1 /\ b \in DOMAIN log /\ log[b].row = r)
    BY <1>2, <1>3, <1>4
  <1>6. QED
    BY <1>1, <1>5 DEF b

(* What followed in the log still follows when it has grown.                *)
LEMMA FollowsInLonger ==
  ASSUME NEW log \in Seq(Event), NEW e \in Event, NEW f, NEW j \in 0 .. Len(log),
         Follows(log, f, j)
  PROVE  Follows(Append(log, e), f, j)
  <1>1. j # 0 => Append(log, e)[j] = log[j]
    BY LenProperties, AppendProperties
  <1>2. QED
    BY <1>1 DEF Follows

(* The history still fits when an event joins it that follows, or that is    *)
(* about a row given up.                                                    *)
LEMMA AppendKeepsFits ==
  ASSUME events \in Seq(Event), HistoryFits, NEW e \in Event,
         events' = Append(events, e), broken' = broken,
         e.row \in broken \/ Follows(events, e, LastOf(events, e.row))
  PROVE  HistoryFits'
  <1>1. /\ Len(events) \in Nat
        /\ DOMAIN events = 1 .. Len(events)
        /\ DOMAIN events' = 1 .. Len(events) + 1
        /\ events'[Len(events) + 1] = e
        /\ \A i \in 1 .. Len(events) : events'[i] = events[i]
    BY LenProperties, AppendProperties
  <1>2. ASSUME NEW i \in 1 .. Len(events) + 1, events'[i].row \notin broken
        PROVE  Follows(events', events'[i], Before(events', events'[i].row, i))
    <2> DEFINE f == events'[i]
               j == Before(events, f.row, i)
    <2>1. Before(events', f.row, i) = j
      BY BeforeAppend
    <2>2. j \in 0 .. i - 1
      BY BeforeIsThere
    <2>3. j \in 0 .. Len(events)
      BY <1>1, <2>2
    <2>4. Follows(events, f, j)
      <3>1. CASE i = Len(events) + 1
        BY <1>1, <1>2, <3>1 DEF LastOf
      <3>2. CASE i \in 1 .. Len(events)
        BY <1>1, <1>2, <3>2 DEF HistoryFits
      <3>3. QED
        BY <1>1, <3>1, <3>2
    <2> HIDE DEF f, j
    <2>5. Follows(events', f, j)
      BY <2>3, <2>4, FollowsInLonger
    <2>6. QED
      BY <2>1, <2>5 DEF f
  <1>3. QED
    BY <1>1, <1>2 DEF HistoryFits

LEMMA FitsStays ==
  ASSUME HistoryFits, UNCHANGED events, broken \subseteq broken'
  PROVE  HistoryFits'
  BY DEF HistoryFits

-----------------------------------------------------------------------------
(* The steps of the handlers, by what they do to the store.                 *)

(* A row set at a name where no other is live is the only live one there.   *)
LEMMA SetsKeepsOneLive ==
  ASSUME OneLiveRow, NEW r, NEW row, Sets(rows, rows', r, row),
         row.deleted # 0 \/ LiveAt(rows, row.name) \subseteq {r}
  PROVE  OneLiveRow'
  <1>1. \A n \in Names : \A q \in LiveAt(rows', n) \ {r} : q \in LiveAt(rows, n)
    BY DEF Sets, LiveAt, RowsAt
  <1>2. \A n \in Names : r \in LiveAt(rows', n) => LiveAt(rows, n) \subseteq {r}
    BY DEF Sets, LiveAt, RowsAt
  <1>3. ASSUME NEW n \in Names, NEW p \in LiveAt(rows', n), NEW q \in LiveAt(rows', n)
        PROVE  p = q
    <2>1. CASE p = r \/ q = r
      BY <1>1, <1>2, <2>1
    <2>2. CASE p # r /\ q # r
      BY <1>1, <2>2 DEF OneLiveRow
    <2>3. QED
      BY <2>1, <2>2
  <1>4. QED
    BY <1>3 DEF OneLiveRow

(* A statement that sets a row leaves the history one event short of it, or *)
(* no event short if the row is where and what it was.                      *)
LEMMA RowStep ==
  ASSUME TypeOK, RecorderInv, due = None, UNCHANGED <<events, broken>>,
         NEW r, NEW row, Sets(rows, rows', r, row),
         row.deleted # 0 \/ LiveAt(rows, row.name) \subseteq {r},
         \/ /\ due' # None
            /\ due'.row = r
            /\ due'.name = row.name
            /\ (due'.kind = "deleted") = (row.deleted # 0)
            /\ r \in broken \/ Follows(events, due', LastOf(events, r))
         \/ /\ due' = None
            /\ r \in DOMAIN rows
            /\ row.name = rows[r].name
            /\ (row.deleted # 0) = (rows[r].deleted # 0)
  PROVE  (OneLiveRow /\ Explained /\ HistoryFits /\ LogInv /\ DueInv)'
  <1>1. OneLiveRow'
    BY SetsKeepsOneLive DEF RecorderInv
  <1>2. \A q \in DOMAIN rows \ broken : Tells(events, q, rows[q])
    BY DEF RecorderInv, Explained, IsExplained
  <1>3. ASSUME NEW q \in DOMAIN rows' \ broken, due' = None \/ due'.row # q
        PROVE  Tells(events, q, rows'[q])
    <2>1. CASE q # r
      BY <1>2, <2>1 DEF Sets
    <2>2. CASE q = r
      <3>1. /\ r \in DOMAIN rows
            /\ row.name = rows[r].name
            /\ (row.deleted # 0) = (rows[r].deleted # 0)
        BY <1>3, <2>2
      <3>2. Tells(events, r, rows[r]) /\ rows'[r] = row
        BY <1>2, <1>3, <2>2, <3>1 DEF Sets
      <3>3. QED
        BY <2>2, <3>1, <3>2 DEF Tells
    <2>3. QED
      BY <2>1, <2>2
  <1>4. Explained'
    BY <1>3 DEF Explained, IsExplained
  <1>5. HistoryFits'
    BY FitsStays DEF RecorderInv
  <1>6. LogInv'
    BY DEF RecorderInv, LogInv, Sets
  <1>7. DueInv'
    BY DEF DueInv, Sets
  <1>8. QED
    BY <1>1, <1>4, <1>5, <1>6, <1>7

(* The append of the event that tells of a row closes the gap.              *)
LEMMA AppendExplains ==
  ASSUME events \in Seq(Event), NEW e \in Event, events' = Append(events, e),
         broken' = broken, due' = None,
         e.row \in DOMAIN rows',
         e.name = rows'[e.row].name,
         (e.kind = "deleted") = (rows'[e.row].deleted # 0),
         \A q \in DOMAIN rows' \ (broken \cup {e.row}) : Tells(events, q, rows'[q])
  PROVE  Explained'
  <1>1. /\ Len(events) \in Nat
        /\ Len(events) + 1 # 0
        /\ events'[Len(events) + 1] = e
        /\ \A i \in 1 .. Len(events) : events'[i] = events[i]
    BY LenProperties, AppendProperties
  <1>2. /\ LastOf(events', e.row) = Len(events) + 1
        /\ \A q : q # e.row => LastOf(events', q) = LastOf(events, q)
    BY BeforeAppend
  <1>3. Tells(events', e.row, rows'[e.row])
    BY <1>1, <1>2 DEF Tells
  <1>4. ASSUME NEW q \in DOMAIN rows' \ (broken \cup {e.row})
        PROVE  Tells(events', q, rows'[q])
    <2>1. Tells(events, q, rows'[q])
      OBVIOUS
    <2>2. LastOf(events, q) \in 0 .. Len(events)
      <3>1. Len(events) + 1 \in 1 .. Len(events) + 1
        BY <1>1
      <3>2. Before(events, q, Len(events) + 1) \in 0 .. (Len(events) + 1) - 1
        BY <3>1, BeforeIsThere
      <3>3. QED
        BY <1>1, <3>2 DEF LastOf
    <2>3. LastOf(events', q) = LastOf(events, q)
      BY <1>2
    <2>4. LastOf(events, q) # 0 => events'[LastOf(events, q)] = events[LastOf(events, q)]
      BY <1>1, <2>2
    <2>5. QED
      BY <2>1, <2>3, <2>4 DEF Tells
  <1>5. QED
    BY <1>3, <1>4 DEF Explained, IsExplained

LEMMA AppendKeepsLog ==
  ASSUME events \in Seq(Event), NEW e \in Event, events' = Append(events, e), LogInv,
         DOMAIN rows \subseteq DOMAIN rows', e.row \in DOMAIN rows'
  PROVE  LogInv'
  BY LenProperties, AppendProperties DEF LogInv

(* A step that leaves the store and the handler alone.                      *)
LEMMA OtherStep ==
  ASSUME RecorderInv, UNCHANGED <<rows, events, due, moving, broken>>, pc' = pc \/ Idle
  PROVE  RecorderInv'
  BY DEF RecorderInv, OneLiveRow, Explained, IsExplained, HistoryFits, LogInv, DueInv,
         MovingInv, HandlerInv, Idle

(* A handler that stops gives up the row whose event it had still to append. *)
LEMMA StopStep ==
  ASSUME TypeOK, RecorderInv, StopHandler, UNCHANGED <<rows, events>>
  PROVE  RecorderInv'
  <1>1. due' = None /\ moving' = None /\ broken \subseteq broken'
    BY DEF StopHandler
  <1>2. Explained'
    <2>1. \A r \in DOMAIN rows \ broken' : IsExplained(r)
      BY DEF RecorderInv, Explained, StopHandler
    <2>2. QED
      BY <2>1 DEF Explained, IsExplained
  <1>3. HistoryFits'
    BY <1>1, FitsStays DEF RecorderInv
  <1>4. QED
    BY <1>1, <1>2, <1>3
    DEF RecorderInv, OneLiveRow, LogInv, DueInv, MovingInv, HandlerInv

-----------------------------------------------------------------------------
(* Each kind of event follows from what the log tells of its row.           *)

(* upsert_entry sets the live row at the name if there is one, so no other   *)
(* row is live there.                                                       *)
LEMMA UpsertIdIsOnlyLive ==
  ASSUME TypeOK, OneLiveRow, NEW n \in Names
  PROVE  LiveAt(rows, n) \subseteq {UpsertId(rows, n)}
  <1>1. rows \in Seq(Row)
    BY DEF TypeOK
  <1>2. CASE LiveAt(rows, n) = {}
    BY <1>2
  <1>3. CASE LiveAt(rows, n) # {}
    <2>1. RowsAt(rows, n) # {}
      BY <1>3 DEF LiveAt
    <2>2. UpsertId(rows, n) \in LiveAt(rows, n)
      BY <1>1, <1>3, <2>1, FoundAtIsThere DEF UpsertId
    <2>3. QED
      BY <2>2 DEF OneLiveRow
  <1>4. QED
    BY <1>2, <1>3

LEMMA NewsFollows ==
  ASSUME TypeOK, RecorderInv, due = None, NEW n \in Names, NEW s \in Stamps, IsNews(n, s)
  PROVE  \/ EventAt(n, s).row \in broken
         \/ Follows(events, EventAt(n, s), LastOf(events, EventAt(n, s).row))
  <1> DEFINE e == EventAt(n, s)
             r == UpsertId(rows, n)
             j == LastOf(events, r)
  <1>1. rows \in Seq(Row) /\ events \in Seq(Event)
    BY DEF TypeOK
  <1>2. e = [row |-> r, kind |-> IF LiveAt(rows, n) = {} THEN "created" ELSE "modified",
             prev |-> None, name |-> n]
    BY DEF EventAt
  <1>3. e.row = r
    BY <1>2
  <1>4. CASE RowsAt(rows, n) = {}
    <2>1. r = Len(rows) + 1 /\ r \notin DOMAIN rows
      BY <1>1, <1>4, TableType DEF UpsertId
    <2>2. j = 0
      <3>1. Len(events) + 1 \in 1 .. Len(events) + 1
        BY <1>1, LenProperties
      <3>2. j # 0 => j \in DOMAIN events /\ events[j].row = r
        BY <1>1, <3>1, BeforeIsThere DEF LastOf
      <3>3. QED
        BY <2>1, <3>2 DEF RecorderInv, LogInv
    <2>3. e.kind = "created"
      BY <1>2, <1>4 DEF LiveAt
    <2> HIDE DEF e, r, j
    <2>4. Follows(events, e, j)
      BY <2>2, <2>3 DEF Follows
    <2>5. QED
      BY <1>3, <2>4 DEF e, j
  <1>5. CASE RowsAt(rows, n) # {} /\ r \notin broken
    <2>1. r = FoundAt(rows, n)
      BY <1>5 DEF UpsertId
    <2>2. r \in RowsAt(rows, n) /\ (LiveAt(rows, n) # {} => r \in LiveAt(rows, n))
      BY <1>1, <1>5, <2>1, FoundAtIsThere
    <2>3. r \in DOMAIN rows /\ rows[r].name = n
          /\ (LiveAt(rows, n) # {}) = (rows[r].deleted = 0)
      BY <2>2 DEF RowsAt, LiveAt
    <2>4. Tells(events, r, rows[r])
      BY <1>5, <2>3 DEF RecorderInv, Explained, IsExplained
    <2> HIDE DEF r
    <2>5. /\ j # 0 /\ events[j].name = n
          /\ (events[j].kind = "deleted") = (LiveAt(rows, n) = {})
      BY <2>3, <2>4 DEF Tells
    <2>6. e.name = n /\ e.kind = IF LiveAt(rows, n) = {} THEN "created" ELSE "modified"
      BY <1>2
    <2> HIDE DEF e, j
    <2>7. Follows(events, e, j)
      BY <2>5, <2>6 DEF Follows
    <2>8. QED
      BY <1>3, <2>7 DEF e, j
  <1>6. QED
    BY <1>3, <1>4, <1>5

LEMMA DeletionFollows ==
  ASSUME RecorderInv, due = None, NEW r \in DOMAIN rows, NEW e,
         e.kind = "deleted", e.name = rows[r].name
  PROVE  r \in broken \/ Follows(events, e, LastOf(events, r))
  BY DEF RecorderInv, Explained, IsExplained, Tells, Follows

LEMMA RenameFollows ==
  ASSUME RecorderInv, due = None, NEW r \in DOMAIN rows, NEW e,
         e.kind = "renamed", e.prev = rows[r].name
  PROVE  r \in broken \/ Follows(events, e, LastOf(events, r))
  BY DEF RecorderInv, Explained, IsExplained, Tells, Follows

-----------------------------------------------------------------------------
(* The handlers' own steps, each by the row it sets.                        *)

LEMMA RecordRemovalStep ==
  ASSUME TypeOK, RecorderInv, due = None, NEW n \in Names,
         RecordRemoval(n), UNCHANGED <<events, broken>>
  PROVE  (OneLiveRow /\ Explained /\ HistoryFits /\ LogInv /\ DueInv)'
  <1>1. CASE LiveAt(rows, n) = {}
    <2>1. UNCHANGED <<rows, due>>
      BY <1>1 DEF RecordRemoval
    <2>2. QED
      BY <2>1
      DEF RecorderInv, OneLiveRow, Explained, IsExplained, HistoryFits, LogInv, DueInv
  <1>2. CASE LiveAt(rows, n) # {}
    <2> DEFINE r == FoundAt(rows, n)
    <2>1. rows \in Seq(Row)
      BY DEF TypeOK
    <2>2. r \in DOMAIN rows /\ rows[r].name = n
      BY <1>2, <2>1, FoundAtIsThere DEF LiveAt, RowsAt
    <2>3. /\ rows' = Tombstoned(rows, r)
          /\ due' = [row |-> r, kind |-> "deleted", prev |-> None, name |-> n]
      BY <1>2 DEF RecordRemoval
    <2>4. r \in Nat \ {0}
      BY <2>1, <2>2, TableType
    <2> HIDE DEF r
    <2>5. due' # None /\ due'.row = r /\ due'.name = n /\ due'.kind = "deleted"
      BY <2>3, <2>4, EventType
    <2>6. PICK d \in Nat \ {0} :
            Sets(rows, rows', r, [name |-> rows[r].name, stamp |-> rows[r].stamp, deleted |-> d])
      BY <2>1, <2>2, <2>3, TombstonedSets
    <2>7. r \in broken \/ Follows(events, due', LastOf(events, r))
      BY <2>2, <2>5, DeletionFollows
    <2>8. QED
      <3> DEFINE row == [name |-> rows[r].name, stamp |-> rows[r].stamp, deleted |-> d]
      <3>1. row.name = n /\ row.deleted # 0 /\ Sets(rows, rows', r, row)
        BY <2>2, <2>6
      <3> HIDE DEF row
      <3>2. QED
        BY <2>5, <2>7, <3>1, RowStep
  <1>3. QED
    BY <1>1, <1>2

LEMMA UpsertStep ==
  ASSUME TypeOK, RecorderInv, due = None, NEW n \in Names, NEW s \in Stamps,
         rows' = Upsert(rows, n, s), due' = EventAt(n, s), UNCHANGED <<events, broken>>
  PROVE  (OneLiveRow /\ Explained /\ HistoryFits /\ LogInv /\ DueInv)'
  <1> DEFINE r == UpsertId(rows, n)
             row == [name |-> n, stamp |-> s, deleted |-> 0]
  <1>1. rows \in Seq(Row)
    BY DEF TypeOK
  <1>2. Sets(rows, rows', r, row)
    BY <1>1, UpsertSets
  <1>3. row.name = n /\ row.deleted = 0
    OBVIOUS
  <1>4. LiveAt(rows, n) \subseteq {r}
    BY UpsertIdIsOnlyLive DEF RecorderInv
  <1>5. CASE IsNews(n, s)
    <2>1. due' # None
      BY <1>5, EventAtType
    <2>2. due'.row = r /\ due'.name = n /\ due'.kind # "deleted"
      BY <1>5 DEF EventAt
    <2>3. r \in broken \/ Follows(events, due', LastOf(events, r))
      BY <1>5, <2>2, NewsFollows
    <2> HIDE DEF r, row
    <2>4. QED
      BY <1>2, <1>3, <1>4, <2>1, <2>2, <2>3, RowStep
  <1>6. CASE ~ IsNews(n, s)
    <2>1. due' = None
      BY <1>6 DEF EventAt
    <2>2. LiveAt(rows, n) # {}
      BY <1>6 DEF IsNews
    <2>3. r \in LiveAt(rows, n)
      BY <1>4, <2>2
    <2>4. r \in DOMAIN rows /\ rows[r].name = n /\ rows[r].deleted = 0
      BY <2>3 DEF LiveAt, RowsAt
    <2> HIDE DEF r, row
    <2>5. QED
      BY <1>2, <1>3, <1>4, <2>1, <2>4, RowStep
  <1>7. QED
    BY <1>5, <1>6

LEMMA RecordPathStep ==
  ASSUME TypeOK, RecorderInv, due = None, NEW n \in Names,
         RecordPath(n), UNCHANGED <<events, broken>>
  PROVE  (OneLiveRow /\ Explained /\ HistoryFits /\ LogInv /\ DueInv)'
  <1>1. CASE fs[n] = Absent
    BY <1>1, RecordRemovalStep DEF RecordPath
  <1>2. CASE fs[n] # Absent
    <2>1. fs[n].stamp \in Stamps
      BY <1>2 DEF TypeOK
    <2>2. QED
      BY <1>2, <2>1, UpsertStep DEF RecordPath
  <1>3. QED
    BY <1>1, <1>2

(* What stands where a row is about to be moved is gone before it moves.    *)
LEMMA DisplaceStep ==
  ASSUME TypeOK, RecorderInv, due = None, NEW from \in Names, NEW to \in Names \ {from},
         NEW r \in RowsAt(rows, from), Displace(r, to), UNCHANGED <<events, broken>>
  PROVE  /\ (OneLiveRow /\ Explained /\ HistoryFits /\ LogInv /\ DueInv)'
         /\ r \in DOMAIN rows'
         /\ rows'[r].name = from
         /\ LiveAt(rows', to) = {}
         /\ due' # None => due'.row # r
  <1>1. rows \in Seq(Row) /\ r \in DOMAIN rows /\ rows[r].name = from
    BY DEF TypeOK, RowsAt
  <1>2. CASE RowsAt(rows, to) = {} \/ FoundAt(rows, to) = r
    <2>1. UNCHANGED <<rows, due>>
      BY <1>2 DEF Displace
    <2>2. RowsAt(rows, to) = {}
      BY <1>1, <1>2, FoundAtIsThere DEF RowsAt
    <2>3. QED
      BY <1>1, <2>1, <2>2
      DEF RecorderInv, OneLiveRow, Explained, IsExplained, HistoryFits, LogInv, DueInv, LiveAt
  <1>3. CASE ~ (RowsAt(rows, to) = {} \/ FoundAt(rows, to) = r)
    <2> DEFINE q == FoundAt(rows, to)
    <2>1. q \in RowsAt(rows, to) /\ (LiveAt(rows, to) # {} => q \in LiveAt(rows, to))
      BY <1>1, <1>3, FoundAtIsThere
    <2>2. q \in DOMAIN rows /\ rows[q].name = to /\ q # r /\ q \in Nat \ {0}
      BY <1>1, <1>3, <2>1, TableType DEF RowsAt
    <2>3. /\ rows' = Tombstoned(rows, q)
          /\ due' = [row |-> q, kind |-> "deleted", prev |-> None, name |-> to]
      BY <1>3 DEF Displace
    <2> HIDE DEF q
    <2>4. LiveAt(rows, to) \subseteq {q}
      BY <2>1 DEF RecorderInv, OneLiveRow
    <2>5. due' # None /\ due'.row = q /\ due'.name = to /\ due'.kind = "deleted"
      BY <2>2, <2>3, EventType
    <2>6. PICK d \in Nat \ {0} :
            Sets(rows, rows', q, [name |-> rows[q].name, stamp |-> rows[q].stamp, deleted |-> d])
      BY <1>1, <2>2, <2>3, TombstonedSets
    <2>7. q \in broken \/ Follows(events, due', LastOf(events, q))
      BY <2>2, <2>5, DeletionFollows
    <2> DEFINE row == [name |-> rows[q].name, stamp |-> rows[q].stamp, deleted |-> d]
    <2>8. row.name = to /\ row.deleted # 0 /\ Sets(rows, rows', q, row)
      BY <2>2, <2>6
    <2> HIDE DEF row
    <2>9. (OneLiveRow /\ Explained /\ HistoryFits /\ LogInv /\ DueInv)'
      BY <2>5, <2>7, <2>8, RowStep
    <2>10. r \in DOMAIN rows' /\ rows'[r] = rows[r]
      BY <1>1, <2>2, <2>8 DEF Sets
    <2>11. LiveAt(rows', to) = {}
      BY <2>4, <2>8 DEF Sets, LiveAt, RowsAt
    <2>12. QED
      BY <1>1, <2>2, <2>5, <2>9, <2>10, <2>11
  <1>4. QED
    BY <1>2, <1>3

LEMMA MoveRowStep ==
  ASSUME TypeOK, RecorderInv, MoveRow
  PROVE  (OneLiveRow /\ Explained /\ HistoryFits /\ LogInv /\ DueInv)'
  <1> DEFINE r == moving.row
             row == [name |-> moving.to, stamp |-> rows[r].stamp, deleted |-> 0]
  <1>1. rows \in Seq(Row) /\ moving \in Move /\ r \in DOMAIN rows
    BY DEF TypeOK, MoveRow
  <1>2. r \in Nat \ {0} /\ moving.from \in Names /\ moving.to \in Names
    BY <1>1 DEF Move
  <1>3. rows[r].name = moving.from /\ LiveAt(rows, moving.to) \subseteq {r}
    BY DEF RecorderInv, MovingInv, MoveRow
  <1>4. /\ rows' = Moved(rows, r, moving.to)
        /\ due = None
        /\ due' = [row |-> r, kind |-> "renamed", prev |-> moving.from, name |-> moving.to]
        /\ UNCHANGED <<events, broken>>
    BY DEF MoveRow, history
  <1>5. Sets(rows, rows', r, row)
    BY <1>1, <1>2, <1>4, MovedSets
  <1>6. row.name = moving.to /\ row.deleted = 0
    OBVIOUS
  <1> HIDE DEF r, row
  <1>7. /\ due' # None
        /\ due'.row = r
        /\ due'.name = moving.to
        /\ due'.kind = "renamed"
        /\ due'.prev = moving.from
    BY <1>2, <1>4, EventType
  <1>8. r \in broken \/ Follows(events, due', LastOf(events, r))
    BY <1>1, <1>3, <1>4, <1>7, RenameFollows
  <1>9. QED
    BY <1>3, <1>4, <1>5, <1>6, <1>7, <1>8, RowStep

LEMMA AppendEventStep ==
  ASSUME TypeOK, RecorderInv, AppendEvent
  PROVE  (OneLiveRow /\ Explained /\ HistoryFits /\ LogInv /\ DueInv)'
  <1>1. /\ events \in Seq(Event) /\ due \in Event /\ due.row \in DOMAIN rows
        /\ events' = Append(events, due) /\ due' = None
        /\ UNCHANGED <<rows, broken>>
    BY DEF TypeOK, AppendEvent, history
  <1>2. /\ due.name = rows[due.row].name
        /\ (due.kind = "deleted") = (rows[due.row].deleted # 0)
        /\ due.row \in broken \/ Follows(events, due, LastOf(events, due.row))
    BY <1>1, NoneAssumption DEF RecorderInv, DueInv, AppendEvent
  <1>3. \A q \in DOMAIN rows \ (broken \cup {due.row}) : Tells(events, q, rows[q])
    BY DEF RecorderInv, Explained, IsExplained
  <1>4. Explained'
    BY <1>1, <1>2, <1>3, AppendExplains
  <1>5. HistoryFits'
    BY <1>1, <1>2, AppendKeepsFits DEF RecorderInv
  <1>6. LogInv'
    BY <1>1, AppendKeepsLog DEF RecorderInv
  <1>7. QED
    BY <1>1, <1>4, <1>5, <1>6 DEF RecorderInv, OneLiveRow, DueInv

(* record_entry: row and event at once.                                     *)
LEMMA ScanEntryStep ==
  ASSUME TypeOK, RecorderInv, due = None, NEW n \in Names, NEW waiting,
         ScanEntryBefore(n, waiting)
  PROVE  (OneLiveRow /\ Explained /\ HistoryFits /\ LogInv /\ DueInv)'
  <1> DEFINE s == fs[n].stamp
             e == EventAt(n, s)
             r == UpsertId(rows, n)
             row == [name |-> n, stamp |-> s, deleted |-> 0]
  <1>1. rows \in Seq(Row) /\ events \in Seq(Event)
    BY DEF TypeOK
  <1>2. UNCHANGED <<due, broken>>
    BY DEF ScanEntryBefore, handler
  <1>3. CASE fs[n] = Absent
    <2>1. UNCHANGED <<rows, events>>
      BY <1>3 DEF ScanEntryBefore, store
    <2>2. QED
      BY <1>2, <2>1
      DEF RecorderInv, OneLiveRow, Explained, IsExplained, HistoryFits, LogInv, DueInv
  <1>4. CASE fs[n] # Absent /\ ~ IsNews(n, s)
    <2>1. rows' = Upsert(rows, n, s) /\ UNCHANGED events /\ due' = e
      BY <1>2, <1>4 DEF ScanEntryBefore, EventAt
    <2>2. s \in Stamps
      BY <1>4 DEF TypeOK
    <2> HIDE DEF s
    <2>3. QED
      BY <1>2, <2>1, <2>2, UpsertStep
  <1>5. CASE fs[n] # Absent /\ IsNews(n, s)
    <2>1. rows' = Upsert(rows, n, s) /\ events' = Append(events, e)
      BY <1>5 DEF ScanEntryBefore
    <2>2. s \in Stamps
      BY <1>5 DEF TypeOK
    <2>3. Sets(rows, rows', r, row)
      BY <1>1, <2>1, <2>2, UpsertSets
    <2>4. row.name = n /\ row.deleted = 0
      OBVIOUS
    <2>5. LiveAt(rows, n) \subseteq {r}
      BY UpsertIdIsOnlyLive DEF RecorderInv
    <2>6. e.row = r /\ e.name = n /\ e.kind # "deleted"
      BY <1>5 DEF EventAt
    <2>7. e \in Event
      BY <1>5, <2>2, EventAtType
    <2>8. r \in broken \/ Follows(events, e, LastOf(events, r))
      <3> HIDE DEF s
      <3>1. QED
        BY <1>5, <2>2, <2>6, NewsFollows
    <2> HIDE DEF s, e, r, row
    <2>9. OneLiveRow'
      BY <2>3, <2>4, <2>5, SetsKeepsOneLive DEF RecorderInv
    <2>10. /\ r \in DOMAIN rows' /\ rows'[r] = row
           /\ DOMAIN rows \subseteq DOMAIN rows'
           /\ \A q \in DOMAIN rows' \ {r} : q \in DOMAIN rows /\ rows'[q] = rows[q]
      BY <2>3 DEF Sets
    <2>11. \A q \in DOMAIN rows' \ (broken \cup {r}) : Tells(events, q, rows'[q])
      BY <2>10 DEF RecorderInv, Explained, IsExplained
    <2>12. Explained'
      BY <1>1, <1>2, <2>1, <2>4, <2>6, <2>7, <2>10, <2>11, AppendExplains
    <2>13. HistoryFits'
      BY <1>1, <1>2, <2>1, <2>6, <2>7, <2>8, AppendKeepsFits DEF RecorderInv
    <2>14. LogInv'
      BY <1>1, <2>1, <2>6, <2>7, <2>10, AppendKeepsLog DEF RecorderInv
    <2>15. QED
      BY <1>2, <2>9, <2>12, <2>13, <2>14 DEF DueInv
  <1>6. QED
    BY <1>3, <1>4, <1>5

-----------------------------------------------------------------------------
LEMMA RecorderInvStep ==
  TypeOK /\ RecorderInv /\ (CommonStep \/ UNCHANGED vars) => RecorderInv'
  <1> SUFFICES ASSUME TypeOK, RecorderInv, CommonStep \/ UNCHANGED vars PROVE RecorderInv'
    OBVIOUS
  <1>1. pc # "watch" => Idle
    BY DEF RecorderInv, MovingInv, HandlerInv, Idle
  <1>2. ASSUME NEW e \in EditsNow, ChangeFiles(e) PROVE RecorderInv'
    BY <1>2, OtherStep DEF ChangeFiles, store, handler
  <1>3. CASE Boot
    BY <1>3, <1>1, OtherStep DEF Boot, store, handler, history
  <1>4. ASSUME NEW n \in Names, NEW waiting, ScanEntryBefore(n, waiting) PROVE RecorderInv'
    <2>1. pc \in {"scan", "rescan"} /\ UNCHANGED <<pc, due, moving>>
      BY <1>4 DEF ScanEntryBefore, handler
    <2>2. due = None /\ moving = None
      BY <1>1, <2>1 DEF Idle
    <2>3. (OneLiveRow /\ Explained /\ HistoryFits /\ LogInv /\ DueInv)'
      BY <1>4, <2>2, ScanEntryStep
    <2>4. QED
      BY <2>1, <2>2, <2>3 DEF RecorderInv, MovingInv, HandlerInv
  <1>5. CASE EndScan
    BY <1>5, <1>1, OtherStep DEF EndScan, store, handler, history
  <1>6. CASE ApplyOverflowed
    BY <1>6, OtherStep DEF ApplyOverflowed, Take, store, handler, history
  <1>7. ASSUME NEW kind, Take(kind), kind # "overflowed"
        PROVE  /\ Head(inbox).from \in Names /\ Head(inbox).to \in Names
               /\ due = None /\ moving = None /\ pc = "watch"
    <2>1. Head(inbox) \in Change
      BY <1>7, HeadTailProperties DEF Take, TypeOK
    <2>2. QED
      BY <1>7, <2>1, FileChangeNames DEF Take, Idle
  <1>8. CASE ApplyTouched
    <2>1. /\ Take("touched") /\ RecordPath(Head(inbox).to)
          /\ UNCHANGED <<events, pc, moving, broken>>
      BY <1>8 DEF ApplyTouched, history
    <2>2. Head(inbox).to \in Names /\ due = None /\ moving = None /\ pc = "watch"
      BY <2>1, <1>7
    <2>3. (OneLiveRow /\ Explained /\ HistoryFits /\ LogInv /\ DueInv)'
      BY <2>1, <2>2, RecordPathStep
    <2>4. QED
      BY <2>1, <2>2, <2>3 DEF RecorderInv, MovingInv, HandlerInv
  <1>9. CASE ApplyRemoved
    <2>1. /\ Take("removed") /\ RecordRemoval(Head(inbox).to)
          /\ UNCHANGED <<events, pc, moving, broken>>
      BY <1>9 DEF ApplyRemoved, history
    <2>2. Head(inbox).to \in Names /\ due = None /\ moving = None /\ pc = "watch"
      BY <2>1, <1>7
    <2>3. (OneLiveRow /\ Explained /\ HistoryFits /\ LogInv /\ DueInv)'
      BY <2>1, <2>2, RecordRemovalStep
    <2>4. QED
      BY <2>1, <2>2, <2>3 DEF RecorderInv, MovingInv, HandlerInv
  <1>10. CASE ApplyRenamed
    <2> DEFINE from == Head(inbox).from
               to == Head(inbox).to
    <2>1. Take("renamed") /\ UNCHANGED <<events, pc, broken>>
      BY <1>10 DEF ApplyRenamed, history
    <2>2. from \in Names /\ to \in Names /\ due = None /\ moving = None /\ pc = "watch"
      BY <2>1, <1>7
    <2>3. to # from
      <3>1. Head(inbox) \in Change /\ Head(inbox).kind = "renamed"
        BY <2>1, HeadTailProperties DEF Take, TypeOK
      <3>2. QED
        BY <3>1 DEF Change, FileChange, Touched, Removed, Renamed, Overflowed
    <2>4. CASE ~ IsKnown(from)
      <3>1. RecordPath(to) /\ UNCHANGED moving
        BY <1>10, <2>4 DEF ApplyRenamed
      <3>2. (OneLiveRow /\ Explained /\ HistoryFits /\ LogInv /\ DueInv)'
        BY <2>1, <2>2, <3>1, RecordPathStep
      <3>3. QED
        BY <2>1, <2>2, <3>1, <3>2 DEF RecorderInv, MovingInv, HandlerInv
    <2>5. CASE IsKnown(from)
      <3> DEFINE r == FoundAt(rows, from)
      <3>1. Displace(r, to) /\ moving' = [row |-> r, from |-> from, to |-> to]
        BY <1>10, <2>5 DEF ApplyRenamed
      <3>2. r \in RowsAt(rows, from)
        BY <2>2, <2>5, FoundAtIsThere DEF TypeOK, IsKnown
      <3> HIDE DEF r, from, to
      <3>3. /\ (OneLiveRow /\ Explained /\ HistoryFits /\ LogInv /\ DueInv)'
            /\ rows'[r].name = from
            /\ LiveAt(rows', to) = {}
            /\ due' # None => due'.row # r
        BY <2>1, <2>2, <2>3, <3>1, <3>2, DisplaceStep
      <3>4. moving'.row = r /\ moving'.from = from /\ moving'.to = to
        BY <3>1
      <3>5. MovingInv'
        BY <2>1, <2>2, <3>3, <3>4 DEF MovingInv
      <3>6. QED
        BY <2>1, <2>2, <3>3, <3>5 DEF RecorderInv, HandlerInv
    <2>6. QED
      BY <2>4, <2>5
  <1>11. CASE AppendEvent
    <2>1. (OneLiveRow /\ Explained /\ HistoryFits /\ LogInv /\ DueInv)'
      BY <1>11, AppendEventStep
    <2>2. due' = None /\ UNCHANGED <<rows, moving, pc>>
      BY <1>11 DEF AppendEvent
    <2>3. QED
      BY <2>1, <2>2 DEF RecorderInv, MovingInv, HandlerInv
  <1>12. CASE MoveRow
    <2>1. (OneLiveRow /\ Explained /\ HistoryFits /\ LogInv /\ DueInv)'
      BY <1>12, MoveRowStep
    <2>2. moving' = None /\ UNCHANGED pc
      BY <1>12 DEF MoveRow
    <2>3. pc = "watch"
      BY <1>12, <1>1 DEF MoveRow, Idle
    <2>4. QED
      BY <2>1, <2>2, <2>3 DEF RecorderInv, MovingInv, HandlerInv
  <1>13. CASE HandlerFails
    <2>1. UNCHANGED <<rows, events, pc>>
      BY <1>13 DEF HandlerFails, store
    <2>2. CASE StopHandler
      BY <2>1, <2>2, StopStep
    <2>3. CASE UNCHANGED <<handler, broken>>
      BY <2>1, <2>3, OtherStep DEF handler
    <2>4. QED
      BY <1>13, <2>2, <2>3 DEF HandlerFails
  <1>14. CASE ScanFails
    BY <1>14, OtherStep DEF ScanFails, store, handler, history
  <1>15. ASSUME NEW names, CrashLosing(names) PROVE RecorderInv'
    BY <1>15, StopStep DEF CrashLosing, store
  <1>16. CASE UNCHANGED <<store, pc, handler, broken>>
    BY <1>16, OtherStep DEF store, handler
  <1>17. CASE UNCHANGED vars
    BY <1>17, OtherStep DEF vars, store, handler, history
  <1>18. QED
    BY <1>2, <1>3, <1>4, <1>5, <1>6, <1>8, <1>9, <1>10, <1>11, <1>12, <1>13, <1>14,
       <1>15, <1>16, <1>17
    DEF CommonStep

LEMMA InitialRecorder == Init => TypeOK /\ RecorderInv
  <1>1. Init => TypeOK
    <2>1. ASSUME NEW S PROVE <<>> \in Seq(S)
      BY EmptySeq
    <2>2. QED
      BY <2>1, RecorderAssumption DEF Init, TypeOK, FileIds
  <1>2. Init => RecorderInv
    BY DEF Init, RecorderInv, OneLiveRow, LiveAt, RowsAt, Explained, HistoryFits, LogInv,
           DueInv, MovingInv, HandlerInv
  <1>3. QED
    BY <1>1, <1>2

(* Whatever the users, the kernel and the handlers do, an event due and a    *)
(* row to be moved are of rows the table has.                               *)
THEOREM RecorderTypeInvariant == Spec => []TypeOK
  <1>1. QED
    BY InitialRecorder, RecorderIsCommon, RecorderTypeStep, PTL DEF Spec

LEMMA RecorderInvariant == Spec => []RecorderInv
  <1>1. QED
    BY InitialRecorder, RecorderTypeInvariant, RecorderIsCommon, RecorderInvStep, PTL DEF Spec

(* A live row is alone at its name, whatever is displaced, moved, revived,   *)
(* left half done or overflowed: no statement of a handler can fail on the   *)
(* unique index of the live rows (dafs-store lib.rs, files_live_entry).      *)
THEOREM RecorderOneLiveRow == Spec => []OneLiveRow
  <1>1. RecorderInv => OneLiveRow
    BY DEF RecorderInv
  <1>2. QED
    BY <1>1, RecorderInvariant, PTL

(* The log tells where each row is and whether it is live, but for rows      *)
(* whose own handler was stopped between its two commits: a kill or a failed *)
(* statement never costs another row its history.                           *)
THEOREM RecorderExplained == Spec => []Explained
  <1>1. RecorderInv => Explained
    BY DEF RecorderInv
  <1>2. QED
    BY <1>1, RecorderInvariant, PTL

(* Each event follows from the one before it of the same row, so a reader    *)
(* who walks renames back (events.rs, previous_path) passes the names the    *)
(* row really had.                                                          *)
THEOREM RecorderHistoryFits == Spec => []HistoryFits
  <1>1. RecorderInv => HistoryFits
    BY DEF RecorderInv
  <1>2. QED
    BY <1>1, RecorderInvariant, PTL

-----------------------------------------------------------------------------
(* The mirror, with the perfect watch. What is waiting is a rename whose row *)
(* is still to be moved, then the inbox. A name no change is waiting for is   *)
(* in step, one that some change is waiting for fits the last of them.       *)
Queue == (IF moving = None THEN <<>> ELSE <<Renamed(moving.from, moving.to)>>) \o inbox

(* Something after the k-th change of q is about n.                          *)
After(q, n, k) == \E i \in k + 1 .. Len(q) : n \in NamesOf(q[i])

(* The files are as change c, the last about n, left them there.             *)
Fits(files, c, n) ==
  /\ c.kind \in {"removed", "renamed"} /\ n = c.from => files[n] = Absent
  /\ c.kind = "renamed" /\ n = c.to => files[n] # Absent

Accounted ==
  \A n \in Names \ missed :
    /\ ~ After(Queue, n, 0) => InSync(n)
    /\ \A i \in DOMAIN Queue : n \in NamesOf(Queue[i]) /\ ~ After(Queue, n, i) => Fits(fs, Queue[i], n)

MoveInv ==
  moving # None =>
    /\ moving.from # moving.to
    /\ RowsAt(rows, moving.from) # {}
    /\ moving.row = FoundAt(rows, moving.from)

MirrorInv == Accounted /\ MoveInv

(* No statement has touched what is at n.                                    *)
Same(n) ==
  /\ RowsAt(rows', n) = RowsAt(rows, n)
  /\ \A r \in RowsAt(rows, n) : rows'[r] = rows[r]

LEMMA SameFinds ==
  ASSUME NEW n, Same(n)
  PROVE  LiveAt(rows', n) = LiveAt(rows, n) /\ FoundAt(rows', n) = FoundAt(rows, n)
  <1>1. LiveAt(rows', n) = LiveAt(rows, n)
    BY DEF Same, LiveAt
  <1> DEFINE Is(t, r) == \/ r \in LiveAt(t, n)
                         \/ /\ LiveAt(t, n) = {}
                            /\ \A q \in RowsAt(t, n) : t[q].deleted <= t[r].deleted
  <1>2. \A r \in RowsAt(rows, n) : Is(rows', r) <=> Is(rows, r)
    BY <1>1 DEF Same
  <1>3. (CHOOSE r \in RowsAt(rows', n) : Is(rows', r)) = (CHOOSE r \in RowsAt(rows, n) : Is(rows, r))
    <2> HIDE DEF Is
    <2> QED
      BY <1>2 DEF Same
  <1> QED
    BY <1>1, <1>3 DEF FoundAt

LEMMA SetsSame ==
  ASSUME NEW r, NEW row, Sets(rows, rows', r, row), NEW n, n # row.name,
         r \in DOMAIN rows => rows[r].name # n
  PROVE  Same(n)
  BY DEF Sets, Same, RowsAt

(* What is found among tombstones only is the newest.                       *)
LEMMA FoundNewest ==
  ASSUME NEW table \in Seq(Row), NEW n \in Names, RowsAt(table, n) # {}, LiveAt(table, n) = {}
  PROVE  \A q \in RowsAt(table, n) : table[q].deleted <= table[FoundAt(table, n)].deleted
  <1> DEFINE Is(r) == \/ r \in LiveAt(table, n)
                      \/ /\ LiveAt(table, n) = {}
                         /\ \A q \in RowsAt(table, n) : table[q].deleted <= table[r].deleted
  <1>1. RowsAt(table, n) \in SUBSET DOMAIN table
    BY DEF RowsAt
  <1>2. \E r \in RowsAt(table, n) : \A q \in RowsAt(table, n) : table[q].deleted <= table[r].deleted
    BY <1>1, LastDeleted
  <1>3. \E r \in RowsAt(table, n) : Is(r)
    BY <1>2
  <1>4. FoundAt(table, n) = CHOOSE r \in RowsAt(table, n) : Is(r)
    BY DEF FoundAt
  <1>5. Is(FoundAt(table, n))
    <2> HIDE DEF Is
    <2> QED
      BY <1>3, <1>4, Zenon
  <1> QED
    BY <1>5

(* A deletion is later than the others at its name.                         *)
LEMMA NowIsLatest ==
  ASSUME NEW table \in Seq(Row), NEW n \in Names, NEW q \in RowsAt(table, n)
  PROVE  table[q].deleted < Now(table, n)
  <1> DEFINE D == {0} \cup {table[r].deleted : r \in RowsAt(table, n)}
  <1>1. \A r \in RowsAt(table, n) : r \in DOMAIN table /\ table[r].deleted \in Nat
    BY TableType DEF RowsAt
  <1>2. RowsAt(table, n) \in SUBSET DOMAIN table
    BY <1>1
  <1>3. PICK r \in RowsAt(table, n) : \A p \in RowsAt(table, n) : table[p].deleted <= table[r].deleted
    BY <1>2, LastDeleted
  <1>4. table[r].deleted \in D /\ \A d \in D : table[r].deleted >= d
    BY <1>1, <1>3
  <1>5. \A d \in D : d \in Nat
    BY <1>1
  <1>6. Max(D) \in D /\ \A d \in D : Max(D) >= d
    <2> HIDE DEF D
    <2> QED
      BY <1>4 DEF Max
  <1>7. Now(table, n) = 1 + Max(D)
    BY DEF Now
  <1>8. table[q].deleted \in D
    OBVIOUS
  <1> HIDE DEF D
  <1> QED
    BY <1>5, <1>6, <1>7, <1>8

(* The row found at a name that is deleted is still the one found there.     *)
LEMMA TombstonedIsFound ==
  ASSUME rows \in Seq(Row), OneLiveRow, NEW n \in Names, LiveAt(rows, n) # {},
         rows' = Tombstoned(rows, FoundAt(rows, n))
  PROVE  /\ LiveAt(rows', n) = {}
         /\ RowsAt(rows', n) # {} /\ FoundAt(rows', n) = FoundAt(rows, n)
         /\ \A m \in Names \ {n} : Same(m)
  <1> DEFINE r == FoundAt(rows, n)
  <1>1. r \in LiveAt(rows, n)
    BY FoundAtIsThere DEF LiveAt
  <1>2. r \in DOMAIN rows /\ rows[r].name = n /\ rows[r].deleted = 0
    BY <1>1 DEF LiveAt, RowsAt
  <1>3. \A q \in LiveAt(rows, n) : q = r
    BY <1>1 DEF OneLiveRow
  <1> DEFINE d == Now(rows, n)
             row == [name |-> rows[r].name, stamp |-> rows[r].stamp, deleted |-> d]
  <1>4. d \in Nat \ {0} /\ \A q \in RowsAt(rows, n) : rows[q].deleted < d
    BY NowIsLater, NowIsLatest
  <1>5. rows' = [rows EXCEPT ![r].deleted = d]
    BY <1>2 DEF Tombstoned
  <1>6. rows[r] \in Row
    BY <1>2, TableType
  <1> HIDE DEF r, d
  <1>7. [rows[r] EXCEPT !.deleted = d] = row /\ row \in Row /\ row.name = n /\ row.deleted = d
    BY <1>2, <1>4, <1>6 DEF Row
  <1>8. rows' = [rows EXCEPT ![r] = row]
    BY <1>5, <1>7
  <1> HIDE DEF row
  <1>9. Sets(rows, rows', r, row)
    <2>1. row \in Row /\ r \in DOMAIN rows
      BY <1>2, <1>7
    <2>2. Sets(rows, [rows EXCEPT ![r] = row], r, row)
      BY <2>1, ExceptSets
    <2> QED
      BY <1>8, <2>2
  <1>10. RowsAt(rows', n) = RowsAt(rows, n) /\ r \in RowsAt(rows', n) /\ LiveAt(rows', n) = {}
    BY <1>2, <1>3, <1>4, <1>7, <1>9 DEF Sets, RowsAt, LiveAt
  <1> DEFINE f == FoundAt(rows', n)
  <1>11. rows' \in Seq(Row)
    BY <1>9 DEF Sets
  <1>12. f \in RowsAt(rows', n)
    BY <1>10, <1>11, FoundAtIsThere
  <1>13. rows'[r].deleted <= rows'[f].deleted
    BY <1>10, <1>11, FoundNewest
  <1> HIDE DEF f
  <1>14. ASSUME f # r PROVE FALSE
    <2>1. rows'[f] = rows[f] /\ f \in RowsAt(rows, n) /\ f \in DOMAIN rows
      BY <1>9, <1>10, <1>12, <1>14 DEF Sets, RowsAt
    <2>2. rows[f].deleted \in Nat /\ rows[f].deleted < d
      BY <1>4, <2>1, TableType
    <2> QED
      BY <1>4, <1>7, <1>9, <1>13, <2>1, <2>2 DEF Sets
  <1>15. \A m \in Names \ {n} : Same(m)
    BY <1>2, <1>7, <1>9, SetsSame
  <1> QED
    BY <1>10, <1>14, <1>15 DEF r, f

(* record_removal and record_path leave a live row just if the file is there, *)
(* and the one that was found at the name found there.                      *)
LEMMA RecordRemovalAt ==
  ASSUME TypeOK, OneLiveRow, NEW n \in Names, RecordRemoval(n)
  PROVE  /\ LiveAt(rows', n) = {}
         /\ RowsAt(rows, n) # {} =>
              RowsAt(rows', n) # {} /\ FoundAt(rows', n) = FoundAt(rows, n)
         /\ \A m \in Names \ {n} : Same(m)
  <1>1. CASE LiveAt(rows, n) = {}
    BY <1>1 DEF RecordRemoval, Same
  <1>2. CASE LiveAt(rows, n) # {}
    BY <1>2, TombstonedIsFound DEF RecordRemoval, TypeOK
  <1> QED
    BY <1>1, <1>2

LEMMA UpsertAt ==
  ASSUME TypeOK, OneLiveRow, NEW n \in Names, NEW s \in Stamps, rows' = Upsert(rows, n, s)
  PROVE  /\ LiveAt(rows', n) = {UpsertId(rows, n)}
         /\ FoundAt(rows', n) = UpsertId(rows, n)
         /\ \A m \in Names \ {n} : Same(m)
  <1> DEFINE r == UpsertId(rows, n)
             row == [name |-> n, stamp |-> s, deleted |-> 0]
  <1>1. rows \in Seq(Row)
    BY DEF TypeOK
  <1>2. Sets(rows, rows', r, row)
    BY <1>1, UpsertSets
  <1>3. LiveAt(rows, n) \subseteq {r}
    BY UpsertIdIsOnlyLive
  <1>4. r \in DOMAIN rows => rows[r].name = n
    <2>1. CASE RowsAt(rows, n) = {}
      BY <1>1, <2>1, TableType DEF UpsertId
    <2>2. CASE RowsAt(rows, n) # {}
      BY <1>1, <2>2, FoundAtIsThere DEF UpsertId, RowsAt
    <2> QED
      BY <2>1, <2>2
  <1> HIDE DEF r
  <1>5. row.name = n /\ row.deleted = 0
    OBVIOUS
  <1> HIDE DEF row
  <1>6. LiveAt(rows', n) = {r} /\ rows' \in Seq(Row) /\ RowsAt(rows', n) # {}
    BY <1>2, <1>3, <1>5 DEF Sets, LiveAt, RowsAt
  <1>7. FoundAt(rows', n) = r
    BY <1>6, FoundAtIsThere
  <1> QED
    BY <1>2, <1>4, <1>5, <1>6, <1>7, SetsSame DEF r

LEMMA RecordPathAt ==
  ASSUME TypeOK, OneLiveRow, NEW n \in Names, RecordPath(n)
  PROVE  /\ (LiveAt(rows', n) = {}) = (fs[n] = Absent)
         /\ RowsAt(rows, n) # {} =>
              RowsAt(rows', n) # {} /\ FoundAt(rows', n) = FoundAt(rows, n)
         /\ \A m \in Names \ {n} : Same(m)
  <1>1. CASE fs[n] = Absent
    BY <1>1, RecordRemovalAt DEF RecordPath
  <1>2. CASE fs[n] # Absent
    <2>1. fs[n].stamp \in Stamps /\ rows' = Upsert(rows, n, fs[n].stamp)
      BY <1>2 DEF TypeOK, RecordPath
    <2>2. /\ LiveAt(rows', n) = {UpsertId(rows, n)}
          /\ FoundAt(rows', n) = UpsertId(rows, n)
          /\ \A m \in Names \ {n} : Same(m)
      BY <2>1, UpsertAt
    <2> QED
      BY <1>2, <2>2 DEF UpsertId, LiveAt
  <1> QED
    BY <1>1, <1>2

LEMMA DisplaceAt ==
  ASSUME TypeOK, NEW to \in Names, NEW r, Displace(r, to)
  PROVE  \A m \in Names \ {to} : Same(m)
  <1>1. CASE RowsAt(rows, to) = {} \/ FoundAt(rows, to) = r
    BY <1>1 DEF Displace, Same
  <1>2. CASE ~ (RowsAt(rows, to) = {} \/ FoundAt(rows, to) = r)
    <2> DEFINE q == FoundAt(rows, to)
    <2>1. rows \in Seq(Row) /\ q \in DOMAIN rows /\ rows[q].name = to
      BY <1>2, FoundAtIsThere DEF TypeOK, RowsAt
    <2>2. rows' = Tombstoned(rows, q)
      BY <1>2 DEF Displace
    <2> HIDE DEF q
    <2>3. PICK d \in Nat \ {0} :
            Sets(rows, rows', q, [name |-> rows[q].name, stamp |-> rows[q].stamp, deleted |-> d])
      BY <2>1, <2>2, TombstonedSets
    <2> DEFINE row == [name |-> rows[q].name, stamp |-> rows[q].stamp, deleted |-> d]
    <2>4. row.name = to
      BY <2>1
    <2> HIDE DEF row
    <2> QED
      BY <2>1, <2>3, <2>4, SetsSame DEF row
  <1> QED
    BY <1>1, <1>2

(* The row leaves its name to no live row, and is found at the new one.      *)
LEMMA MoveRowAt ==
  ASSUME TypeOK, RecorderInv, MoveInv, MoveRow
  PROVE  /\ LiveAt(rows', moving.from) = {}
         /\ LiveAt(rows', moving.to) = {moving.row}
         /\ RowsAt(rows', moving.to) # {} /\ FoundAt(rows', moving.to) = moving.row
         /\ \A m \in Names \ {moving.from, moving.to} : Same(m)
  <1> DEFINE r == moving.row
             to == moving.to
             from == moving.from
             row == [name |-> to, stamp |-> rows[r].stamp, deleted |-> 0]
  <1>1. rows \in Seq(Row) /\ moving \in Move /\ r \in DOMAIN rows /\ rows' = Moved(rows, r, to)
    BY DEF TypeOK, MoveRow
  <1>2. to \in Names /\ from \in Names /\ from # to /\ RowsAt(rows, from) # {}
        /\ r = FoundAt(rows, from)
    BY <1>1 DEF Move, MoveInv, MoveRow
  <1>3. rows[r].name = from /\ LiveAt(rows, to) \subseteq {r}
    BY DEF RecorderInv, MovingInv, MoveRow
  <1>4. LiveAt(rows, from) \subseteq {r}
    BY <1>1, <1>2, FoundAtIsThere DEF RecorderInv, OneLiveRow
  <1>5. Sets(rows, rows', r, row)
    BY <1>1, <1>2, MovedSets
  <1>6. row.name = to /\ row.deleted = 0
    OBVIOUS
  <1> HIDE DEF r, row, to, from
  <1>7. LiveAt(rows', from) = {}
    BY <1>2, <1>4, <1>5, <1>6 DEF Sets, LiveAt, RowsAt
  <1>8. LiveAt(rows', to) = {r} /\ rows' \in Seq(Row) /\ RowsAt(rows', to) # {}
    BY <1>3, <1>5, <1>6 DEF Sets, LiveAt, RowsAt
  <1>9. FoundAt(rows', to) = r
    BY <1>2, <1>8, FoundAtIsThere
  <1>10. \A m \in Names \ {from, to} : Same(m)
    BY <1>3, <1>5, <1>6, SetsSame
  <1> QED
    BY <1>7, <1>8, <1>9, <1>10 DEF r, to, from

-----------------------------------------------------------------------------
(* What is waiting, and how it grows and shrinks.                           *)
LEMMA QueueIs ==
  ASSUME TypeOK, MoveInv
  PROVE  /\ Queue \in Seq(Change)
         /\ moving = None => Queue = inbox
         /\ moving # None =>
              LET c == Renamed(moving.from, moving.to) IN
              /\ c \in Change /\ moving.from \in Names /\ moving.to \in Names
              /\ Queue = <<c>> \o inbox /\ Queue # <<>> /\ Head(Queue) = c /\ Tail(Queue) = inbox
              /\ Len(Queue) = Len(inbox) + 1
  <1>1. inbox \in Seq(Change) /\ moving \in Move \cup {None}
    BY DEF TypeOK
  <1>2. CASE moving = None
    BY <1>1, <1>2, ConcatEmptySeq DEF Queue
  <1>3. CASE moving # None
    <2> DEFINE c == Renamed(moving.from, moving.to)
    <2>1. moving.from \in Names /\ moving.to \in Names /\ moving.from # moving.to
      BY <1>1, <1>3 DEF Move, MoveInv
    <2>2. c \in Change
      BY <2>1 DEF Change, FileChange
    <2>3. Queue = <<c>> \o inbox
      BY <1>3 DEF Queue
    <2> HIDE DEF c
    <2>4. <<c>> \in Seq(Change) /\ Len(<<c>>) = 1 /\ <<c>>[1] = c
      BY <2>2
    <2>5. /\ Queue \in Seq(Change) /\ Len(Queue) = Len(inbox) + 1
          /\ Queue[1] = c /\ \A i \in 1 .. Len(inbox) : Queue[i + 1] = inbox[i]
      BY <1>1, <2>3, <2>4, ConcatProperties, LenProperties
    <2>6. Queue # <<>> /\ Head(Queue) = c
      BY <1>1, <2>5, LenProperties
    <2>7. Tail(Queue) = inbox
      <3>1. /\ Tail(Queue) \in Seq(Change) /\ Len(Tail(Queue)) = Len(inbox)
            /\ \A i \in 1 .. Len(inbox) : Tail(Queue)[i] = inbox[i]
        BY <1>1, <2>5, <2>6, HeadTailProperties, LenProperties
      <3> QED
        BY <1>1, <3>1, SeqEqual
    <2> QED
      BY <1>3, <2>1, <2>2, <2>3, <2>5, <2>6, <2>7 DEF c
  <1> QED
    BY <1>2, <1>3

LEMMA QueueGrows ==
  ASSUME TypeOK, MoveInv, NEW c \in Change, inbox' = Append(inbox, c), UNCHANGED moving
  PROVE  Queue' = Append(Queue, c)
  <1>1. inbox \in Seq(Change)
    BY DEF TypeOK
  <1>2. CASE moving = None
    BY <1>1, <1>2, ConcatEmptySeq, AppendProperties DEF Queue
  <1>3. CASE moving # None
    <2> DEFINE d == Renamed(moving.from, moving.to)
    <2>1. d \in Change /\ Queue = <<d>> \o inbox /\ Queue' = <<d>> \o Append(inbox, c)
      BY <1>3, QueueIs DEF Queue
    <2> HIDE DEF d
    <2> QED
      BY <1>1, <2>1
  <1> QED
    BY <1>2, <1>3

LEMMA QueueTaken ==
  ASSUME TypeOK, MoveInv, moving = None, inbox # <<>>, inbox' = Tail(inbox), moving' = None
  PROVE  Queue # <<>> /\ Head(Queue) = Head(inbox) /\ Queue' = Tail(Queue)
  <1>1. inbox \in Seq(Change) /\ Queue = inbox
    BY QueueIs DEF TypeOK
  <1>2. Tail(inbox) \in Seq(Change)
    BY <1>1, HeadTailProperties
  <1>3. Queue' = Tail(inbox)
    BY <1>2, ConcatEmptySeq DEF Queue
  <1> QED
    BY <1>1, <1>3

LEMMA QueueMoves ==
  ASSUME TypeOK, MoveInv, moving = None, inbox # <<>>, inbox' = Tail(inbox), moving' # None,
         Head(inbox) = Renamed(moving'.from, moving'.to)
  PROVE  Queue' = Queue
  <1>1. inbox \in Seq(Change) /\ Queue = inbox
    BY QueueIs DEF TypeOK
  <1>2. Queue' = <<Head(inbox)>> \o Tail(inbox)
    BY DEF Queue
  <1> QED
    BY <1>1, <1>2

LEMMA QueueMoved ==
  ASSUME TypeOK, MoveInv, moving # None, moving' = None, UNCHANGED inbox
  PROVE  Queue # <<>> /\ Head(Queue) = Renamed(moving.from, moving.to) /\ Queue' = Tail(Queue)
  <1>1. inbox \in Seq(Change)
    BY DEF TypeOK
  <1>2. Queue # <<>> /\ Head(Queue) = Renamed(moving.from, moving.to) /\ Tail(Queue) = inbox
    BY QueueIs
  <1>3. Queue' = inbox
    BY <1>1, ConcatEmptySeq DEF Queue
  <1> QED
    BY <1>2, <1>3

LEMMA QueueSame ==
  ASSUME UNCHANGED <<inbox, moving>>
  PROVE  Queue' = Queue
  BY DEF Queue

LEMMA AfterGrows ==
  ASSUME NEW q \in Seq(Change), NEW c \in Change, NEW n, NEW k \in 0 .. Len(q)
  PROVE  /\ After(Append(q, c), n, k) <=> After(q, n, k) \/ n \in NamesOf(c)
         /\ ~ After(Append(q, c), n, Len(q) + 1)
  <1>1. /\ Len(q) \in Nat
        /\ Len(Append(q, c)) = Len(q) + 1
        /\ Append(q, c)[Len(q) + 1] = c
        /\ \A i \in 1 .. Len(q) : Append(q, c)[i] = q[i]
    BY LenProperties, AppendProperties
  <1> DEFINE p == Append(q, c)
  <1> HIDE DEF p
  <1> QED
    BY <1>1 DEF After, p

LEMMA AfterTail ==
  ASSUME NEW q \in Seq(Change), q # <<>>, NEW n, NEW k \in 0 .. Len(q) - 1
  PROVE  /\ After(Tail(q), n, k) <=> After(q, n, k + 1)
         /\ After(q, n, 0) <=> n \in NamesOf(Head(q)) \/ After(Tail(q), n, 0)
  <1>1. /\ Len(q) \in Nat \ {0} /\ Len(Tail(q)) = Len(q) - 1 /\ Head(q) = q[1]
        /\ \A i \in 1 .. Len(q) - 1 : Tail(q)[i] = q[i + 1]
    BY HeadTailProperties, EmptySeq
  <1> DEFINE p == Tail(q)
             h == Head(q)
  <1> HIDE DEF p, h
  <1>2. ASSUME NEW j \in 0 .. Len(q) - 1 PROVE After(p, n, j) <=> After(q, n, j + 1)
    <2>1. ASSUME NEW i \in j + 1 .. Len(p), n \in NamesOf(p[i]) PROVE After(q, n, j + 1)
      <3>1. i + 1 \in j + 1 + 1 .. Len(q) /\ q[i + 1] = p[i]
        BY <1>1, <2>1 DEF p
      <3> QED
        BY <2>1, <3>1 DEF After
    <2>2. ASSUME NEW i \in j + 1 + 1 .. Len(q), n \in NamesOf(q[i]) PROVE After(p, n, j)
      <3>1. i - 1 \in j + 1 .. Len(p) /\ q[i] = p[i - 1]
        BY <1>1, <2>2 DEF p
      <3> QED
        BY <2>2, <3>1 DEF After
    <2> QED
      BY <2>1, <2>2 DEF After
  <1>3. After(q, n, 0) <=> n \in NamesOf(q[1]) \/ After(q, n, 1)
    BY <1>1 DEF After
  <1>4. After(p, n, 0) <=> After(q, n, 1)
    <2>1. 0 \in 0 .. Len(q) - 1
      BY <1>1
    <2> QED
      BY <1>2, <2>1
  <1> QED
    BY <1>1, <1>2, <1>3, <1>4 DEF p

-----------------------------------------------------------------------------
(* How Accounted goes on when a change is reported, ...                     *)
LEMMA AccountedReported ==
  ASSUME Accounted, Queue \in Seq(Change), NEW c \in Change, Queue' = Append(Queue, c),
         UNCHANGED rows, missed' = missed,
         \A n \in Names : IF n \in NamesOf(c) THEN Fits(fs', c, n) ELSE fs'[n] = fs[n]
  PROVE  Accounted'
  <1> SUFFICES ASSUME NEW n \in Names \ missed
               PROVE  /\ ~ After(Queue', n, 0) => InSync(n)'
                      /\ \A i \in DOMAIN Queue' :
                           n \in NamesOf(Queue'[i]) /\ ~ After(Queue', n, i) => Fits(fs', Queue'[i], n)
    BY DEF Accounted
  <1> DEFINE q == Queue
  <1>1. /\ ~ After(q, n, 0) => InSync(n)
        /\ \A i \in DOMAIN q : n \in NamesOf(q[i]) /\ ~ After(q, n, i) => Fits(fs, q[i], n)
    BY DEF Accounted
  <1> HIDE DEF q
  <1>2. q \in Seq(Change) /\ Queue' = Append(q, c)
    BY DEF q
  <1>3. /\ Len(q) \in Nat /\ DOMAIN q = 1 .. Len(q) /\ DOMAIN Queue' = 1 .. Len(q) + 1
        /\ Queue'[Len(q) + 1] = c /\ \A i \in 1 .. Len(q) : Queue'[i] = q[i]
    BY <1>2, LenProperties, AppendProperties
  <1>4. \A k \in 0 .. Len(q) : After(Queue', n, k) <=> After(q, n, k) \/ n \in NamesOf(c)
    BY <1>2, AfterGrows
  <1>5. CASE n \in NamesOf(c)
    <2>1. After(Queue', n, 0)
      BY <1>3, <1>4, <1>5
    <2>2. ASSUME NEW i \in DOMAIN Queue', ~ After(Queue', n, i) PROVE i = Len(q) + 1
      BY <1>3, <1>4, <1>5, <2>2
    <2>3. Fits(fs', c, n)
      BY <1>5
    <2> QED
      BY <1>3, <2>1, <2>2, <2>3
  <1>6. CASE n \notin NamesOf(c)
    <2>1. fs'[n] = fs[n]
      BY <1>6
    <2>2. InSync(n) => InSync(n)'
      BY <2>1 DEF InSync
    <2>3. ASSUME NEW i \in DOMAIN Queue', n \in NamesOf(Queue'[i]), ~ After(Queue', n, i)
          PROVE  Fits(fs', Queue'[i], n)
      <3>1. i \in 1 .. Len(q)
        BY <1>3, <1>6, <2>3
      <3>2. Queue'[i] = q[i] /\ ~ After(q, n, i)
        BY <1>3, <1>4, <1>6, <2>3, <3>1
      <3>3. Fits(fs, q[i], n)
        BY <1>1, <1>3, <2>3, <3>1, <3>2
      <3> QED
        BY <2>1, <3>2, <3>3 DEF Fits
    <2> QED
      BY <1>1, <1>3, <1>4, <1>6, <2>2, <2>3
  <1> QED
    BY <1>5, <1>6

(* ... when the first one waiting is applied, ...                           *)
LEMMA AccountedApplied ==
  ASSUME Accounted, Queue \in Seq(Change), Queue # <<>>, Queue' = Tail(Queue),
         UNCHANGED fs, missed \subseteq missed',
         \A n \in Names \ missed' :
           IF n \in NamesOf(Head(Queue))
           THEN ~ After(Queue', n, 0) /\ Fits(fs, Head(Queue), n) => InSync(n)'
           ELSE LiveAt(rows', n) = LiveAt(rows, n)
  PROVE  Accounted'
  <1> SUFFICES ASSUME NEW n \in Names \ missed'
               PROVE  /\ ~ After(Queue', n, 0) => InSync(n)'
                      /\ \A i \in DOMAIN Queue' :
                           n \in NamesOf(Queue'[i]) /\ ~ After(Queue', n, i) => Fits(fs', Queue'[i], n)
    BY DEF Accounted
  <1> DEFINE q == Queue
  <1>1. /\ ~ After(q, n, 0) => InSync(n)
        /\ \A i \in DOMAIN q : n \in NamesOf(q[i]) /\ ~ After(q, n, i) => Fits(fs, q[i], n)
    BY DEF Accounted
  <1> HIDE DEF q
  <1>2. q \in Seq(Change) /\ q # <<>> /\ Queue' = Tail(q) /\ Head(Queue) = Head(q)
    BY DEF q
  <1>3. /\ Len(q) \in Nat \ {0} /\ DOMAIN q = 1 .. Len(q) /\ DOMAIN Queue' = 1 .. Len(q) - 1
        /\ Head(q) = q[1] /\ \A i \in 1 .. Len(q) - 1 : Queue'[i] = q[i + 1]
    <2>1. /\ Len(q) \in Nat \ {0} /\ Tail(q) \in Seq(Change) /\ Len(Tail(q)) = Len(q) - 1
          /\ \A i \in 1 .. Len(q) - 1 : Tail(q)[i] = q[i + 1]
      BY <1>2, HeadTailProperties, EmptySeq
    <2>2. DOMAIN q = 1 .. Len(q) /\ DOMAIN Tail(q) = 1 .. Len(Tail(q))
      BY <1>2, <2>1, LenProperties
    <2>3. Head(q) = q[1]
      BY <1>2
    <2> QED
      BY <1>2, <2>1, <2>2, <2>3
  <1>4. \A k \in 0 .. Len(q) - 1 : After(Queue', n, k) <=> After(q, n, k + 1)
    BY <1>2, AfterTail
  <1>5. After(q, n, 0) <=> n \in NamesOf(q[1]) \/ After(Queue', n, 0)
    <2>1. 0 \in 0 .. Len(q) - 1
      BY <1>3
    <2>2. After(q, n, 0) <=> n \in NamesOf(Head(q)) \/ After(Tail(q), n, 0)
      BY <1>2, <2>1, AfterTail
    <2> QED
      BY <1>2, <1>3, <2>2
  <1>6. ASSUME NEW i \in DOMAIN Queue', n \in NamesOf(Queue'[i]), ~ After(Queue', n, i)
        PROVE  Fits(fs', Queue'[i], n)
    <2>1. i + 1 \in DOMAIN q /\ Queue'[i] = q[i + 1] /\ ~ After(q, n, i + 1)
      BY <1>3, <1>4, <1>6
    <2>2. Fits(fs, q[i + 1], n)
      BY <1>1, <1>6, <2>1
    <2> QED
      BY <2>1, <2>2 DEF Fits
  <1>7. ASSUME ~ After(Queue', n, 0) PROVE InSync(n)'
    <2>1. CASE n \in NamesOf(q[1])
      <3>1. ~ After(q, n, 1) /\ 1 \in DOMAIN q
        BY <1>3, <1>4, <1>7
      <3>2. Fits(fs, q[1], n)
        BY <1>1, <2>1, <3>1
      <3> QED
        BY <1>2, <1>3, <1>7, <2>1, <3>2
    <2>2. CASE n \notin NamesOf(q[1])
      <3>1. InSync(n) /\ LiveAt(rows', n) = LiveAt(rows, n)
        BY <1>1, <1>2, <1>3, <1>5, <1>7, <2>2
      <3> QED
        BY <3>1 DEF InSync
    <2> QED
      BY <2>1, <2>2
  <1> QED
    BY <1>6, <1>7

(* ... when a statement is made on the way, ...                              *)
LEMMA AccountedSame ==
  ASSUME Accounted, Queue \in Seq(Change), UNCHANGED fs, Queue' = Queue,
         \A n \in Names \ missed' :
           /\ n \in missed => InSync(n)' /\ ~ After(Queue, n, 0)
           /\ n \notin missed /\ ~ After(Queue, n, 0) /\ InSync(n) => InSync(n)'
  PROVE  Accounted'
  <1> DEFINE q == Queue
  <1>1. Len(q) \in Nat /\ DOMAIN q = 1 .. Len(q)
    BY LenProperties
  <1>2. \A n \in Names \ missed :
          /\ ~ After(q, n, 0) => InSync(n)
          /\ \A i \in DOMAIN q : n \in NamesOf(q[i]) /\ ~ After(q, n, i) => Fits(fs, q[i], n)
    BY DEF Accounted
  <1> HIDE DEF q
  <1>3. ASSUME NEW n \in Names \ missed' PROVE ~ After(q, n, 0) => InSync(n)'
    BY <1>2, <1>3 DEF q
  <1>4. ASSUME NEW n \in Names \ missed', NEW i \in DOMAIN q, n \in NamesOf(q[i]), ~ After(q, n, i)
        PROVE  Fits(fs', q[i], n)
    <2>1. After(q, n, 0)
      BY <1>1, <1>4 DEF After
    <2>2. n \notin missed
      BY <2>1 DEF q
    <2>3. Fits(fs, q[i], n)
      BY <1>2, <1>4, <2>2
    <2>4. q' = q
      BY DEF q
    <2> QED
      BY <2>3, <2>4 DEF Fits
  <1>5. Queue' = q
    BY DEF q
  <1>6. q' = q
    BY DEF q
  <1> QED
    BY <1>3, <1>4, <1>5, <1>6 DEF Accounted

(* ... and when some are lost.                                               *)
LEMMA AccountedLost ==
  ASSUME Accounted, UNCHANGED <<fs, rows>>,
         \A n \in Names \ missed' :
           /\ n \notin missed
           /\ After(Queue, n, 0) => After(Queue', n, 0)
           /\ \A i \in DOMAIN Queue' :
                n \in NamesOf(Queue'[i]) /\ ~ After(Queue', n, i) =>
                  \E j \in DOMAIN Queue : Queue[j] = Queue'[i] /\ ~ After(Queue, n, j)
  PROVE  Accounted'
  <1> SUFFICES ASSUME NEW n \in Names \ missed'
               PROVE  /\ ~ After(Queue', n, 0) => InSync(n)'
                      /\ \A i \in DOMAIN Queue' :
                           n \in NamesOf(Queue'[i]) /\ ~ After(Queue', n, i) => Fits(fs', Queue'[i], n)
    BY DEF Accounted
  <1>1. InSync(n)' = InSync(n)
    BY DEF InSync
  <1>2. ASSUME NEW i \in DOMAIN Queue', n \in NamesOf(Queue'[i]), ~ After(Queue', n, i)
        PROVE  Fits(fs', Queue'[i], n)
    <2>1. PICK j \in DOMAIN Queue : Queue[j] = Queue'[i] /\ ~ After(Queue, n, j)
      BY <1>2
    <2>2. Fits(fs, Queue[j], n)
      BY <1>2, <2>1 DEF Accounted
    <2> QED
      BY <2>1, <2>2 DEF Fits
  <1> QED
    BY <1>1, <1>2 DEF Accounted

-----------------------------------------------------------------------------
(* What the users do is what it is called.                                  *)
LEMMA EditsNowFit ==
  ASSUME TypeOK, NEW e \in EditsNow, NEW n \in Names
  PROVE  IF n \in NamesOf(e.change) THEN Fits(e.fs, e.change, n) ELSE e.fs[n] = fs[n]
  <1> USE DEF NamesOf, Fits, Touched, Removed, Renamed
  <1>a. \A m \in Names : \A new : LET f == [fs EXCEPT ![m] = new] IN
          f[m] = new /\ \A l \in Names \ {m} : f[l] = fs[l]
    BY DEF TypeOK
  <1>1. PICK m \in Names : \/ e \in Creations(m)
                           \/ e \in Modifications(m)
                           \/ e \in Deletions(m)
                           \/ e \in Moves(m)
    BY DEF EditsNow
  <1>2. CASE e \in Creations(m)
    <2>1. PICK s \in Stamps :
            e = Edit([fs EXCEPT ![m] = [file |-> edits + 1, stamp |-> s]], Touched(m))
      BY <1>2 DEF Creations
    <2>2. e.fs = [fs EXCEPT ![m] = [file |-> edits + 1, stamp |-> s]] /\ e.change = Touched(m)
      BY <2>1 DEF Edit
    <2>3. \A l \in Names \ {m} : e.fs[l] = fs[l]
      BY <1>a, <2>2
    <2> QED
      BY <2>2, <2>3
  <1>3. CASE e \in Modifications(m)
    <2>1. PICK s \in Stamps :
            e = Edit([fs EXCEPT ![m] = [file |-> fs[m].file, stamp |-> s]], Touched(m))
      BY <1>3 DEF Modifications
    <2>2. e.fs = [fs EXCEPT ![m] = [file |-> fs[m].file, stamp |-> s]] /\ e.change = Touched(m)
      BY <2>1 DEF Edit
    <2>3. \A l \in Names \ {m} : e.fs[l] = fs[l]
      BY <1>a, <2>2
    <2> QED
      BY <2>2, <2>3
  <1>4. CASE e \in Deletions(m)
    <2>1. e.fs = [fs EXCEPT ![m] = Absent] /\ e.change = Removed(m)
      BY <1>4 DEF Deletions, Edit
    <2>2. e.fs[m] = Absent /\ \A l \in Names \ {m} : e.fs[l] = fs[l]
      BY <1>a, <2>1
    <2> QED
      BY <2>1, <2>2
  <1>5. CASE e \in Moves(m)
    <2>1. PICK to \in Names \ {m} :
            e = Edit([fs EXCEPT ![to] = fs[m], ![m] = Absent], Renamed(m, to))
      BY <1>5 DEF Moves
    <2>2. fs[m] # Absent
      BY <1>5 DEF Moves
    <2>3. e.fs = [fs EXCEPT ![to] = fs[m], ![m] = Absent] /\ e.change = Renamed(m, to)
      BY <2>1 DEF Edit
    <2>4. e.fs[to] = fs[m] /\ e.fs[m] = Absent /\ \A l \in Names \ {m, to} : e.fs[l] = fs[l]
      BY <2>3 DEF TypeOK
    <2>5. /\ e.change.kind = "renamed" /\ e.change.from = m /\ e.change.to = to
          /\ NamesOf(e.change) = {m, to}
      BY <2>3
    <2> QED
      BY <2>2, <2>4, <2>5
  <1> QED
    BY <1>1, <1>2, <1>3, <1>4, <1>5

LEMMA UsersMirror ==
  ASSUME TypeOK, MirrorInv, Users
  PROVE  MirrorInv'
  <1>1. PICK e \in EditsNow :
          /\ ChangeFiles(e)
          /\ \/ inbox' = Append(inbox, e.change) /\ UNCHANGED missed
             \/ missed' = missed \cup NamesOf(e.change) /\ UNCHANGED inbox
    BY DEF Users, Lose
  <1>2. fs' = e.fs /\ UNCHANGED <<rows, due, moving>> /\ edits < MaxEdits
    BY <1>1 DEF ChangeFiles, store, handler
  <1>3. MoveInv'
    BY <1>2 DEF MirrorInv, MoveInv
  <1>4. e.change \in Change
    BY <1>2, EditsNowType DEF Change
  <1>5. \A n \in Names : IF n \in NamesOf(e.change) THEN Fits(fs', e.change, n) ELSE fs'[n] = fs[n]
    BY <1>2, EditsNowFit
  <1>6. Queue \in Seq(Change)
    BY QueueIs DEF MirrorInv
  <1>7. CASE inbox' = Append(inbox, e.change) /\ UNCHANGED missed
    <2>1. Queue' = Append(Queue, e.change)
      BY <1>2, <1>4, <1>7, QueueGrows DEF MirrorInv
    <2> QED
      BY <1>2, <1>3, <1>4, <1>5, <1>6, <1>7, <2>1, AccountedReported DEF MirrorInv
  <1>8. CASE missed' = missed \cup NamesOf(e.change) /\ UNCHANGED inbox
    <2>1. \A n \in Names \ missed' : n \notin missed /\ fs'[n] = fs[n]
      BY <1>5, <1>8
    <2>2. Queue' = Queue
      BY <1>2, <1>8, QueueSame
    <2>3. Accounted'
      BY <1>2, <2>1, <2>2 DEF MirrorInv, Accounted, Fits, InSync
    <2> QED
      BY <1>3, <2>3 DEF MirrorInv
  <1> QED
    BY <1>1, <1>7, <1>8

LEMMA ScanMirror ==
  ASSUME TypeOK, RecorderInv, MirrorInv, NEW n \in Names, ScanEntry(n)
  PROVE  MirrorInv'
  <1>1. moving = None /\ due = None
    BY DEF ScanEntry, ScanEntryBefore, RecorderInv, MovingInv, HandlerInv
  <1>2. UNCHANGED <<fs, inbox, moving>>
        /\ missed' = IF InSync(n)' /\ n \notin Mentioned(inbox) THEN missed \ {n} ELSE missed
    BY DEF ScanEntry, ScanEntryBefore, disk, handler
  <1>3. MoveInv'
    BY <1>1, <1>2 DEF MoveInv
  <1>4. Queue = inbox /\ Queue \in Seq(Change)
    BY <1>1, QueueIs DEF MirrorInv
  <1>5. n \notin Mentioned(inbox) => ~ After(Queue, n, 0)
    BY <1>4, LenProperties DEF After, Mentioned
  <1>6. Queue' = Queue
    BY <1>2, QueueSame
  <1>7. (fs[n] # Absent => InSync(n)') /\ (fs[n] = Absent => UNCHANGED rows)
        /\ \A m \in Names \ {n} : LiveAt(rows', m) = LiveAt(rows, m)
    <2>1. CASE fs[n] = Absent
      BY <2>1 DEF ScanEntry, ScanEntryBefore, store
    <2>2. CASE fs[n] # Absent
      <3>1. fs[n].stamp \in Stamps /\ rows' = Upsert(rows, n, fs[n].stamp)
        BY <2>2 DEF TypeOK, ScanEntry, ScanEntryBefore
      <3>2. /\ LiveAt(rows', n) = {UpsertId(rows, n)}
            /\ \A m \in Names \ {n} : Same(m)
        BY <3>1, UpsertAt DEF RecorderInv
      <3>3. \A m \in Names \ {n} : LiveAt(rows', m) = LiveAt(rows, m)
        BY <3>2, SameFinds
      <3> QED
        BY <1>2, <2>2, <3>2, <3>3 DEF InSync
    <2> QED
      BY <2>1, <2>2
  <1>8. ASSUME NEW m \in Names \ missed', m \in missed PROVE InSync(m)' /\ ~ After(Queue, m, 0)
    <2>1. m = n /\ InSync(n)' /\ n \notin Mentioned(inbox)
      BY <1>2, <1>8
    <2> QED
      BY <1>5, <2>1
  <1>9. ASSUME NEW m \in Names, InSync(m) PROVE InSync(m)'
    BY <1>2, <1>7, <1>9 DEF InSync
  <1>10. Accounted'
    BY <1>2, <1>4, <1>6, <1>8, <1>9, AccountedSame DEF MirrorInv
  <1> QED
    BY <1>3, <1>10 DEF MirrorInv

(* A change is taken up: touched, removed, or renamed.                       *)
LEMMA TakeMirror ==
  ASSUME TypeOK, RecorderInv, MirrorInv, ApplyTouched \/ ApplyRemoved \/ ApplyRenamed
  PROVE  MirrorInv'
  <1> DEFINE c == Head(inbox)
  <1>1. /\ due = None /\ moving = None /\ inbox # <<>> /\ inbox' = Tail(inbox)
        /\ UNCHANGED <<fs, missed>> /\ c.kind \in {"touched", "removed", "renamed"}
    BY DEF ApplyTouched, ApplyRemoved, ApplyRenamed, Take, Idle, disk, history
  <1>2. c \in Change
    BY <1>1, HeadTailProperties DEF TypeOK
  <1>3. /\ c.from \in Names /\ c.to \in Names /\ NamesOf(c) = {c.from, c.to}
        /\ c.kind \in {"touched", "removed"} => c.from = c.to
        /\ c.kind = "renamed" => c.from # c.to /\ c = Renamed(c.from, c.to)
    BY <1>1, <1>2 DEF Change, FileChange, Touched, Removed, Renamed, Overflowed, NamesOf
  <1>4. Queue = inbox /\ Queue \in Seq(Change)
    BY <1>1, QueueIs DEF MirrorInv
  <1>5. ASSUME moving' = None,
               \A n \in Names :
                 IF n \in NamesOf(c)
                 THEN ~ After(Queue', n, 0) /\ Fits(fs, c, n) => InSync(n)'
                 ELSE LiveAt(rows', n) = LiveAt(rows, n)
        PROVE  MirrorInv'
    <2>1. Queue # <<>> /\ Queue' = Tail(Queue) /\ Head(Queue) = c
      BY <1>1, <1>4, <1>5, QueueTaken DEF MirrorInv
    <2>2. missed \subseteq missed'
      BY <1>1
    <2> HIDE DEF c
    <2>3. \A n \in Names \ missed' :
            IF n \in NamesOf(Head(Queue))
            THEN ~ After(Queue', n, 0) /\ Fits(fs, Head(Queue), n) => InSync(n)'
            ELSE LiveAt(rows', n) = LiveAt(rows, n)
      BY <1>5, <2>1
    <2>4. Accounted'
      BY <1>1, <1>4, <2>1, <2>2, <2>3, AccountedApplied DEF MirrorInv
    <2> QED
      BY <1>5, <2>4 DEF MirrorInv, MoveInv
  <1>6. ASSUME NEW n \in Names, NamesOf(c) = {n}, moving' = None, RecordPath(n)
        PROVE  MirrorInv'
    <2>1. (LiveAt(rows', n) = {}) = (fs[n] = Absent) /\ \A m \in Names \ {n} : Same(m)
      BY <1>6, RecordPathAt DEF RecorderInv
    <2>2. \A m \in Names \ {n} : LiveAt(rows', m) = LiveAt(rows, m)
      BY <2>1, SameFinds
    <2>3. InSync(n)'
      BY <1>1, <2>1 DEF InSync
    <2> QED
      BY <1>5, <1>6, <2>2, <2>3
  <1>7. CASE ApplyTouched
    BY <1>1, <1>3, <1>6, <1>7 DEF ApplyTouched, Take
  <1>a. PICK from \in Names : from = c.from
    BY <1>3
  <1>b. PICK to \in Names : to = c.to
    BY <1>3
  <1>8. CASE ApplyRemoved
    <2>1. c.kind = "removed" /\ RecordRemoval(to) /\ moving' = None
      BY <1>1, <1>8, <1>b DEF ApplyRemoved, Take
    <2>2. LiveAt(rows', to) = {} /\ \A m \in Names \ {to} : Same(m)
      BY <1>3, <1>a, <1>b, <2>1, RecordRemovalAt DEF RecorderInv
    <2>3. \A m \in Names \ {to} : LiveAt(rows', m) = LiveAt(rows, m)
      BY <2>2, SameFinds
    <2>4. Fits(fs, c, to) => InSync(to)'
      BY <1>1, <1>3, <1>a, <1>b, <2>1, <2>2 DEF Fits, InSync
    <2> HIDE DEF c
    <2> QED
      BY <1>3, <1>a, <1>b, <1>5, <2>1, <2>3, <2>4
  <1>9. CASE ApplyRenamed
    <2>1. c.kind = "renamed"
      BY <1>9 DEF ApplyRenamed, Take
    <2>2. CASE ~ IsKnown(from)
      <3>1. RecordPath(to) /\ moving' = None
        BY <1>1, <1>9, <1>a, <1>b, <2>2 DEF ApplyRenamed
      <3>2. (LiveAt(rows', to) = {}) = (fs[to] = Absent) /\ \A m \in Names \ {to} : Same(m)
        BY <1>3, <1>a, <1>b, <3>1, RecordPathAt DEF RecorderInv
      <3>3. \A m \in Names \ {to} : LiveAt(rows', m) = LiveAt(rows, m)
        BY <3>2, SameFinds
      <3>4. InSync(to)'
        BY <1>1, <3>2 DEF InSync
      <3>5. LiveAt(rows', from) = {}
        BY <1>3, <1>a, <1>b, <2>1, <2>2, <3>3 DEF IsKnown, LiveAt
      <3>6. Fits(fs, c, from) => InSync(from)'
        BY <1>1, <1>a, <1>b, <1>3, <2>1, <3>5 DEF Fits, InSync
      <3> HIDE DEF c
      <3> QED
        BY <1>3, <1>a, <1>b, <1>5, <2>1, <3>1, <3>3, <3>4, <3>6
    <2>3. CASE IsKnown(from)
      <3>1. /\ Displace(FoundAt(rows, from), to)
            /\ moving' = [row |-> FoundAt(rows, from), from |-> from, to |-> to]
        BY <1>9, <1>a, <1>b, <2>3 DEF ApplyRenamed
      <3> DEFINE r == FoundAt(rows, from)
      <3>2. r \in DOMAIN rows
        BY <1>3, <1>a, <1>b, <2>3, FoundAtIsThere DEF IsKnown, TypeOK, RowsAt
      <3>3. r \in Nat \ {0}
        BY <3>2, TableType DEF TypeOK
      <3>4. moving' \in Move /\ moving'.row = r /\ moving'.from = from /\ moving'.to = to
        BY <1>3, <1>a, <1>b, <3>1, <3>3 DEF Move
      <3>5. moving' # None
        BY <3>4, NoneAssumption
      <3>6. Queue' = Queue
        BY <1>1, <1>3, <1>a, <1>b, <2>1, <3>4, <3>5, QueueMoves DEF MirrorInv
      <3>7. \A m \in Names \ {to} : Same(m)
        BY <1>3, <1>a, <1>b, <3>1, DisplaceAt
      <3>8. MoveInv'
        <4>1. RowsAt(rows', from) = RowsAt(rows, from) /\ FoundAt(rows', from) = r
          BY <1>3, <1>a, <1>b, <2>1, <3>7, SameFinds DEF Same
        <4> QED
          BY <1>3, <1>a, <1>b, <2>1, <2>3, <3>4, <4>1 DEF MoveInv, IsKnown
      <3>9. After(Queue, to, 0)
        <4>1. 1 \in 1 .. Len(Queue) /\ Queue[1] = c
          BY <1>1, <1>4, EmptySeq
        <4> QED
          BY <1>3, <1>a, <1>b, <4>1 DEF After
      <3>10. ASSUME NEW n \in Names \ missed', ~ After(Queue, n, 0), InSync(n) PROVE InSync(n)'
        <4>1. LiveAt(rows', n) = LiveAt(rows, n)
          BY <3>7, <3>9, <3>10, SameFinds
        <4> QED
          BY <1>1, <3>10, <4>1 DEF InSync
      <3>11. Accounted'
        BY <1>1, <1>4, <3>6, <3>10, AccountedSame DEF MirrorInv
      <3> QED
        BY <3>8, <3>11 DEF MirrorInv
    <2> QED
      BY <2>2, <2>3
  <1> QED
    BY <1>7, <1>8, <1>9

LEMMA MoveMirror ==
  ASSUME TypeOK, RecorderInv, MirrorInv, MoveRow
  PROVE  MirrorInv'
  <1>1. moving # None /\ moving' = None /\ UNCHANGED <<fs, inbox, missed>>
    BY DEF MoveRow, disk, history
  <1>2. /\ Queue \in Seq(Change) /\ Queue # <<>> /\ Queue' = Tail(Queue)
        /\ Head(Queue) = Renamed(moving.from, moving.to)
        /\ moving.from \in Names /\ moving.to \in Names /\ moving.from # moving.to
    BY <1>1, QueueIs, QueueMoved DEF MirrorInv, MoveInv
  <1>3. PICK from \in Names : from = moving.from
    BY <1>2
  <1>4. PICK to \in Names : to = moving.to
    BY <1>2
  <1>5. PICK c \in Change : c = Head(Queue)
    BY <1>2, HeadTailProperties
  <1>6. /\ c.kind = "renamed" /\ c.from = from /\ c.to = to
        /\ NamesOf(c) = {from, to} /\ from # to
    BY <1>2, <1>3, <1>4, <1>5 DEF NamesOf, Renamed
  <1>7. /\ LiveAt(rows', from) = {} /\ LiveAt(rows', to) # {}
        /\ \A m \in Names \ {from, to} : LiveAt(rows', m) = LiveAt(rows, m)
    BY <1>3, <1>4, MoveRowAt, SameFinds DEF MirrorInv
  <1>8. Fits(fs, c, from) => InSync(from)'
    BY <1>1, <1>6, <1>7 DEF Fits, InSync
  <1>9. Fits(fs, c, to) => InSync(to)'
    BY <1>1, <1>6, <1>7 DEF Fits, InSync
  <1>10. \A n \in Names \ missed' :
          IF n \in NamesOf(Head(Queue))
          THEN ~ After(Queue', n, 0) /\ Fits(fs, Head(Queue), n) => InSync(n)'
          ELSE LiveAt(rows', n) = LiveAt(rows, n)
    BY <1>5, <1>6, <1>7, <1>8, <1>9
  <1>11. missed \subseteq missed'
    BY <1>1
  <1>12. Accounted'
    BY <1>1, <1>2, <1>10, <1>11, AccountedApplied DEF MirrorInv
  <1> QED
    BY <1>1, <1>12 DEF MirrorInv, MoveInv

(* A handler that stops, or a change that cannot be applied.                 *)
LEMMA FailMirror ==
  ASSUME TypeOK, MirrorInv, HandlerFails
  PROVE  MirrorInv'
  <1>1. UNCHANGED <<fs, rows>> /\ Queue \in Seq(Change)
    BY QueueIs DEF HandlerFails, disk, store, MirrorInv
  <1>2. ASSUME NEW c \in Change, Queue # <<>>, Head(Queue) = c, Queue' = Tail(Queue), moving' = None,
               missed' = missed \cup NamesOf(c)
        PROVE  MirrorInv'
    <2>1. Accounted'
      BY <1>1, <1>2, AccountedApplied DEF MirrorInv
    <2> QED
      BY <1>2, <2>1 DEF MirrorInv, MoveInv
  <1>3. CASE StopHandler /\ Lose(MovingNames) /\ UNCHANGED inbox
    <2>1. moving' = None /\ missed' = missed \cup MovingNames
      BY <1>3 DEF StopHandler, Lose
    <2>2. CASE moving = None
      <3>1. Queue' = Queue /\ missed' = missed
        BY <1>3, <2>1, <2>2, QueueSame DEF MovingNames
      <3> QED
        BY <1>1, <2>1, <3>1, AccountedSame DEF MirrorInv, MoveInv, InSync
    <2>3. CASE moving # None
      <3> DEFINE c == Renamed(moving.from, moving.to)
      <3>1. c \in Change /\ Queue # <<>> /\ Head(Queue) = c /\ Queue' = Tail(Queue)
            /\ moving.from \in Names /\ moving.to \in Names
        BY <1>3, <2>1, <2>3, QueueIs, QueueMoved DEF MirrorInv
      <3>2. MovingNames = NamesOf(c)
        BY <2>3, <3>1 DEF MovingNames, NamesOf, Renamed
      <3> HIDE DEF c
      <3> QED
        BY <1>2, <2>1, <3>1, <3>2
    <2> QED
      BY <2>2, <2>3
  <1>4. CASE Idle /\ inbox # <<>> /\ inbox' = Tail(inbox) /\ Lose(NamesOf(Head(inbox)))
             /\ UNCHANGED handler
    <2>1. moving = None /\ moving' = None /\ missed' = missed \cup NamesOf(Head(inbox))
      BY <1>4 DEF Idle, handler, Lose
    <2>2. Queue # <<>> /\ Head(Queue) = Head(inbox) /\ Queue' = Tail(Queue)
      BY <1>4, <2>1, QueueTaken DEF MirrorInv
    <2>3. Head(Queue) \in Change
      BY <1>1, <2>2, HeadTailProperties
    <2> QED
      BY <1>2, <2>1, <2>2, <2>3
  <1> QED
    BY <1>3, <1>4 DEF HandlerFails

LEMMA CrashMirror ==
  ASSUME TypeOK, MirrorInv, Crash
  PROVE  MirrorInv'
  <1>1. /\ UNCHANGED <<fs, rows>> /\ inbox' = <<>> /\ moving' = None
        /\ missed' = missed \cup (MovingNames \cup Mentioned(inbox))
    BY DEF Crash, CrashLosing, disk, store, StopHandler, Lose
  <1>2. Queue' = <<>>
    BY <1>1, EmptySeq, ConcatEmptySeq DEF Queue
  <1>3. ASSUME NEW n \in Names, After(Queue, n, 0) PROVE n \in MovingNames \cup Mentioned(inbox)
    <2>1. PICK i \in 1 .. Len(Queue) : n \in NamesOf(Queue[i])
      BY <1>3 DEF After
    <2>2. inbox \in Seq(Change) /\ DOMAIN inbox = 1 .. Len(inbox) /\ Len(inbox) \in Nat
      BY LenProperties DEF TypeOK
    <2>3. CASE moving = None
      <3>1. Queue = inbox
        BY <2>3, QueueIs DEF MirrorInv
      <3> QED
        BY <2>1, <2>2, <3>1 DEF Mentioned
    <2>4. CASE moving # None
      <3> DEFINE c == Renamed(moving.from, moving.to)
      <3>1. c \in Change /\ Queue = <<c>> \o inbox /\ Len(Queue) = Len(inbox) + 1
        BY <2>4, QueueIs DEF MirrorInv
      <3>2. NamesOf(c) \subseteq MovingNames
        BY <2>4 DEF NamesOf, Renamed, MovingNames
      <3> HIDE DEF c
      <3>3. i = 1 => Queue[i] = c
        BY <2>2, <3>1
      <3>4. i # 1 => i - 1 \in DOMAIN inbox /\ Queue[i] = inbox[i - 1]
        BY <2>1, <2>2, <3>1
      <3> QED
        BY <2>1, <3>2, <3>3, <3>4 DEF Mentioned
    <2> QED
      BY <2>3, <2>4
  <1>4. Accounted'
    <2>1. DOMAIN Queue' = {} /\ \A n : ~ After(Queue', n, 0)
      BY <1>2, EmptySeq DEF After
    <2> QED
      BY <1>1, <1>3, <2>1, AccountedLost DEF MirrorInv
  <1> QED
    BY <1>1, <1>4 DEF MirrorInv, MoveInv

LEMMA OverflowMirror ==
  ASSUME TypeOK, MirrorInv, Overflow
  PROVE  MirrorInv'
  <1>1. PICK k \in 0 .. Len(inbox) - 1 :
          /\ inbox' = <<Overflowed>> \o SubSeq(inbox, 1, k)
          /\ missed' = missed \cup Mentioned(SubSeq(inbox, k + 1, Len(inbox)))
    BY DEF Overflow, Lose
  <1>2. UNCHANGED <<fs, rows, moving>>
    BY DEF Overflow, disk, store, handler
  <1>3. inbox \in Seq(Change) /\ DOMAIN inbox = 1 .. Len(inbox) /\ Len(inbox) \in Nat
    BY LenProperties DEF TypeOK
  <1>4. \A i \in 1 .. Len(inbox) : inbox[i] \in Change
    BY <1>3, ElementOfSeq
  <1> DEFINE kept == SubSeq(inbox, 1, k)
             lost == SubSeq(inbox, k + 1, Len(inbox))
             new == <<Overflowed>> \o kept
             first == IF moving = None THEN <<>> ELSE <<Renamed(moving.from, moving.to)>>
             l == IF moving = None THEN 0 ELSE 1
  <1>5. /\ kept \in Seq(Change) /\ Len(kept) = k /\ \A i \in 1 .. k : kept[i] = inbox[i]
    BY <1>3, <1>4, SubSeqProperties
  <1>6. /\ Len(lost) = Len(inbox) - k /\ DOMAIN lost = 1 .. Len(inbox) - k
        /\ \A i \in 1 .. Len(inbox) - k : lost[i] = inbox[k + i]
    <2>1. k + 1 \in Int /\ Len(inbox) \in Int /\ \A i \in k + 1 .. Len(inbox) : inbox[i] \in Change
      BY <1>3, <1>4
    <2>2. /\ lost \in Seq(Change) /\ Len(lost) = Len(inbox) - k
          /\ \A i \in 1 .. Len(inbox) - (k + 1) + 1 : lost[i] = inbox[k + 1 + i - 1]
      BY <1>3, <2>1, SubSeqProperties
    <2>3. DOMAIN lost = 1 .. Len(lost)
      BY <2>2, LenProperties
    <2> HIDE DEF lost
    <2> QED
      BY <1>3, <2>2, <2>3
  <1>7. Overflowed \in Change /\ NamesOf(Overflowed) = {}
    BY ChangesAssumption DEF Change, NamesOf, Overflowed
  <1>8. /\ new \in Seq(Change) /\ Len(new) = k + 1 /\ new[1] = Overflowed
        /\ \A i \in 1 .. k : new[i + 1] = inbox[i]
    <2>1. <<Overflowed>> \in Seq(Change) /\ Len(<<Overflowed>>) = 1 /\ <<Overflowed>>[1] = Overflowed
      BY <1>7
    <2> HIDE DEF kept
    <2>2. /\ new \in Seq(Change) /\ Len(new) = 1 + k
          /\ \A i \in 1 .. 1 + k : new[i] = IF i <= 1 THEN <<Overflowed>>[i] ELSE kept[i - 1]
      BY <1>5, <2>1, ConcatProperties
    <2> HIDE DEF new
    <2> QED
      BY <1>5, <2>1, <2>2
  <1>9. first \in Seq(Change) /\ Len(first) = l
    BY QueueIs, EmptySeq DEF MirrorInv
  <1>10. Queue = first \o inbox /\ Queue' = first \o new
    BY <1>1, <1>2 DEF Queue
  <1>12. l \in {0, 1} /\ k \in Nat /\ k <= Len(inbox) - 1
    BY <1>3
  <1> HIDE DEF kept, lost, new, first, l
  <1>11. /\ Len(Queue) = l + Len(inbox) /\ DOMAIN Queue = 1 .. l + Len(inbox)
         /\ \A i \in 1 .. l + Len(inbox) : Queue[i] = IF i <= l THEN first[i] ELSE inbox[i - l]
         /\ Len(Queue') = l + k + 1 /\ DOMAIN Queue' = 1 .. l + k + 1
         /\ \A i \in 1 .. l + k + 1 : Queue'[i] = IF i <= l THEN first[i] ELSE new[i - l]
    <2>1. first \o inbox \in Seq(Change) /\ first \o new \in Seq(Change)
      BY <1>3, <1>8, <1>9, ConcatProperties
    <2>2. DOMAIN Queue = 1 .. Len(Queue) /\ DOMAIN Queue' = 1 .. Len(Queue')
      BY <1>10, <2>1, LenProperties
    <2>3. /\ Len(Queue) = l + Len(inbox)
          /\ \A i \in 1 .. l + Len(inbox) : Queue[i] = IF i <= l THEN first[i] ELSE inbox[i - l]
      <3>1. /\ Len(Queue) = Len(first) + Len(inbox)
            /\ \A i \in 1 .. Len(first) + Len(inbox) :
                 Queue[i] = IF i <= Len(first) THEN first[i] ELSE inbox[i - Len(first)]
        BY <1>3, <1>9, <1>10, ConcatProperties
      <3> QED
        BY <1>9, <3>1
    <2>4. /\ Len(Queue') = l + (k + 1)
          /\ \A i \in 1 .. l + (k + 1) : Queue'[i] = IF i <= l THEN first[i] ELSE new[i - l]
      <3>1. /\ Len(Queue') = Len(first) + Len(new)
            /\ \A i \in 1 .. Len(first) + Len(new) :
                 Queue'[i] = IF i <= Len(first) THEN first[i] ELSE new[i - Len(first)]
        BY <1>8, <1>9, <1>10, ConcatProperties
      <3>2. Len(first) = l /\ Len(first) + Len(new) = l + (k + 1)
        BY <1>8, <1>9
      <3> HIDE DEF first, new
      <3> QED
        BY <3>1, <3>2
    <2> QED
      BY <1>12, <2>2, <2>3, <2>4
  (* What is kept stays where it was, one place further behind the overflow.  *)
  <1>13. \A i \in 1 .. l + k : Queue'[IF i <= l THEN i ELSE i + 1] = Queue[i]
    <2> SUFFICES ASSUME NEW i \in 1 .. l + k
                 PROVE  Queue'[IF i <= l THEN i ELSE i + 1] = Queue[i]
      OBVIOUS
    <2>1. CASE i <= l
      <3>1. i \in 1 .. l + Len(inbox) /\ i \in 1 .. l + k + 1
        BY <1>3, <1>12, <2>1
      <3>2. Queue[i] = first[i] /\ Queue'[i] = first[i]
        BY <1>11, <2>1, <3>1
      <3> QED
        BY <2>1, <3>2
    <2>2. CASE ~ (i <= l)
      <3>1. Queue[i] = inbox[i - l] /\ Queue'[i + 1] = new[i + 1 - l]
        BY <1>3, <1>11, <1>12, <2>2
      <3>2. i - l \in 1 .. k /\ (i - l) + 1 = i + 1 - l
        BY <1>12, <2>2
      <3> QED
        BY <1>8, <2>2, <3>1, <3>2
    <2> QED
      BY <2>1, <2>2
  <1>14. Queue'[l + 1] = Overflowed
    <2>1. l + 1 \in 1 .. l + k + 1
      BY <1>12
    <2>2. PICK o \in 1 .. l + k + 1 : o = l + 1
      BY <2>1
    <2>3. Queue'[o] = new[o - l] /\ o - l = 1
      BY <1>11, <1>12, <2>2
    <2> QED
      BY <1>8, <2>2, <2>3
  <1>15. ASSUME NEW n \in Names, n \notin missed', NEW i \in l + k + 1 .. l + Len(inbox)
         PROVE  n \notin NamesOf(Queue[i])
    <2>1. i - l - k \in 1 .. Len(inbox) - k /\ Queue[i] = inbox[i - l]
      BY <1>3, <1>11, <1>12
    <2>2. lost[i - l - k] = inbox[i - l] /\ i - l - k \in DOMAIN lost
      BY <1>3, <1>6, <1>12, <2>1
    <2>3. n \notin NamesOf(lost[i - l - k])
      BY <1>1, <1>15, <2>2 DEF Mentioned, lost
    <2> QED
      BY <2>1, <2>2, <2>3
  <1>16. ASSUME NEW n \in Names, n \notin missed', After(Queue, n, 0) PROVE After(Queue', n, 0)
    <2>1. PICK i \in 1 .. l + Len(inbox) : n \in NamesOf(Queue[i])
      BY <1>11, <1>16 DEF After
    <2>2. i \in 1 .. l + k
      BY <1>3, <1>12, <1>15, <1>16, <2>1
    <2>3. (IF i <= l THEN i ELSE i + 1) \in 0 + 1 .. Len(Queue')
      BY <1>11, <1>12, <2>2
    <2> QED
      BY <1>13, <2>1, <2>2, <2>3 DEF After
  <1>17. ASSUME NEW n \in Names, n \notin missed', NEW i \in DOMAIN Queue',
                n \in NamesOf(Queue'[i]), ~ After(Queue', n, i)
         PROVE  \E j \in DOMAIN Queue : Queue[j] = Queue'[i] /\ ~ After(Queue, n, j)
    <2> DEFINE j == IF i <= l THEN i ELSE i - 1
    <2>1. i # l + 1 /\ i \in 1 .. l + k + 1
      BY <1>7, <1>11, <1>14, <1>17
    <2>2. j \in 1 .. l + k /\ i = IF j <= l THEN j ELSE j + 1
      BY <1>12, <2>1
    <2>3. Queue[j] = Queue'[i] /\ j \in DOMAIN Queue
      <3> HIDE DEF j
      <3>1. j \in 1 .. l + Len(inbox)
        BY <1>3, <1>12, <2>2
      <3> QED
        BY <1>11, <1>13, <2>2, <3>1
    <2>4. ASSUME After(Queue, n, j) PROVE FALSE
      <3>1. PICK m \in j + 1 .. l + Len(inbox) : n \in NamesOf(Queue[m])
        BY <1>11, <2>4 DEF After
      <3>2. m \in 1 .. l + k
        <4>1. m \in 1 .. l + Len(inbox)
          BY <1>3, <1>12, <2>2, <3>1
        <4> QED
          BY <1>3, <1>12, <1>15, <1>17, <3>1, <4>1
      <3> DEFINE o == IF m <= l THEN m ELSE m + 1
      <3>3. o \in i + 1 .. Len(Queue') /\ Queue'[o] = Queue[m]
        BY <1>11, <1>12, <1>13, <2>2, <3>1, <3>2
      <3> QED
        BY <1>17, <3>1, <3>3 DEF After
    <2> QED
      BY <2>3, <2>4
  <1>18. Accounted'
    BY <1>1, <1>2, <1>16, <1>17, AccountedLost DEF MirrorInv
  <1> QED
    BY <1>2, <1>18 DEF MirrorInv, MoveInv

LEMMA MirrorStep ==
  TypeOK /\ RecorderInv /\ MirrorInv /\ [Next]_vars => MirrorInv'
  <1> SUFFICES ASSUME TypeOK, RecorderInv, MirrorInv, [Next]_vars PROVE MirrorInv'
    OBVIOUS
  <1>0. Queue \in Seq(Change)
    BY QueueIs DEF MirrorInv
  <1>1. ASSUME UNCHANGED <<fs, rows, inbox, moving, missed>> PROVE MirrorInv'
    BY <1>1, QueueSame DEF MirrorInv, Accounted, MoveInv, InSync
  <1>2. CASE ApplyOverflowed
    <2>1. /\ due = None /\ moving = None /\ inbox # <<>> /\ inbox' = Tail(inbox)
          /\ UNCHANGED <<fs, rows, missed, moving>> /\ Head(inbox).kind = "overflowed"
      BY <1>2 DEF ApplyOverflowed, Take, Idle, disk, store, handler, history
    <2>2. Queue # <<>> /\ Head(Queue) = Head(inbox) /\ Queue' = Tail(Queue)
      BY <2>1, QueueTaken DEF MirrorInv
    <2>3. Head(Queue) \in Change
      BY <1>0, <2>2, HeadTailProperties
    <2>4. NamesOf(Head(Queue)) = {}
      BY <2>1, <2>2, <2>3, ChangesAssumption
      DEF Change, FileChange, Touched, Removed, Renamed, Overflowed, NamesOf
    <2>5. Accounted'
      BY <1>0, <2>1, <2>2, <2>4, AccountedApplied DEF MirrorInv
    <2> QED
      BY <2>1, <2>5 DEF MirrorInv, MoveInv
  <1>3. CASE Boot \/ EndScan \/ AppendEvent \/ ScanFails \/ UNCHANGED vars
    BY <1>1, <1>3 DEF Boot, EndScan, AppendEvent, ScanFails, vars, disk, store, handler, history
  <1> QED
    BY <1>2, <1>3, UsersMirror, ScanMirror, TakeMirror, MoveMirror, FailMirror, CrashMirror,
       OverflowMirror
    DEF Next, Observe

LEMMA MirrorInvariant == Spec => []MirrorInv
  <1>1. Init => MirrorInv
    <2>1. Init => Queue = <<>>
      BY EmptySeq, ConcatEmptySeq DEF Init, Queue
    <2>2. Init /\ Queue = <<>> => \A n \in Names \ missed : ~ After(Queue, n, 0) /\ InSync(n)
      <3>1. Init => DOMAIN rows = {} /\ \A n \in Names \ missed : fs[n] = Absent
        BY EmptySeq DEF Init
      <3>2. Init => \A n : LiveAt(rows, n) = {}
        BY <3>1 DEF LiveAt, RowsAt
      <3>3. Queue = <<>> => \A n : ~ After(Queue, n, 0)
        BY EmptySeq DEF After
      <3> QED
        BY <3>1, <3>2, <3>3 DEF InSync
    <2>3. Queue = <<>> => DOMAIN Queue = {}
      BY EmptySeq
    <2> QED
      BY <2>1, <2>2, <2>3 DEF Init, MirrorInv, Accounted, MoveInv
  <1> QED
    BY <1>1, MirrorStep, RecorderTypeInvariant, RecorderInvariant, PTL DEF Spec

(* Once all that was reported is applied, a name has a live row just if it    *)
(* has a file, for every name none of whose changes was lost: whatever the    *)
(* order of edits and moves, and however far the handlers were behind them.   *)
THEOREM RecorderMirrors == Spec => []Mirror
  <1>1. TypeOK /\ MirrorInv => Mirror
    <2> SUFFICES ASSUME TypeOK, MirrorInv, AtRest, NEW n \in Names \ missed PROVE InSync(n)
      BY DEF Mirror
    <2>1. Queue = <<>>
      BY QueueIs DEF AtRest, Idle, MirrorInv
    <2>2. ~ After(Queue, n, 0)
      BY <2>1, EmptySeq DEF After
    <2> QED
      BY <2>2 DEF MirrorInv, Accounted
  <1> QED
    BY <1>1, RecorderTypeInvariant, MirrorInvariant, PTL

-----------------------------------------------------------------------------
(* A file and its row. While known[i] is the row of file i, the changes that *)
(* are waiting take the file from the name where that row is found to where   *)
(* it is: none of them removes it or puts another file in its place.         *)
Goes(c, m, n) ==
  \/ c.kind = "renamed" /\ m = c.from /\ n = c.to
  \/ m = n /\ (c.kind \in {"removed", "renamed"} => m \notin {c.from, c.to})

(* It is at each of the names of way p that nothing else waits for.          *)
Way(files, q, p, n) ==
  /\ p \in [0 .. Len(q) -> Names]
  /\ p[Len(q)] = n
  /\ \A i \in 1 .. Len(q) : Goes(q[i], p[i - 1], p[i])
  /\ \A k \in 0 .. Len(q) : ~ After(q, p[k], k) => files[p[k]] # Absent

FoundRow(table, r, n) == RowsAt(table, n) # {} /\ FoundAt(table, n) = r

TrackedAlong(p, r, n) ==
  /\ Way(fs, Queue, p, n)
  /\ FoundRow(rows, r, p[0])
  /\ ~ After(Queue, p[0], 0) => rows[r].deleted = 0

Tracked(r, n) == \E p \in [0 .. Len(Queue) -> Names] : TrackedAlong(p, r, n)

FilesInv ==
  /\ \A m, n \in Names : fs[m] # Absent /\ fs[n] # Absent /\ fs[m].file = fs[n].file => m = n
  /\ \A n \in Names : fs[n] # Absent => fs[n].file \in Names \cup 1 .. edits

(* Where the scan an overflow or a start asks for is still to come.           *)
Unsure == pc # "watch" \/ \E i \in DOMAIN inbox : inbox[i].kind = "overflowed"

KnownInv ==
  /\ \A n \in Names : \A r \in Nat \ {0} : fs[n] # Absent /\ known[fs[n].file] = r => Tracked(r, n)
  /\ \A i \in FileIds : known[i] # 0 => i \in Names \cup 1 .. edits
  /\ Unsure => \A i \in FileIds : known[i] = 0

KeepsInv == FilesInv /\ KnownInv

LEMMA EditsNowFiles ==
  ASSUME TypeOK, FilesInv, edits < MaxEdits, NEW e \in EditsNow
  PROVE  /\ \A m, n \in Names :
              e.fs[m] # Absent /\ e.fs[n] # Absent /\ e.fs[m].file = e.fs[n].file => m = n
         /\ \A n \in Names : e.fs[n] # Absent =>
              \/ e.fs[n].file = edits + 1
              \/ \E m \in Names :
                   fs[m] # Absent /\ fs[m].file = e.fs[n].file /\ Goes(e.change, m, n)
  <1>a. \A m \in Names : \A new : LET f == [fs EXCEPT ![m] = new] IN
          f[m] = new /\ \A l \in Names \ {m} : f[l] = fs[l]
    BY DEF TypeOK
  <1>b. edits \in Nat /\ edits + 1 \notin Names \cup 1 .. edits
    <2>1. edits \in Nat /\ MaxEdits \in Nat /\ edits < MaxEdits
      BY RecorderAssumption DEF TypeOK
    <2>2. edits + 1 \in 1 .. MaxEdits /\ edits + 1 \notin 1 .. edits
      BY <2>1
    <2>3. Names \cap (1 .. MaxEdits) = {}
      BY RecorderAssumption
    <2> HIDE DEF FilesInv
    <2> QED
      BY <2>1, <2>2, <2>3
  <1>1. PICK m \in Names : \/ e \in Creations(m)
                           \/ e \in Modifications(m)
                           \/ e \in Deletions(m)
                           \/ e \in Moves(m)
    BY DEF EditsNow
  <1>2. CASE e \in Creations(m)
    <2>1. PICK s \in Stamps :
            e = Edit([fs EXCEPT ![m] = [file |-> edits + 1, stamp |-> s]], Touched(m))
      BY <1>2 DEF Creations
    <2>2. e.fs = [fs EXCEPT ![m] = [file |-> edits + 1, stamp |-> s]] /\ e.change = Touched(m)
      BY <2>1 DEF Edit
    <2>3. e.fs[m].file = edits + 1 /\ \A l \in Names \ {m} : e.fs[l] = fs[l]
      BY <1>a, <2>2
    <2>4. \A l : Goes(e.change, l, l)
      BY <2>2 DEF Goes, Touched
    <2> QED
      BY <1>b, <2>3, <2>4 DEF FilesInv
  <1>3. CASE e \in Modifications(m)
    <2>1. PICK s \in Stamps :
            e = Edit([fs EXCEPT ![m] = [file |-> fs[m].file, stamp |-> s]], Touched(m))
      BY <1>3 DEF Modifications
    <2>2. e.fs = [fs EXCEPT ![m] = [file |-> fs[m].file, stamp |-> s]] /\ e.change = Touched(m)
          /\ fs[m] # Absent
      BY <1>3, <2>1 DEF Edit, Modifications
    <2>3. e.fs[m].file = fs[m].file /\ \A l \in Names \ {m} : e.fs[l] = fs[l]
      BY <1>a, <2>2
    <2>4. \A l : Goes(e.change, l, l)
      BY <2>2 DEF Goes, Touched
    <2>5. \A l \in Names : e.fs[l] # Absent => fs[l] # Absent /\ e.fs[l].file = fs[l].file
      BY <2>2, <2>3
    <2> QED
      BY <2>4, <2>5 DEF FilesInv
  <1>4. CASE e \in Deletions(m)
    <2>1. e.fs = [fs EXCEPT ![m] = Absent] /\ e.change = Removed(m)
      BY <1>4 DEF Deletions, Edit
    <2>2. e.fs[m] = Absent /\ \A l \in Names \ {m} : e.fs[l] = fs[l]
      BY <1>a, <2>1
    <2>3. \A l \in Names \ {m} : Goes(e.change, l, l)
      BY <2>1 DEF Goes, Removed
    <2> QED
      BY <2>2, <2>3 DEF FilesInv
  <1>5. CASE e \in Moves(m)
    <2>1. PICK to \in Names \ {m} :
            e = Edit([fs EXCEPT ![to] = fs[m], ![m] = Absent], Renamed(m, to))
      BY <1>5 DEF Moves
    <2>2. fs[m] # Absent
      BY <1>5 DEF Moves
    <2>3. e.fs = [fs EXCEPT ![to] = fs[m], ![m] = Absent] /\ e.change = Renamed(m, to)
      BY <2>1 DEF Edit
    <2>4. e.fs[to] = fs[m] /\ e.fs[m] = Absent /\ \A l \in Names \ {m, to} : e.fs[l] = fs[l]
      BY <2>3 DEF TypeOK
    <2>5. Goes(e.change, m, to) /\ \A l \in Names \ {m, to} : Goes(e.change, l, l)
      BY <2>3 DEF Goes, Renamed
    <2>6. ASSUME NEW n \in Names, e.fs[n] # Absent
          PROVE  /\ n # m
                 /\ n = to => e.fs[n].file = fs[m].file
                 /\ n # to => e.fs[n].file = fs[n].file /\ fs[n] # Absent
      BY <2>4, <2>6
    <2> QED
      BY <2>2, <2>5, <2>6 DEF FilesInv
  <1> QED
    BY <1>1, <1>2, <1>3, <1>4, <1>5

(* How a file goes on being tracked: when a change is reported, ...          *)
LEMMA TrackedReported ==
  ASSUME Queue \in Seq(Change), NEW c \in Change, Queue' = Append(Queue, c), UNCHANGED rows,
         \A l \in Names : l \notin NamesOf(c) => fs'[l] = fs[l],
         NEW m \in Names, NEW n \in Names, Goes(c, m, n), fs'[n] # Absent, NEW r, Tracked(r, m)
  PROVE  Tracked(r, n)'
  <1> DEFINE q == Queue
             z == Len(q)
  <1>1. PICK p \in [0 .. Len(q) -> Names] : TrackedAlong(p, r, m)
    BY DEF Tracked
  <1>2. /\ p[z] = m /\ \A i \in 1 .. z : Goes(q[i], p[i - 1], p[i])
        /\ \A k \in 0 .. z : ~ After(q, p[k], k) => fs[p[k]] # Absent
        /\ FoundRow(rows, r, p[0])
        /\ ~ After(q, p[0], 0) => rows[r].deleted = 0
    BY <1>1 DEF TrackedAlong, Way
  <1>3. q \in Seq(Change) /\ Queue' = Append(q, c)
    OBVIOUS
  <1> HIDE DEF q
  <1>4. /\ z \in Nat /\ Len(Queue') = z + 1
        /\ Queue'[z + 1] = c /\ \A i \in 1 .. z : Queue'[i] = q[i]
    BY <1>3, LenProperties, AppendProperties
  <1>5. \A l : \A k \in 0 .. z : After(Queue', l, k) <=> After(q, l, k) \/ l \in NamesOf(c)
    BY <1>3, AfterGrows
  <1> DEFINE w == [k \in 0 .. z + 1 |-> IF k <= z THEN p[k] ELSE n]
  <1>6. /\ w \in [0 .. z + 1 -> Names] /\ w[z + 1] = n /\ w[0] = p[0]
        /\ \A k \in 0 .. z : w[k] = p[k]
    BY <1>4
  <1> HIDE DEF w
  <1>7. ASSUME NEW i \in 1 .. z + 1 PROVE Goes(Queue'[i], w[i - 1], w[i])
    <2>1. CASE i = z + 1
      <3>1. w[i - 1] = m /\ w[i] = n /\ Queue'[i] = c
        BY <1>2, <1>4, <1>6, <2>1
      <3> QED
        BY <3>1
    <2>2. CASE i # z + 1
      <3>1. i \in 1 .. z /\ i - 1 \in 0 .. z /\ i \in 0 .. z
        BY <1>4, <2>2
      <3>2. w[i - 1] = p[i - 1] /\ w[i] = p[i] /\ Queue'[i] = q[i]
        BY <1>4, <1>6, <3>1
      <3> QED
        BY <1>2, <3>1, <3>2
    <2> QED
      BY <2>1, <2>2
  <1>8. ASSUME NEW k \in 0 .. z + 1, ~ After(Queue', w[k], k) PROVE fs'[w[k]] # Absent
    <2>1. CASE k = z + 1
      BY <1>6, <2>1
    <2>2. CASE k # z + 1
      <3>1. k \in 0 .. z /\ w[k] = p[k] /\ p[k] \in Names
        BY <1>4, <1>6, <2>2
      <3>2. ~ After(q, p[k], k) /\ p[k] \notin NamesOf(c)
        BY <1>5, <1>8, <3>1
      <3> QED
        BY <1>2, <3>1, <3>2
    <2> QED
      BY <2>1, <2>2
  <1>9. ~ After(Queue', w[0], 0) => rows'[r].deleted = 0
    BY <1>2, <1>4, <1>5, <1>6
  <1>10. FoundRow(rows', r, w[0])
    BY <1>2, <1>6
  <1>11. w \in [0 .. Len(Queue') -> Names]
    BY <1>4, <1>6
  <1> QED
    BY <1>4, <1>6, <1>7, <1>8, <1>9, <1>10, <1>11 DEF Tracked, TrackedAlong, Way

(* ... when a statement is made on the way, ...                             *)
LEMMA TrackedSame ==
  ASSUME UNCHANGED fs, Queue' = Queue, Len(Queue) \in Nat, NEW r, NEW n, Tracked(r, n),
         \A m \in Names :
           /\ FoundRow(rows, r, m)
           /\ Len(Queue) > 0 => \E l \in Names : Goes(Queue[1], m, l)
           => FoundRow(rows', r, m) /\ rows'[r].deleted = rows[r].deleted
  PROVE  Tracked(r, n)'
  <1> DEFINE q == Queue
  <1>1. PICK p \in [0 .. Len(q) -> Names] : TrackedAlong(p, r, n)
    BY DEF Tracked
  <1>2. Way(fs, q, p, n) /\ FoundRow(rows, r, p[0])
        /\ (~ After(q, p[0], 0) => rows[r].deleted = 0)
    BY <1>1 DEF TrackedAlong
  <1>3. Len(q) \in Nat /\ Queue' = q
    OBVIOUS
  <1>4. \A m \in Names :
           /\ FoundRow(rows, r, m)
           /\ Len(q) > 0 => \E l \in Names : Goes(q[1], m, l)
           => FoundRow(rows', r, m) /\ rows'[r].deleted = rows[r].deleted
    OBVIOUS
  <1> HIDE DEF q
  <1>5. p[0] \in Names /\ (Len(q) > 0 => p[1] \in Names /\ Goes(q[1], p[0], p[1]))
    BY <1>2, <1>3 DEF Way
  <1>6. FoundRow(rows', r, p[0]) /\ rows'[r].deleted = rows[r].deleted
    BY <1>2, <1>4, <1>5
  <1>7. Way(fs', Queue', p, n)
    BY <1>2, <1>3
  <1> QED
    BY <1>2, <1>3, <1>6, <1>7 DEF Tracked, TrackedAlong

(* ... and when the first change waiting is applied.                         *)
LEMMA TrackedApplied ==
  ASSUME UNCHANGED fs, Queue \in Seq(Change), Queue # <<>>, Queue' = Tail(Queue),
         NEW c, c = Head(Queue), NEW r, NEW n, Tracked(r, n),
         \A m, l \in Names :
           FoundRow(rows, r, m) /\ Goes(c, m, l) =>
             /\ FoundRow(rows', r, l)
             /\ (IF m \in NamesOf(c) THEN fs[l] # Absent ELSE rows[r].deleted = 0)
                  => rows'[r].deleted = 0
  PROVE  Tracked(r, n)'
  <1> DEFINE q == Queue
             z == Len(q)
  <1>1. PICK p \in [0 .. Len(q) -> Names] : TrackedAlong(p, r, n)
    BY DEF Tracked
  <1>2. /\ p[z] = n /\ \A i \in 1 .. z : Goes(q[i], p[i - 1], p[i])
        /\ \A k \in 0 .. z : ~ After(q, p[k], k) => fs[p[k]] # Absent
        /\ FoundRow(rows, r, p[0])
        /\ ~ After(q, p[0], 0) => rows[r].deleted = 0
    BY <1>1 DEF TrackedAlong, Way
  <1>3. q \in Seq(Change) /\ q # <<>> /\ Queue' = Tail(q) /\ c = Head(q)
    OBVIOUS
  <1> HIDE DEF q
  <1>4. /\ z \in Nat \ {0} /\ Len(Queue') = z - 1 /\ q[1] = c
        /\ \A i \in 1 .. z - 1 : Queue'[i] = q[i + 1]
    <2>1. Len(q) \in Nat \ {0} /\ q[1] = c
      BY <1>3, EmptySeq
    <2>2. Len(Tail(q)) = Len(q) - 1 /\ \A i \in 1 .. Len(Tail(q)) : Tail(q)[i] = q[i + 1]
      BY <1>3, HeadTailProperties
    <2> QED
      BY <1>3, <2>1, <2>2
  <1>5. /\ \A l : \A k \in 0 .. z - 1 : After(Queue', l, k) <=> After(q, l, k + 1)
        /\ \A l : After(q, l, 0) <=> l \in NamesOf(c) \/ After(Queue', l, 0)
    <2>1. \A l : \A k \in 0 .. z - 1 :
            /\ After(Tail(q), l, k) <=> After(q, l, k + 1)
            /\ After(q, l, 0) <=> l \in NamesOf(Head(q)) \/ After(Tail(q), l, 0)
      BY <1>3, AfterTail
    <2>2. 0 \in 0 .. z - 1
      BY <1>4
    <2> QED
      BY <1>3, <2>1, <2>2
  <1> DEFINE w == [k \in 0 .. z - 1 |-> p[k + 1]]
  <1>6. /\ w \in [0 .. z - 1 -> Names]
        /\ \A k \in 0 .. z - 1 : w[k] = p[k + 1] /\ w[k] \in Names
        /\ w[0] = p[1] /\ w[z - 1] = n /\ p[0] \in Names
    <2>1. p \in [0 .. z -> Names]
      OBVIOUS
    <2>2. \A k \in 0 .. z - 1 : k + 1 \in 0 .. z
      BY <1>4
    <2>3. 0 \in 0 .. z /\ 0 \in 0 .. z - 1 /\ z - 1 \in 0 .. z - 1 /\ z - 1 + 1 = z /\ 0 + 1 = 1
      BY <1>4
    <2>4. \A k \in 0 .. z - 1 : w[k] = p[k + 1] /\ w[k] \in Names
      BY <2>1, <2>2
    <2>5. w \in [0 .. z - 1 -> Names]
      BY <2>1, <2>2
    <2> HIDE DEF w
    <2> QED
      BY <1>2, <2>1, <2>3, <2>4, <2>5
  <1> HIDE DEF w
  <1>7. ASSUME NEW i \in 1 .. z - 1 PROVE Goes(Queue'[i], w[i - 1], w[i])
    <2>1. i + 1 \in 1 .. z /\ i - 1 \in 0 .. z - 1 /\ i \in 0 .. z - 1 /\ i - 1 + 1 = i
          /\ i + 1 - 1 = i
      BY <1>4
    <2>2. w[i - 1] = p[i] /\ w[i] = p[i + 1] /\ Queue'[i] = q[i + 1]
      BY <1>4, <1>6, <2>1
    <2>3. Goes(q[i + 1], p[i + 1 - 1], p[i + 1])
      BY <1>2, <2>1
    <2> QED
      BY <2>1, <2>2, <2>3
  <1>8. ASSUME NEW k \in 0 .. z - 1, ~ After(Queue', w[k], k) PROVE fs'[w[k]] # Absent
    <2>1. k + 1 \in 0 .. z /\ w[k] = p[k + 1] /\ ~ After(q, p[k + 1], k + 1)
      BY <1>4, <1>5, <1>6, <1>8
    <2>2. fs[p[k + 1]] # Absent
      BY <1>2, <2>1
    <2> QED
      BY <2>1, <2>2
  <1>9. Goes(c, p[0], w[0])
    <2>1. 1 \in 1 .. z /\ 1 - 1 = 0
      BY <1>4
    <2>2. Goes(q[1], p[1 - 1], p[1])
      BY <1>2, <2>1
    <2> QED
      BY <1>4, <1>6, <2>1, <2>2
  <1>10. w[0] \in Names
    BY <1>4, <1>6
  <1>11. FoundRow(rows', r, w[0])
    BY <1>2, <1>6, <1>9, <1>10
  <1>12. ASSUME ~ After(Queue', w[0], 0) PROVE rows'[r].deleted = 0
    <2>1. fs[w[0]] # Absent
      BY <1>4, <1>8, <1>12
    <2>2. p[0] \notin NamesOf(c) => rows[r].deleted = 0
      <3>1. ASSUME p[0] \notin NamesOf(c) PROVE w[0] = p[0]
        BY <1>6, <1>9, <1>10, <3>1 DEF Goes, NamesOf
      <3> QED
        BY <1>2, <1>5, <1>12, <3>1
    <2> QED
      BY <1>2, <1>6, <1>9, <1>10, <2>1, <2>2
  <1>13. w \in [0 .. Len(Queue') -> Names]
    BY <1>4, <1>6
  <1> QED
    BY <1>4, <1>6, <1>7, <1>8, <1>11, <1>12, <1>13 DEF Tracked, TrackedAlong, Way

(* How the file is tracked at rest: it is where its row is.                  *)
LEMMA TrackedAtRest ==
  ASSUME TypeOK, OneLiveRow, Queue = <<>>, NEW n \in Names, fs[n] # Absent,
         NEW r \in LiveAt(rows, n)
  PROVE  Tracked(r, n)
  <1> DEFINE p == [k \in 0 .. 0 |-> n]
  <1>1. Len(Queue) = 0 /\ p \in [0 .. Len(Queue) -> Names] /\ p[0] = n
    BY EmptySeq
  <1>2. FoundRow(rows, r, n) /\ rows[r].deleted = 0
    <2>1. RowsAt(rows, n) # {} /\ LiveAt(rows, n) # {} /\ rows[r].deleted = 0
      BY DEF LiveAt
    <2>2. FoundAt(rows, n) \in LiveAt(rows, n)
      BY <2>1, FoundAtIsThere DEF TypeOK
    <2> QED
      BY <2>1, <2>2 DEF OneLiveRow, FoundRow
  <1> HIDE DEF p
  <1>3. Way(fs, Queue, p, n)
    BY <1>1 DEF Way
  <1> QED
    BY <1>1, <1>2, <1>3 DEF Tracked, TrackedAlong

LEMMA FoundRowIs ==
  ASSUME TypeOK, NEW n \in Names, NEW r, FoundRow(rows, r, n)
  PROVE  r \in RowsAt(rows, n)
  BY FoundAtIsThere DEF FoundRow, TypeOK

LEMMA SameIsFound ==
  ASSUME TypeOK, NEW n \in Names, Same(n), NEW r, FoundRow(rows, r, n)
  PROVE  FoundRow(rows', r, n) /\ rows'[r].deleted = rows[r].deleted
  <1>1. r \in RowsAt(rows, n)
    BY FoundRowIs
  <1>2. FoundAt(rows', n) = FoundAt(rows, n)
    BY SameFinds
  <1> QED
    BY <1>1, <1>2 DEF Same, FoundRow

(* Nothing is known any more, or everything that is goes on being so.        *)
LEMMA KnownForgotten ==
  ASSUME TypeOK', \A i \in FileIds : known'[i] = 0
  PROVE  KnownInv'
  <1>1. \A n \in Names : fs'[n] # Absent => fs'[n].file \in FileIds
    BY DEF TypeOK
  <1> QED
    BY <1>1 DEF KnownInv

LEMMA KnownKept ==
  ASSUME KnownInv, UNCHANGED <<fs, edits, known>>, Unsure' => Unsure,
         \A n \in Names : \A r \in Nat \ {0} : Tracked(r, n) => Tracked(r, n)'
  PROVE  KnownInv'
  BY DEF KnownInv

LEMMA UnsureGrows ==
  ASSUME TypeOK, NEW c \in Change, c.kind # "overflowed", inbox' = Append(inbox, c), UNCHANGED pc
  PROVE  Unsure' => Unsure
  <1>1. inbox \in Seq(Change) /\ DOMAIN inbox = 1 .. Len(inbox) /\ Len(inbox) \in Nat
    BY LenProperties DEF TypeOK
  <1>2. /\ DOMAIN inbox' = 1 .. Len(inbox) + 1
        /\ inbox'[Len(inbox) + 1] = c /\ \A i \in 1 .. Len(inbox) : inbox'[i] = inbox[i]
    BY <1>1, AppendProperties, LenProperties
  <1>3. ASSUME NEW i \in DOMAIN inbox', inbox'[i].kind = "overflowed" PROVE i \in DOMAIN inbox
    BY <1>1, <1>2, <1>3
  <1> QED
    BY <1>1, <1>2, <1>3 DEF Unsure

LEMMA UnsureTail ==
  ASSUME TypeOK, inbox # <<>>, inbox' = Tail(inbox), UNCHANGED pc
  PROVE  Unsure' => Unsure
  <1>1. inbox \in Seq(Change) /\ DOMAIN inbox = 1 .. Len(inbox) /\ Len(inbox) \in Nat
    BY LenProperties DEF TypeOK
  <1>2. /\ inbox' \in Seq(Change) /\ Len(inbox') = Len(inbox) - 1
        /\ \A i \in 1 .. Len(inbox') : inbox'[i] = inbox[i + 1]
    BY <1>1, HeadTailProperties
  <1>3. DOMAIN inbox' = 1 .. Len(inbox')
    BY <1>2, LenProperties
  <1>4. \A i \in DOMAIN inbox' : i + 1 \in DOMAIN inbox /\ inbox'[i] = inbox[i + 1]
    BY <1>1, <1>2, <1>3
  <1> QED
    BY <1>4 DEF Unsure

(* What is changed is a file that was there, or one of its own.              *)
LEMMA UsersKnown ==
  ASSUME TypeOK, TypeOK', OneLiveRow, MoveInv, KeepsInv, Users
  PROVE  KeepsInv'
  <1>1. PICK e \in EditsNow :
          /\ ChangeFiles(e)
          /\ \/ /\ Watching
                /\ inbox' = Append(inbox, e.change)
                /\ known' = IF AtRest THEN RowsOfFiles ELSE known
             \/ Forget
    BY DEF Users, Lose
  <1>2. /\ fs' = e.fs /\ edits' = edits + 1 /\ edits < MaxEdits
        /\ UNCHANGED <<rows, pc, due, moving>>
    BY <1>1 DEF ChangeFiles, store, handler
  <1>3. /\ \A m, n \in Names :
             e.fs[m] # Absent /\ e.fs[n] # Absent /\ e.fs[m].file = e.fs[n].file => m = n
        /\ \A n \in Names : e.fs[n] # Absent =>
             \/ e.fs[n].file = edits + 1
             \/ \E m \in Names :
                  fs[m] # Absent /\ fs[m].file = e.fs[n].file /\ Goes(e.change, m, n)
    BY <1>2, EditsNowFiles DEF KeepsInv
  <1>4. edits \in Nat /\ MaxEdits \in Nat
    BY RecorderAssumption DEF TypeOK
  <1>5. FilesInv'
    <2>1. \A m, n \in Names : fs'[m] # Absent /\ fs'[n] # Absent /\ fs'[m].file = fs'[n].file => m = n
      BY <1>2, <1>3
    <2>2. ASSUME NEW n \in Names, fs'[n] # Absent PROVE fs'[n].file \in Names \cup 1 .. edits'
      <3>1. CASE e.fs[n].file = edits + 1
        BY <1>2, <1>4, <3>1
      <3>2. CASE e.fs[n].file # edits + 1
        <4>1. PICK m \in Names : fs[m] # Absent /\ fs[m].file = e.fs[n].file
          BY <1>2, <1>3, <2>2, <3>2
        <4>2. e.fs[n].file \in Names \cup 1 .. edits
          BY <4>1 DEF KeepsInv, FilesInv
        <4> QED
          BY <1>2, <1>4, <4>2
      <3> QED
        BY <3>1, <3>2
    <2> QED
      BY <2>1, <2>2 DEF FilesInv
  <1>6. CASE Forget
    BY <1>5, <1>6, KnownForgotten DEF Forget, KeepsInv
  <1>7. CASE inbox' = Append(inbox, e.change) /\ known' = IF AtRest THEN RowsOfFiles ELSE known
    <2>1. e.change \in Change /\ e.change.kind # "overflowed"
      BY <1>2, EditsNowType DEF Change, FileChange, Touched, Removed, Renamed
    <2>2. Queue \in Seq(Change) /\ Queue' = Append(Queue, e.change)
      BY <1>2, <1>7, <2>1, QueueIs, QueueGrows
    <2>3. \A n \in Names : n \notin NamesOf(e.change) => fs'[n] = fs[n]
      BY <1>2, EditsNowFit
    <2>4. \A i \in FileIds : known'[i] # 0 => i \in Names \cup 1 .. edits
      <3>1. CASE AtRest
        <4> SUFFICES ASSUME NEW i \in FileIds, RowOf(i) # 0 PROVE i \in Names \cup 1 .. edits
          BY <1>7, <3>1 DEF RowsOfFiles
        <4>1. PICK r \in DOMAIN rows : fs[rows[r].name] # Absent /\ fs[rows[r].name].file = i
          BY DEF RowOf
        <4>2. rows[r].name \in Names
          BY <4>1, TableType DEF TypeOK, Row
        <4> QED
          BY <4>1, <4>2 DEF KeepsInv, FilesInv
      <3>2. CASE ~ AtRest
        BY <1>7, <3>2 DEF KeepsInv, KnownInv
      <3> QED
        BY <3>1, <3>2
    <2>5. ASSUME NEW m \in Names, NEW r \in Nat \ {0}, fs[m] # Absent, known'[fs[m].file] = r
          PROVE  Tracked(r, m)
      <3>1. CASE AtRest
        <4>1. fs[m].file \in FileIds
          BY <2>5 DEF TypeOK
        <4>2. RowOf(fs[m].file) = r
          BY <1>7, <2>5, <3>1, <4>1 DEF RowsOfFiles
        <4>3. /\ r \in DOMAIN rows /\ rows[r].deleted = 0
              /\ fs[rows[r].name] # Absent /\ fs[rows[r].name].file = fs[m].file
          BY <2>5, <4>2 DEF RowOf
        <4>4. rows[r].name \in Names
          BY <4>3, TableType DEF TypeOK, Row
        <4>5. r \in LiveAt(rows, m)
          BY <2>5, <4>3, <4>4 DEF KeepsInv, FilesInv, LiveAt, RowsAt
        <4>6. Queue = <<>>
          BY <3>1, QueueIs DEF AtRest, Idle
        <4> QED
          BY <2>5, <4>5, <4>6, TrackedAtRest
      <3>2. CASE ~ AtRest
        BY <1>7, <2>5, <3>2 DEF KeepsInv, KnownInv
      <3> QED
        BY <3>1, <3>2
    <2>6. ASSUME NEW n \in Names, NEW r \in Nat \ {0}, fs'[n] # Absent, known'[fs'[n].file] = r
          PROVE  Tracked(r, n)'
      <3>1. fs'[n].file # edits + 1
        <4>1. edits + 1 \in FileIds
          BY <1>2, <1>4 DEF FileIds
        <4>2. edits + 1 \notin Names \cup 1 .. edits
          <5>1. edits + 1 \in 1 .. MaxEdits /\ edits + 1 \notin 1 .. edits
            BY <1>2, <1>4
          <5>2. Names \cap (1 .. MaxEdits) = {}
            BY RecorderAssumption
          <5> QED
            BY <5>1, <5>2
        <4> QED
          BY <2>4, <2>6, <4>1, <4>2
      <3>2. PICK m \in Names : fs[m] # Absent /\ fs[m].file = fs'[n].file /\ Goes(e.change, m, n)
        BY <1>2, <1>3, <2>6, <3>1
      <3>3. Tracked(r, m)
        BY <2>5, <2>6, <3>2
      <3>4. UNCHANGED rows
        BY <1>2
      <3> HIDE DEF Queue, Tracked
      <3> QED
        BY <2>1, <2>2, <2>3, <2>6, <3>2, <3>3, <3>4, TrackedReported
    <2>7. Unsure' => \A i \in FileIds : known'[i] = 0
      <3>1. Unsure' => Unsure
        BY <1>2, <1>7, <2>1, UnsureGrows
      <3>2. Unsure => ~ AtRest
        BY EmptySeq DEF Unsure, AtRest
      <3> QED
        BY <1>7, <3>1, <3>2 DEF KeepsInv, KnownInv
    <2>8. \A i \in FileIds : known'[i] # 0 => i \in Names \cup 1 .. edits'
      BY <1>2, <1>4, <2>4
    <2> QED
      BY <1>5, <2>6, <2>7, <2>8 DEF KeepsInv, KnownInv
  <1> QED
    BY <1>1, <1>6, <1>7

(* What each handler does to the row of a file is what the change did to it. *)
LEMMA TakeKnown ==
  ASSUME TypeOK, RecorderInv, MirrorInv, KnownInv, ApplyTouched \/ ApplyRemoved \/ ApplyRenamed
  PROVE  KnownInv'
  <1> DEFINE c == Head(inbox)
  <1>1. /\ due = None /\ moving = None /\ inbox # <<>> /\ inbox' = Tail(inbox)
        /\ UNCHANGED <<fs, edits, pc, known>> /\ c.kind \in {"touched", "removed", "renamed"}
    BY DEF ApplyTouched, ApplyRemoved, ApplyRenamed, Take, Idle, disk, history
  <1>2. c \in Change
    BY <1>1, HeadTailProperties DEF TypeOK
  <1>3. /\ c.from \in Names /\ c.to \in Names /\ NamesOf(c) = {c.from, c.to}
        /\ c.kind \in {"touched", "removed"} => c.from = c.to
        /\ c.kind = "renamed" => c.from # c.to /\ c = Renamed(c.from, c.to)
    BY <1>1, <1>2 DEF Change, FileChange, Touched, Removed, Renamed, Overflowed, NamesOf
  <1>4. Queue = inbox /\ Queue \in Seq(Change)
    BY <1>1, QueueIs DEF MirrorInv
  <1>a. PICK from \in Names : from = c.from
    BY <1>3
  <1>b. PICK to \in Names : to = c.to
    BY <1>3
  <1>c. NamesOf(c) = {from, to}
    BY <1>3, <1>a, <1>b
  <1>5. Unsure' => Unsure
    BY <1>1, UnsureTail
  <1>6. ASSUME moving' = None,
               \A r : \A m, l \in Names :
                 FoundRow(rows, r, m) /\ Goes(c, m, l) =>
                   /\ FoundRow(rows', r, l)
                   /\ (IF m \in NamesOf(c) THEN fs[l] # Absent ELSE rows[r].deleted = 0)
                        => rows'[r].deleted = 0
        PROVE  KnownInv'
    <2>1. Queue # <<>> /\ Queue' = Tail(Queue) /\ Head(Queue) = c
      BY <1>1, <1>4, <1>6, QueueTaken DEF MirrorInv
    <2>2. ASSUME NEW n \in Names, NEW r \in Nat \ {0}, Tracked(r, n) PROVE Tracked(r, n)'
      <3>1. UNCHANGED fs /\ c = Head(Queue)
        BY <1>1, <2>1
      <3> HIDE DEF c, Tracked, Queue
      <3>2. \A m, l \in Names :
              FoundRow(rows, r, m) /\ Goes(c, m, l) =>
                /\ FoundRow(rows', r, l)
                /\ (IF m \in NamesOf(c) THEN fs[l] # Absent ELSE rows[r].deleted = 0)
                     => rows'[r].deleted = 0
        BY <1>6
      <3> QED
        BY <1>4, <2>1, <2>2, <3>1, <3>2, TrackedApplied
    <2> QED
      BY <1>1, <1>5, <2>2, KnownKept
  (* A row away from the handler's name.                                     *)
  <1>7. ASSUME NEW r, NEW m \in Names, FoundRow(rows, r, m), Same(m)
        PROVE  FoundRow(rows', r, m) /\ rows'[r].deleted = rows[r].deleted
    BY <1>7, SameIsFound
  (* A change that leaves the file where it is.                              *)
  <1>8. ASSUME c.kind # "renamed", moving' = None,
               RowsAt(rows, to) # {} =>
                 RowsAt(rows', to) # {} /\ FoundAt(rows', to) = FoundAt(rows, to),
               fs[to] # Absent /\ RowsAt(rows, to) # {} /\ c.kind = "touched" =>
                 LiveAt(rows', to) # {} /\ FoundAt(rows', to) \in LiveAt(rows', to),
               \A m \in Names \ {to} : Same(m)
        PROVE  KnownInv'
    <2> SUFFICES ASSUME NEW r, NEW m \in Names, NEW l \in Names, FoundRow(rows, r, m), Goes(c, m, l)
                 PROVE  /\ FoundRow(rows', r, l)
                        /\ (IF m \in NamesOf(c) THEN fs[l] # Absent ELSE rows[r].deleted = 0)
                             => rows'[r].deleted = 0
      BY <1>6, <1>8
    <2>1. m = l /\ (c.kind = "removed" => m # to) /\ from = to
      BY <1>1, <1>3, <1>8, <1>a, <1>b DEF Goes
    <2>2. CASE m = to
      <3>1. c.kind = "touched" /\ m \in NamesOf(c)
        BY <1>1, <1>8, <1>c, <2>1, <2>2
      <3>2. FoundRow(rows', r, m)
        BY <1>8, <2>2 DEF FoundRow
      <3>3. fs[l] # Absent => rows'[r].deleted = 0
        BY <1>8, <2>1, <2>2, <3>1 DEF FoundRow, LiveAt
      <3> QED
        BY <2>1, <3>1, <3>2, <3>3
    <2>3. CASE m # to
      BY <1>7, <1>8, <1>c, <2>1, <2>3
    <2> QED
      BY <2>2, <2>3
  <1>9. rows' \in Seq(Row) => \A n \in Names : LiveAt(rows', n) # {} => FoundAt(rows', n) \in LiveAt(rows', n)
    BY FoundAtIsThere DEF LiveAt
  <1>10. CASE ApplyTouched
    <2>1. c.kind = "touched" /\ RecordPath(to) /\ moving' = None
      BY <1>1, <1>10, <1>b DEF ApplyTouched, Take
    <2>2. /\ (LiveAt(rows', to) = {}) = (fs[to] = Absent)
          /\ RowsAt(rows, to) # {} =>
               RowsAt(rows', to) # {} /\ FoundAt(rows', to) = FoundAt(rows, to)
          /\ \A m \in Names \ {to} : Same(m)
      BY <2>1, RecordPathAt DEF RecorderInv
    <2>3. rows' \in Seq(Row)
      BY <1>1, <2>1, RecordPathType
    <2> HIDE DEF c
    <2> QED
      BY <1>8, <1>9, <2>1, <2>2, <2>3
  <1>11. CASE ApplyRemoved
    <2>1. c.kind = "removed" /\ RecordRemoval(to) /\ moving' = None
      BY <1>1, <1>11, <1>b DEF ApplyRemoved, Take
    <2>2. /\ RowsAt(rows, to) # {} =>
               RowsAt(rows', to) # {} /\ FoundAt(rows', to) = FoundAt(rows, to)
          /\ \A m \in Names \ {to} : Same(m)
      BY <2>1, RecordRemovalAt DEF RecorderInv
    <2> HIDE DEF c
    <2> QED
      BY <1>8, <2>1, <2>2
  <1>12. CASE ApplyRenamed
    <2>1. c.kind = "renamed" /\ from # to
      BY <1>3, <1>12, <1>a, <1>b DEF ApplyRenamed, Take
    <2>2. CASE ~ IsKnown(from)
      <3>1. RecordPath(to) /\ moving' = None
        BY <1>1, <1>12, <1>a, <1>b, <2>2 DEF ApplyRenamed
      <3>2. \A m \in Names \ {to} : Same(m)
        BY <3>1, RecordPathAt DEF RecorderInv
      <3> SUFFICES ASSUME NEW r, NEW m \in Names, NEW l \in Names, FoundRow(rows, r, m), Goes(c, m, l)
                   PROVE  /\ FoundRow(rows', r, l)
                          /\ (IF m \in NamesOf(c) THEN fs[l] # Absent ELSE rows[r].deleted = 0)
                               => rows'[r].deleted = 0
        BY <1>6, <3>1
      <3>3. m # from
        BY <2>2 DEF FoundRow, IsKnown
      <3>4. m = l /\ m \notin {from, to}
        BY <1>a, <1>b, <2>1, <3>3 DEF Goes
      <3> QED
        BY <1>7, <1>c, <3>2, <3>4
    <2>3. CASE IsKnown(from)
      <3>1. /\ Displace(FoundAt(rows, from), to)
            /\ moving' = [row |-> FoundAt(rows, from), from |-> from, to |-> to]
        BY <1>12, <1>a, <1>b, <2>3 DEF ApplyRenamed
      <3> DEFINE f == FoundAt(rows, from)
      <3>2. f \in DOMAIN rows
        BY <2>3, FoundAtIsThere DEF IsKnown, TypeOK, RowsAt
      <3>3. f \in Nat \ {0}
        BY <3>2, TableType DEF TypeOK
      <3>4. moving' \in Move /\ moving'.from = from /\ moving'.to = to
        BY <2>1, <3>1, <3>3 DEF Move
      <3>5. moving' # None
        BY <3>4, NoneAssumption
      <3>6. Queue' = Queue
        BY <1>1, <1>3, <1>a, <1>b, <2>1, <3>4, <3>5, QueueMoves DEF MirrorInv
      <3>7. \A m \in Names \ {to} : Same(m)
        BY <3>1, DisplaceAt
      <3>8. Len(Queue) \in Nat /\ Queue[1] = c /\ Len(Queue) > 0
        BY <1>1, <1>4, EmptySeq, LenProperties
      <3>9. ASSUME NEW n \in Names, NEW r \in Nat \ {0}, Tracked(r, n) PROVE Tracked(r, n)'
        <4>1. ASSUME NEW m \in Names, FoundRow(rows, r, m), NEW l \in Names, Goes(Queue[1], m, l)
              PROVE  FoundRow(rows', r, m) /\ rows'[r].deleted = rows[r].deleted
          <5>1. m # to
            BY <1>a, <1>b, <2>1, <3>8, <4>1 DEF Goes
          <5> QED
            BY <1>7, <3>7, <4>1, <5>1
        <4>2. UNCHANGED fs
          BY <1>1
        <4> HIDE DEF Queue, Tracked, c
        <4> QED
          BY <3>6, <3>8, <3>9, <4>1, <4>2, TrackedSame
      <3> QED
        BY <1>1, <1>5, <3>9, KnownKept
    <2> QED
      BY <2>2, <2>3
  <1> QED
    BY <1>10, <1>11, <1>12

LEMMA MoveKnown ==
  ASSUME TypeOK, RecorderInv, MirrorInv, KnownInv, MoveRow
  PROVE  KnownInv'
  <1>1. moving # None /\ moving' = None /\ UNCHANGED <<fs, edits, pc, inbox, known>>
    BY DEF MoveRow, disk, history
  <1>2. /\ Queue \in Seq(Change) /\ Queue # <<>> /\ Queue' = Tail(Queue)
        /\ Head(Queue) = Renamed(moving.from, moving.to)
        /\ moving.from \in Names /\ moving.to \in Names /\ moving.from # moving.to
    BY <1>1, QueueIs, QueueMoved DEF MirrorInv, MoveInv
  <1>3. PICK from \in Names : from = moving.from
    BY <1>2
  <1>4. PICK to \in Names : to = moving.to
    BY <1>2
  <1>5. PICK c \in Change : c = Head(Queue)
    BY <1>2, HeadTailProperties
  <1>6. /\ c.kind = "renamed" /\ c.from = from /\ c.to = to
        /\ NamesOf(c) = {from, to} /\ from # to
    BY <1>2, <1>3, <1>4, <1>5 DEF NamesOf, Renamed
  <1>7. /\ LiveAt(rows', to) = {moving.row}
        /\ RowsAt(rows', to) # {} /\ FoundAt(rows', to) = moving.row
        /\ \A m \in Names \ {from, to} : Same(m)
        /\ moving.row = FoundAt(rows, from)
    BY <1>1, <1>3, <1>4, MoveRowAt DEF MirrorInv, MoveInv
  <1>8. ASSUME NEW r, NEW m \in Names, NEW l \in Names, FoundRow(rows, r, m), Goes(c, m, l)
        PROVE  /\ FoundRow(rows', r, l)
               /\ (IF m \in NamesOf(c) THEN fs[l] # Absent ELSE rows[r].deleted = 0)
                    => rows'[r].deleted = 0
    <2>1. CASE m = from
      <3>1. l = to
        BY <1>6, <1>8, <2>1 DEF Goes
      <3>2. r = moving.row
        BY <1>7, <1>8, <2>1 DEF FoundRow
      <3> QED
        BY <1>7, <3>1, <3>2 DEF FoundRow, LiveAt
    <2>2. CASE m # from
      <3>1. m = l /\ m \notin {from, to}
        BY <1>6, <1>8, <2>2 DEF Goes
      <3> QED
        BY <1>6, <1>7, <1>8, <3>1, SameIsFound
    <2> QED
      BY <2>1, <2>2
  <1>9. ASSUME NEW n \in Names, NEW r \in Nat \ {0}, Tracked(r, n) PROVE Tracked(r, n)'
    <2>1. UNCHANGED fs
      BY <1>1
    <2> HIDE DEF Tracked, Queue
    <2>2. \A m, l \in Names :
            FoundRow(rows, r, m) /\ Goes(c, m, l) =>
              /\ FoundRow(rows', r, l)
              /\ (IF m \in NamesOf(c) THEN fs[l] # Absent ELSE rows[r].deleted = 0)
                   => rows'[r].deleted = 0
      BY <1>8
    <2> QED
      BY <1>2, <1>5, <1>9, <2>1, <2>2, TrackedApplied
  <1>10. Unsure' => Unsure
    BY <1>1 DEF Unsure
  <1> QED
    BY <1>1, <1>9, <1>10, KnownKept

LEMMA KeepsStep ==
  TypeOK /\ TypeOK' /\ RecorderInv /\ MirrorInv /\ KeepsInv /\ [Next]_vars => KeepsInv'
  <1> SUFFICES ASSUME TypeOK, TypeOK', RecorderInv, MirrorInv, KeepsInv, [Next]_vars PROVE KeepsInv'
    OBVIOUS
  <1>1. CASE Users
    BY <1>1, UsersKnown DEF RecorderInv, MirrorInv
  <1>2. ASSUME UNCHANGED <<fs, edits>>, KnownInv' PROVE KeepsInv'
    BY <1>2 DEF KeepsInv, FilesInv
  <1>3. ASSUME UNCHANGED <<fs, edits>>, Forget PROVE KeepsInv'
    BY <1>2, <1>3, KnownForgotten DEF Forget
  <1>4. ASSUME UNCHANGED <<fs, edits, known>>, Unsure PROVE KeepsInv'
    BY <1>2, <1>4, KnownForgotten DEF KeepsInv, KnownInv
  <1>5. CASE (\E n \in Names : ScanEntry(n)) \/ Boot \/ EndScan
    BY <1>4, <1>5 DEF ScanEntry, ScanEntryBefore, Boot, EndScan, disk, history, Unsure
  <1>6. CASE ApplyOverflowed
    <2>1. inbox # <<>> /\ Head(inbox).kind = "overflowed" /\ UNCHANGED <<fs, edits, known>>
      BY <1>6 DEF ApplyOverflowed, Take, disk, history
    <2>2. inbox \in Seq(Change) /\ Len(inbox) # 0
      BY <2>1, EmptySeq DEF TypeOK
    <2>3. 1 \in DOMAIN inbox /\ inbox[1] = Head(inbox)
      BY <2>1, <2>2, LenProperties, HeadTailProperties
    <2> QED
      BY <1>4, <2>1, <2>3 DEF Unsure
  <1>7. CASE ApplyTouched \/ ApplyRemoved \/ ApplyRenamed
    BY <1>2, <1>7, TakeKnown DEF KeepsInv, ApplyTouched, ApplyRemoved, ApplyRenamed, Take, disk
  <1>8. CASE MoveRow
    BY <1>2, <1>8, MoveKnown DEF KeepsInv, MoveRow, disk
  <1>9. CASE HandlerFails \/ Crash \/ Overflow
    BY <1>3, <1>9 DEF HandlerFails, Crash, CrashLosing, Overflow, Lose, disk
  <1>10. CASE AppendEvent \/ ScanFails \/ UNCHANGED vars
    <2>1. UNCHANGED <<fs, edits, rows, inbox, pc, moving, known>>
      BY <1>10 DEF AppendEvent, ScanFails, vars, disk, store, handler, history
    <2>2. Queue' = Queue
      BY <2>1, QueueSame
    <2>3. ASSUME NEW n \in Names, NEW r \in Nat \ {0}, Tracked(r, n) PROVE Tracked(r, n)'
      BY <2>1, <2>2, <2>3 DEF Tracked, TrackedAlong
    <2>4. Unsure' => Unsure
      BY <2>1 DEF Unsure
    <2> QED
      BY <1>2, <2>1, <2>3, <2>4, KnownKept DEF KeepsInv
  <1> QED
    BY <1>1, <1>5, <1>6, <1>7, <1>8, <1>9, <1>10 DEF Next, Observe

LEMMA KeepsInvariant == Spec => []KeepsInv
  <1>1. Init => KeepsInv
    <2> SUFFICES ASSUME Init PROVE KeepsInv
      OBVIOUS
    <2>1. FilesInv
      BY DEF Init, FilesInv
    <2>2. \A i \in FileIds : known[i] = 0
      BY DEF Init
    <2>3. \A n \in Names : fs[n] # Absent => fs[n].file \in FileIds
      BY DEF Init, FileIds
    <2> QED
      BY <2>1, <2>2, <2>3 DEF KeepsInv, KnownInv
  <1> QED
    BY <1>1, KeepsStep, RecorderTypeInvariant, RecorderInvariant, MirrorInvariant, PTL DEF Spec

(* A file keeps its row, and with it its id, through every rename, over      *)
(* whatever was there and however far the handlers were behind, as long as   *)
(* no change is lost.                                                        *)
THEOREM RecorderKeepsRow == Spec => []KeepsRow
  <1>1. TypeOK /\ OneLiveRow /\ MirrorInv /\ KeepsInv => KeepsRow
    <2> SUFFICES ASSUME TypeOK, OneLiveRow, MirrorInv, KeepsInv, AtRest,
                        NEW n \in Names, fs[n] # Absent, known[fs[n].file] # 0
                 PROVE  RowOf(fs[n].file) = known[fs[n].file]
      BY DEF KeepsRow
    <2>1. fs[n].file \in FileIds
      BY DEF TypeOK
    <2>2. PICK i \in FileIds : i = fs[n].file
      BY <2>1
    <2>3. PICK r \in Nat \ {0} : r = known[i]
      BY <2>2 DEF TypeOK
    <2>4. Queue = <<>> /\ Len(Queue) = 0
      BY QueueIs, EmptySeq DEF AtRest, Idle, MirrorInv
    <2>5. Tracked(r, n)
      BY <2>2, <2>3 DEF KeepsInv, KnownInv
    <2>6. FoundRow(rows, r, n) /\ rows[r].deleted = 0
      <3>1. ~ After(Queue, n, 0)
        BY <2>4 DEF After
      <3> QED
        BY <2>4, <2>5, <3>1 DEF Tracked, TrackedAlong, Way
    <2>7. r \in DOMAIN rows /\ rows[r].name = n
      BY <2>6, FoundRowIs DEF RowsAt
    <2>8. ASSUME NEW q \in DOMAIN rows, rows[q].deleted = 0, fs[rows[q].name] # Absent,
                 fs[rows[q].name].file = i
          PROVE  q = r
      <3>1. rows[q].name \in Names
        BY <2>8, TableType DEF TypeOK, Row
      <3>2. rows[q].name = n
        BY <2>2, <2>8, <3>1 DEF KeepsInv, FilesInv
      <3> QED
        BY <2>6, <2>7, <2>8, <3>2 DEF OneLiveRow, LiveAt, RowsAt
    <2> DEFINE S == {q \in DOMAIN rows :
                       rows[q].deleted = 0 /\ fs[rows[q].name] # Absent /\ fs[rows[q].name].file = i}
    <2>9. S = {r}
      BY <2>2, <2>6, <2>7, <2>8
    <2>10. RowOf(i) = IF S = {} THEN 0 ELSE CHOOSE q \in S : TRUE
      BY DEF RowOf
    <2> HIDE DEF S
    <2>11. RowOf(i) = r
      BY <2>9, <2>10
    <2> QED
      BY <2>2, <2>3, <2>11
  <1> QED
    BY <1>1, RecorderTypeInvariant, RecorderOneLiveRow, MirrorInvariant, KeepsInvariant, PTL

-----------------------------------------------------------------------------
(* The observer with the real watch. P is Watch's instance again, with its   *)
(* theorems; what Observer uses of W is the same there.                      *)

LEMMA SameChanges ==
  /\ P!FileChange = FileChange
  /\ P!Change = Change
  BY DEF P!Change, Change, P!FileChange, FileChange, P!Touched, Touched, P!Removed, Removed,
         P!Renamed, Renamed, P!Overflowed, Overflowed

LEMMA SameWatchType == P!TypeOK => W!TypeOK
  <1>1. W!FileChange = P!FileChange
    BY DEF W!FileChange, P!FileChange, W!Touched, P!Touched, W!Removed, P!Removed,
           W!Renamed, P!Renamed
  <1>2. W!Change = P!Change
    BY <1>1 DEF W!Change, P!Change, W!Overflowed, P!Overflowed
  <1>3. W!HalfEvent = P!HalfEvent
    BY DEF W!HalfEvent, P!HalfEvent, W!From, P!From, W!To, P!To, W!Half, P!Half,
           W!Removed, P!Removed, W!Touched, P!Touched
  <1>4. W!RawEvent = P!RawEvent
    BY <1>1, <1>3 DEF W!RawEvent, P!RawEvent, W!Plain, P!Plain, W!Both, P!Both,
                      W!Rescan, P!Rescan, W!Overflowed, P!Overflowed
  <1>5. QED
    BY <1>1, <1>2, <1>3, <1>4 DEF W!TypeOK, P!TypeOK, W!OneEntryPerPath, P!OneEntryPerPath

LEMMA SameNotify ==
  ASSUME NEW c
  PROVE  /\ W!Notify(c) => P!Notify(c)
         /\ W!NotifyOverflows(c) => P!NotifyOverflows(c)
  <1>1. ASSUME NEW k PROVE W!Reports(c, k) = P!Reports(c, k)
    BY DEF W!Reports, P!Reports, W!Plain, P!Plain, W!From, P!From, W!To, P!To, W!Half, P!Half,
           W!Both, P!Both, W!Removed, P!Removed, W!Touched, P!Touched
  <1>2. W!Rescan = P!Rescan
    BY DEF W!Rescan, P!Rescan, W!Overflowed, P!Overflowed
  <1>3. QED
    BY <1>1, <1>2 DEF W!Notify, P!Notify, W!NotifyOverflows, P!NotifyOverflows,
                      W!watch, P!watch

LEMMA SamePoll == W!Poll => P!Poll
  <1>1. W!AbsorbOverflow = P!AbsorbOverflow
    BY DEF W!AbsorbOverflow, P!AbsorbOverflow, W!Absorb, P!Absorb, W!NamesOf, P!NamesOf
  <1>2. W!AbsorbPlain = P!AbsorbPlain
    BY DEF W!AbsorbPlain, P!AbsorbPlain, W!Absorb, P!Absorb, W!NamesOf, P!NamesOf,
           W!Insert, P!Insert, W!With, P!With, W!Without, P!Without
  <1>3. W!AbsorbBoth = P!AbsorbBoth
    BY DEF W!AbsorbBoth, P!AbsorbBoth, W!Absorb, P!Absorb, W!NamesOf, P!NamesOf,
           W!EmitRename, P!EmitRename, W!With, P!With, W!Without, P!Without,
           W!Renamed, P!Renamed
  <1>4. ASSUME NEW kind PROVE W!AbsorbHalf(kind) = P!AbsorbHalf(kind)
    BY DEF W!AbsorbHalf, P!AbsorbHalf, W!Absorb, P!Absorb, W!NamesOf, P!NamesOf,
           W!EmitRename, P!EmitRename, W!With, P!With, W!Without, P!Without,
           W!Renamed, P!Renamed, W!Partners, P!Partners
  <1>5. ASSUME NEW h PROVE W!ExpireHalf(h) = P!ExpireHalf(h)
    BY DEF W!ExpireHalf, P!ExpireHalf, W!NamesOf, P!NamesOf, W!Insert, P!Insert,
           W!With, P!With, W!Without, P!Without
  <1>6. W!TakeExpired = P!TakeExpired
    BY DEF W!TakeExpired, P!TakeExpired, W!NamesOf, P!NamesOf, W!Mentioned, P!Mentioned,
           W!Overflowed, P!Overflowed, W!Bijection, P!Bijection, W!Injection, P!Injection,
           W!Surjection, P!Surjection, W!IsInjective, P!IsInjective
  <1>7. QED
    BY <1>1, <1>2, <1>3, <1>4, <1>5, <1>6 DEF W!Poll, P!Poll

(* What P's theorems assume of the constants.                               *)
LEMMA WatchConstants ==
  LateHalves \in BOOLEAN /\ MaxEdits \in Nat /\ MaxOverflows \in Nat /\ None \notin Names
  BY ObserverAssumption, RecorderAssumption, ChangesAssumption

LEMMA HeldAreNames == Mentioned(inbox) \cup W!Held \in SUBSET Names \/ ~ P!WatchInv
  <1> SUFFICES ASSUME P!WatchInv PROVE Mentioned(inbox) \cup W!Held \in SUBSET Names
    OBVIOUS
  <1>1. ASSUME NEW h \in halves PROVE h.change.to \in Names
    BY WatchConstants, P!HalfEventFields DEF P!WatchInv, P!TypeOK
  <1>2. QED
    BY <1>1 DEF W!Held, Mentioned, NamesOf, W!Mentioned, W!NamesOf

-----------------------------------------------------------------------------
(* A step of the observer is one of the handlers' with some watch, and it    *)
(* keeps what is known of the watch.                                        *)

LEMMA ObserverIsCommon ==
  TypeOK /\ P!WatchInv /\ [ObserverNext]_allVars
    => (CommonStep \/ UNCHANGED vars) /\ (TypeOK' => P!WatchInv')
  <1> SUFFICES ASSUME TypeOK, P!WatchInv, [ObserverNext]_allVars
               PROVE  (CommonStep \/ UNCHANGED vars) /\ (TypeOK' => P!WatchInv')
    OBVIOUS
  <1>1. /\ inbox \in Seq(Change) /\ known \in [FileIds -> Nat] /\ missed \subseteq Names
        /\ overflows \in 0 .. MaxOverflows /\ edits \in 0 .. MaxEdits
        /\ MaxEdits \in Nat /\ MaxOverflows \in Nat
    BY RecorderAssumption DEF TypeOK
  (* What is left to the handlers leaves the watch alone.                   *)
  <1>2. ASSUME CommonStep, UNCHANGED watchVars, UNCHANGED edits, TypeOK'
        PROVE  P!WatchInv'
    <2>1. inbox' \in Seq(P!Change) /\ overflows' \in 0 .. MaxOverflows
      BY <1>2, SameChanges DEF TypeOK
    <2>2. edits' \in edits .. MaxEdits /\ moves' = moves /\ reused' = reused
      BY <1>1, <1>2 DEF watchVars
    <2>3. UNCHANGED <<raw, P!watch, unsaid>>
      BY <1>2 DEF watchVars, P!watch
    <2>4. QED
      BY <2>1, <2>2, <2>3, WatchConstants, P!OutsideStep
  <1>3. CASE UsersObserved
    <2>1. PICK e \in EditsNow :
            /\ ChangeFiles(e)
            /\ \/ /\ W!Notify(e.change)
                  /\ known' = known \/ known' = RowsOfFiles
                  /\ UNCHANGED missed
               \/ W!NotifyOverflows(e.change) /\ Lose(NamesOf(e.change))
               \/ Lose(NamesOf(e.change)) /\ UNCHANGED <<watchVars, inbox, overflows>>
            /\ UNCHANGED <<crashes, faults>>
      BY <1>3 DEF UsersObserved
    <2>2. e.change \in FileChange /\ edits < MaxEdits /\ edits' = edits + 1
      BY <2>1, EditsNowType DEF ChangeFiles
    <2>3. CASE W!Notify(e.change) \/ W!NotifyOverflows(e.change)
      <3>1. P!WatchInv'
        BY <2>2, <2>3, SameChanges, SameNotify, WatchConstants, P!NotifyStep
      <3>2. inbox' \in Seq(Change) /\ overflows' \in 0 .. MaxOverflows
        BY <3>1, SameChanges DEF P!WatchInv, P!TypeOK
      <3>3. known' \in [FileIds -> Nat] /\ missed' \subseteq Names
        <4>1. NamesOf(e.change) \in SUBSET Names
          BY DEF NamesOf
        <4>2. QED
          BY <1>1, <2>1, <4>1, RowsOfFilesType, LoseType
      <3>4. QED
        BY <2>1, <3>1, <3>2, <3>3 DEF CommonStep, Arrives
    <2>4. CASE Lose(NamesOf(e.change)) /\ UNCHANGED <<watchVars, inbox, overflows>>
      <3>1. NamesOf(e.change) \in SUBSET Names
        BY DEF NamesOf
      <3>2. known' \in [FileIds -> Nat] /\ missed' \subseteq Names
        BY <2>4, <3>1, LoseType
      <3>3. CommonStep
        BY <1>1, <2>1, <2>4, <3>2 DEF CommonStep, Arrives
      <3>4. inbox' \in Seq(P!Change) /\ overflows' \in 0 .. MaxOverflows
        BY <1>1, <2>4, SameChanges
      <3>5. edits' \in edits .. MaxEdits /\ moves' = moves /\ reused' = reused
        BY <1>1, <2>2, <2>4 DEF watchVars
      <3>6. UNCHANGED <<raw, P!watch, unsaid>>
        BY <2>4 DEF watchVars, P!watch
      <3>7. QED
        BY <3>3, <3>4, <3>5, <3>6, WatchConstants, P!OutsideStep
    <2>5. QED
      BY <2>1, <2>3, <2>4
  <1>4. CASE Poll
    <2>1. /\ W!Poll
          /\ UNCHANGED <<fs, store, pc, scanning, handler, crashes, faults, history>>
      BY <1>4 DEF Poll
    <2>2. P!WatchInv' /\ edits' = edits /\ overflows' = overflows
      BY <2>1, SamePoll, WatchConstants, P!PollStep
    <2>3. inbox' \in Seq(Change)
      BY <2>2, SameChanges DEF P!WatchInv, P!TypeOK
    <2>4. CommonStep
      BY <1>1, <2>1, <2>2, <2>3 DEF CommonStep, Arrives, disk, history
    <2>5. QED
      BY <2>2, <2>4
  <1>5. CASE ApplyChange
    <2>1. CommonStep
      BY <1>5, HeldAreNames DEF ApplyChange, CommonStep
    <2>2. UNCHANGED edits
      BY <1>5 DEF ApplyChange, ApplyOverflowed, ApplyTouched, ApplyRemoved, ApplyRenamed,
                  AppendEvent, MoveRow, EndScan, ScanEntryBefore, Take, disk
    <2>3. QED
      BY <1>2, <1>5, <2>1, <2>2 DEF ApplyChange
  <1>6. CASE Start
    BY <1>2, <1>6 DEF Start, Boot, disk, CommonStep
  <1>7. CASE Mishap
    BY <1>2, <1>7 DEF Mishap, HandlerFails, ScanFails, disk, CommonStep
  <1>8. CASE Kill
    <2>1. CommonStep
      BY <1>8, HeldAreNames DEF Kill, CommonStep
    <2>2. inbox' = <<>> /\ edits' = edits /\ overflows' = overflows
      BY <1>8 DEF Kill, CrashLosing, disk
    <2>3. inbox' \in Seq(P!Change) /\ edits' \in edits .. MaxEdits
      BY <1>1, <2>2
    <2>4. /\ moves' = moves /\ reused' = reused
          /\ raw' = <<>> /\ pending' = <<>> /\ halves' = {} /\ overflowed' = FALSE
          /\ unsaid' = {}
      BY <1>8 DEF Kill
    <2>5. QED
      BY <1>1, <2>1, <2>2, <2>3, <2>4, WatchConstants, P!OutsideStep
  <1>9. CASE UNCHANGED allVars
    <2>1. UNCHANGED vars /\ UNCHANGED <<raw, P!watch, unsaid, moves, reused>>
      BY <1>9 DEF allVars, watchVars, P!watch
    <2>2. UNCHANGED <<inbox, edits, overflows>>
      BY <2>1 DEF vars, disk, faultCounters
    <2>3. inbox' \in Seq(P!Change) /\ edits' \in edits .. MaxEdits
      BY <1>1, <2>2, SameChanges
    <2>4. QED
      BY <1>1, <2>1, <2>2, <2>3, WatchConstants, P!OutsideStep
  <1>10. QED
    BY <1>3, <1>4, <1>5, <1>6, <1>7, <1>8, <1>9 DEF ObserverNext

LEMMA ObserverInvariant == ObserverSpec => [](TypeOK /\ P!WatchInv /\ RecorderInv)
  <1>1. ObserverInit => TypeOK /\ P!WatchInv /\ RecorderInv
    <2> SUFFICES ASSUME ObserverInit PROVE TypeOK /\ P!WatchInv /\ RecorderInv
      OBVIOUS
    <2>1. P!WatchInit /\ edits = 0 /\ overflows = 0
      BY DEF ObserverInit, Init, W!WatchInit, P!WatchInit
    <2>2. QED
      BY <2>1, WatchConstants, P!InitialInv, InitialRecorder DEF ObserverInit
  <1>2. TypeOK /\ P!WatchInv /\ RecorderInv /\ [ObserverNext]_allVars
          => (TypeOK /\ P!WatchInv /\ RecorderInv)'
    BY ObserverIsCommon, RecorderTypeStep, RecorderInvStep
  <1>3. QED
    BY <1>1, <1>2, PTL DEF ObserverSpec

(* Handlers and watch together keep their types: above all, whatever the     *)
(* watch merges, pairs or hands over, the handlers get changes of names      *)
(* there are, and the watch has one entry for each path.                    *)
THEOREM ObserverTypeCorrect == ObserverSpec => []ObserverTypeOK
  <1>1. TypeOK /\ P!WatchInv => ObserverTypeOK
    BY SameWatchType DEF P!WatchInv, ObserverTypeOK
  <1>2. QED
    BY <1>1, ObserverInvariant, PTL

(* The history is as sound with the real watch as with the perfect one: a    *)
(* watch that merges, delays, reorders, mispairs or loses changes costs no   *)
(* row its history, and each event follows from the one before it.          *)
THEOREM ObserverHistorySound == ObserverSpec => []HistorySound
  <1>1. RecorderInv => HistorySound
    BY DEF RecorderInv, HistorySound
  <1>2. QED
    BY <1>1, ObserverInvariant, PTL

(* Nor does it ever lead a handler into the unique index of the live rows.   *)
THEOREM ObserverOneLiveRow == ObserverSpec => []OneLiveRow
  <1>1. RecorderInv => OneLiveRow
    BY DEF RecorderInv
  <1>2. QED
    BY <1>1, ObserverInvariant, PTL

-----------------------------------------------------------------------------
(* The mirror, with the real watch. A name that no rename touched and no     *)
(* change of which was lost is in step unless something waits about it, and  *)
(* if a file is there now, the last of what waits is no removal. A handler   *)
(* on the way is of another name: it moves a row of a move somebody made.    *)

Undisturbed(n) == n \notin missed \cup reused /\ P!Unmoved(n)

MovingIsMove == moving # None => <<moving.from, moving.to>> \in moves

InStep(n) ==
  /\ fs[n] # Absent => P!Stays(n)
  /\ ~ P!Waits(n) => InSync(n)

ApartInv ==
  /\ P!TruePairs
  /\ MovingIsMove
  /\ \A n \in Names : Undisturbed(n) => InStep(n)

-----------------------------------------------------------------------------
(* The names the scans and kills are told wait are those.                    *)
LEMMA WaitsIs ==
  ASSUME P!WatchInv, NEW n \in Names
  PROVE  P!Waits(n) <=> n \in Mentioned(inbox) \cup W!Held
  <1>1. \A c : P!NamesOf(c) = NamesOf(c) /\ W!NamesOf(c) = NamesOf(c)
    BY DEF P!NamesOf, W!NamesOf, NamesOf
  <1>2. n \in Mentioned(inbox) <=> P!Of(inbox, n) # {}
    BY <1>1 DEF Mentioned, P!Of, P!Range
  <1>3. n \in W!Mentioned(pending) <=> P!Of(pending, n) # {}
    BY <1>1 DEF W!Mentioned, P!Of, P!Range
  <1>4. n \in {h.change.to : h \in halves} <=> P!HalvesOf(n) # {}
    BY DEF P!HalvesOf
  <1>5. n \in UNION {W!NamesOf(raw[i].change) : i \in DOMAIN raw} <=> P!RawAt(raw, n) # {}
    BY <1>1 DEF P!RawAt
  <1> QED
    BY <1>2, <1>3, <1>4, <1>5 DEF W!Held, P!Waits

LEMMA SameNames == \A c : P!NamesOf(c) = NamesOf(c)
  BY DEF P!NamesOf, NamesOf

(* A name is only ever disturbed more, but for what a scan finds in step.    *)
LEMMA UndisturbedBefore ==
  ASSUME missed \subseteq missed', reused \subseteq reused', moves \subseteq moves',
         NEW n, Undisturbed(n)'
  PROVE  Undisturbed(n)
  BY DEF Undisturbed, P!Unmoved

(* Steps that leave the files, the watch and the inbox alone and change rows *)
(* at other names only.                                                     *)
LEMMA InStepSame ==
  ASSUME UNCHANGED <<raw, pending, halves, inbox>>, NEW n \in Names, fs'[n] = fs[n],
         LiveAt(rows', n) = LiveAt(rows, n), InStep(n)
  PROVE  InStep(n)'
  <1>1. (P!Stays(n)' <=> P!Stays(n)) /\ (P!Waits(n)' <=> P!Waits(n))
    BY WatchConstants, P!WaitsSame
  <1> QED
    BY <1>1 DEF InStep, InSync

LEMMA PairsSame ==
  ASSUME P!TruePairs, UNCHANGED <<pending, inbox, moves>>
  PROVE  P!TruePairs'
  BY DEF P!TruePairs

LEMMA RestApart ==
  ASSUME ApartInv, UNCHANGED <<watchVars, inbox, fs, rows>>, moving' \in {moving, None},
         missed \subseteq missed'
  PROVE  ApartInv'
  <1>1. P!TruePairs' /\ MovingIsMove'
    BY PairsSame DEF ApartInv, watchVars, MovingIsMove
  <1>2. ASSUME NEW n \in Names, Undisturbed(n)' PROVE InStep(n)'
    <2>1. Undisturbed(n)
      BY <1>2, UndisturbedBefore DEF watchVars
    <2>2. InStep(n)
      BY <2>1 DEF ApartInv
    <2> QED
      BY <2>2, InStepSame DEF watchVars
  <1> QED
    BY <1>1, <1>2 DEF ApartInv

-----------------------------------------------------------------------------
(* Users.                                                                   *)
LEMMA UsersApart ==
  ASSUME TypeOK, P!WatchInv, ApartInv, UsersObserved
  PROVE  ApartInv'
  <1>1. PICK e \in EditsNow :
          /\ ChangeFiles(e)
          /\ \/ W!Notify(e.change) /\ UNCHANGED missed
             \/ W!NotifyOverflows(e.change) /\ missed' = missed \cup NamesOf(e.change)
             \/ missed' = missed \cup NamesOf(e.change) /\ UNCHANGED <<watchVars, inbox>>
    BY DEF UsersObserved, Lose
  <1>2. fs' = e.fs /\ UNCHANGED <<rows, moving>> /\ edits < MaxEdits
    BY <1>1 DEF ChangeFiles, store, handler
  <1>3. PICK c \in P!FileChange : c = e.change
    BY <1>2, EditsNowType, SameChanges
  <1>4. \A n \in Names : IF n \in NamesOf(c) THEN Fits(fs', c, n) ELSE fs'[n] = fs[n]
    BY <1>2, <1>3, EditsNowFit
  <1>5. \/ P!Notify(c) /\ UNCHANGED missed
        \/ P!NotifyOverflows(c) /\ missed' = missed \cup NamesOf(c)
        \/ missed' = missed \cup NamesOf(c) /\ UNCHANGED <<watchVars, inbox>>
    BY <1>1, <1>3, SameNotify
  <1>6. /\ UNCHANGED <<pending, inbox, reused>> /\ moves \subseteq moves' /\ missed \subseteq missed'
        /\ P!Notify(c) /\ c.kind = "renamed" => <<c.from, c.to>> \in moves'
    BY <1>5 DEF P!Notify, P!NotifyOverflows, P!watch, watchVars
  <1>7. P!TruePairs' /\ MovingIsMove'
    BY <1>2, <1>6 DEF ApartInv, P!TruePairs, MovingIsMove
  <1>8. ASSUME NEW n \in Names, Undisturbed(n)' PROVE InStep(n)'
    <2>1. Undisturbed(n) /\ n \notin missed'
      BY <1>6, <1>8, UndisturbedBefore DEF Undisturbed
    <2>2. InStep(n)
      BY <2>1 DEF ApartInv
    <2>3. CASE n \notin NamesOf(c)
      <3>1. fs'[n] = fs[n]
        BY <1>4, <2>3
      <3>2. CASE UNCHANGED <<watchVars, inbox>>
        BY <1>2, <2>2, <3>1, <3>2, InStepSame DEF watchVars
      <3>3. CASE P!Notify(c) \/ P!NotifyOverflows(c)
        <4>1. (P!Stays(n)' <=> P!Stays(n)) /\ (P!Waits(n)' <=> P!Waits(n))
          BY <1>2, <2>3, <3>3, SameNames, WatchConstants, P!NotifyStays
        <4> QED
          BY <1>2, <2>2, <3>1, <4>1 DEF InStep, InSync
      <3> QED
        BY <1>5, <3>2, <3>3
    <2>4. CASE n \in NamesOf(c)
      <3>1. P!Notify(c)
        BY <1>5, <2>1, <2>4
      <3>2. NamesOf(c) = {c.from, c.to} /\ c.kind \in {"touched", "removed", "renamed"}
            /\ (c.kind # "renamed" => c.from = c.to)
        BY SameNames, WatchConstants, P!FileChangeFields
      <3>3. c.kind # "renamed"
        BY <1>6, <1>8, <2>4, <3>1, <3>2 DEF Undisturbed, P!Unmoved
      <3>4. P!Waits(n)' /\ (c.kind # "removed" => P!Stays(n)')
        BY <1>2, <2>4, <3>1, <3>3, SameNames, WatchConstants, P!NotifyStays
      <3>5. c.kind = "removed" => fs'[n] = Absent
        BY <1>4, <2>4, <3>2, <3>3 DEF Fits
      <3> QED
        BY <3>4, <3>5 DEF InStep
    <2> QED
      BY <2>3, <2>4
  <1> QED
    BY <1>7, <1>8 DEF ApartInv

-----------------------------------------------------------------------------
(* Polls.                                                                   *)
LEMMA PollApart ==
  ASSUME P!WatchInv, ApartInv, Poll
  PROVE  ApartInv'
  <1>1. P!Poll /\ UNCHANGED <<fs, rows, moving, missed>>
    BY SamePoll DEF Poll, store, handler, history
  <1>2. moves' = moves
    BY <1>1, WatchConstants, P!PollWrites
  <1>3. reused \subseteq reused'
    BY <1>1 DEF P!Poll, P!AbsorbOverflow, P!AbsorbPlain, P!AbsorbBoth, P!AbsorbHalf, P!Absorb,
                P!ExpireHalf, P!TakeExpired
  <1>4. P!TruePairs'
    BY <1>1, WatchConstants, P!PollKeepsPairs DEF ApartInv
  <1>5. MovingIsMove'
    BY <1>1, <1>2 DEF ApartInv, MovingIsMove
  <1>6. ASSUME NEW n \in Names, Undisturbed(n)' PROVE InStep(n)'
    <2>1. Undisturbed(n) /\ n \notin reused'
      BY <1>1, <1>2, <1>3, <1>6, UndisturbedBefore DEF Undisturbed
    <2>2. InStep(n)
      BY <2>1 DEF ApartInv
    <2>3. (P!Stays(n) => P!Stays(n)') /\ (P!Waits(n) => P!Waits(n)')
      BY <1>1, <2>1, WatchConstants, P!PollStays DEF ApartInv, Undisturbed
    <2> QED
      BY <1>1, <2>2, <2>3 DEF InStep, InSync
  <1> QED
    BY <1>4, <1>5, <1>6 DEF ApartInv

-----------------------------------------------------------------------------
(* The handlers.                                                            *)

(* A change taken up: a name it is about is in step when nothing else waits  *)
(* for it, or the row is a removed one's; the others' rows stay.            *)
LEMMA TakenApart ==
  ASSUME P!WatchInv, ApartInv, inbox # <<>>, inbox' = Tail(inbox),
         UNCHANGED <<watchVars, fs>>, missed \subseteq missed', MovingIsMove',
         \A n \in Names : Undisturbed(n)' =>
           IF n \in NamesOf(Head(inbox))
           THEN ~ P!Waits(n)' /\ (fs[n] # Absent => Head(inbox).kind # "removed") => InSync(n)'
           ELSE LiveAt(rows', n) = LiveAt(rows, n)
  PROVE  ApartInv'
  <1>1. UNCHANGED <<raw, pending, halves, moves, reused>>
    BY DEF watchVars
  <1>2. P!TruePairs'
    <2>1. inbox \in Seq(P!Change)
      BY DEF P!WatchInv, P!TypeOK
    <2>2. \A i \in DOMAIN inbox' : \E j \in DOMAIN inbox : inbox'[i] = inbox[j]
      <3> DEFINE t == Tail(inbox)
      <3>1. Len(inbox) \in Nat /\ DOMAIN inbox = 1 .. Len(inbox)
        BY <2>1, LenProperties
      <3>2. t \in Seq(P!Change) /\ Len(t) = Len(inbox) - 1 /\ \A i \in 1 .. Len(t) : t[i] = inbox[i + 1]
        BY <2>1, HeadTailProperties
      <3> HIDE DEF t
      <3>3. DOMAIN t = 1 .. Len(inbox) - 1 /\ \A i \in DOMAIN t : t[i] = inbox[i + 1]
        BY <3>1, <3>2, LenProperties
      <3>4. \A i \in 1 .. Len(inbox) - 1 : i + 1 \in DOMAIN inbox
        BY <3>1
      <3>5. \A i \in DOMAIN t : \E j \in DOMAIN inbox : t[i] = inbox[j]
        BY <3>3, <3>4
      <3> QED
        BY <3>5 DEF t
    <2>3. \A i \in DOMAIN inbox : inbox[i].kind = "renamed" => <<inbox[i].from, inbox[i].to>> \in moves
      BY DEF ApartInv, P!TruePairs
    <2>4. \A i \in DOMAIN pending : pending[i].kind = "renamed" => <<pending[i].from, pending[i].to>> \in moves
      BY DEF ApartInv, P!TruePairs
    <2>5. \A i \in DOMAIN inbox' : inbox'[i].kind = "renamed" => <<inbox'[i].from, inbox'[i].to>> \in moves'
      BY <1>1, <2>2, <2>3
    <2> QED
      BY <1>1, <2>4, <2>5 DEF P!TruePairs
  <1>3. ASSUME NEW n \in Names, Undisturbed(n)' PROVE InStep(n)'
    <2>1. Undisturbed(n)
      BY <1>1, <1>3, UndisturbedBefore
    <2>2. InStep(n)
      BY <2>1 DEF ApartInv
    <2>3. /\ P!Stays(n) => P!Stays(n)'
          /\ P!Waits(n) => P!Waits(n)' \/ n \in NamesOf(Head(inbox))
          /\ P!Stays(n) /\ n \in NamesOf(Head(inbox)) /\ ~ P!Waits(n)' => Head(inbox).kind # "removed"
      BY <1>1, SameNames, WatchConstants, P!InboxTaken
    <2>4. CASE n \in NamesOf(Head(inbox))
      BY <1>3, <2>2, <2>3, <2>4 DEF InStep
    <2>5. CASE n \notin NamesOf(Head(inbox))
      BY <1>3, <2>2, <2>3, <2>5 DEF InStep, InSync
    <2> QED
      BY <2>4, <2>5
  <1> QED
    BY <1>2, <1>3 DEF ApartInv

LEMMA TakeApart ==
  ASSUME TypeOK, P!WatchInv, RecorderInv, ApartInv, UNCHANGED watchVars,
         ApplyTouched \/ ApplyRemoved \/ ApplyRenamed
  PROVE  ApartInv'
  <1> DEFINE h == Head(inbox)
  <1>1. /\ due = None /\ moving = None /\ inbox # <<>> /\ inbox' = Tail(inbox)
        /\ UNCHANGED <<fs, missed>> /\ h.kind \in {"touched", "removed", "renamed"}
    BY DEF ApplyTouched, ApplyRemoved, ApplyRenamed, Take, Idle, disk, history
  <1>2. PICK c \in Change : c = h
    BY <1>1, HeadTailProperties DEF TypeOK
  <1>3. /\ c.from \in Names /\ c.to \in Names /\ NamesOf(c) = {c.from, c.to}
        /\ c.kind \in {"touched", "removed", "renamed"}
        /\ c.kind \in {"touched", "removed"} => c.from = c.to
    BY <1>1, <1>2 DEF Change, FileChange, Touched, Removed, Renamed, Overflowed, NamesOf
  <1>4. \A n \in Names : Undisturbed(n)' => P!Unmoved(n)
    BY DEF Undisturbed, P!Unmoved, watchVars
  <1>5. c.kind = "renamed" => <<c.from, c.to>> \in moves
    <2>1. 1 \in DOMAIN inbox /\ inbox[1] = c
      BY <1>1, <1>2, EmptySeq DEF TypeOK
    <2> QED
      BY <2>1 DEF ApartInv, P!TruePairs
  <1>6. c.kind = "renamed" => \A n \in Names : Undisturbed(n)' => n \notin NamesOf(c)
    BY <1>3, <1>4, <1>5 DEF P!Unmoved
  <1> HIDE DEF h
  <1>7. ASSUME MovingIsMove',
               \A n \in Names : Undisturbed(n)' =>
                 IF n \in NamesOf(c)
                 THEN (fs[n] # Absent => c.kind # "removed") => InSync(n)'
                 ELSE LiveAt(rows', n) = LiveAt(rows, n)
        PROVE  ApartInv'
    <2>1. Head(inbox) = c
      BY <1>2 DEF h
    <2> QED
      BY <1>1, <1>7, <2>1, TakenApart
  <1>8. PICK to \in Names : to = c.to
    BY <1>3
  <1>9. ASSUME moving' = None, RecordPath(to) PROVE ApartInv'
    <2>1. (LiveAt(rows', to) = {}) = (fs[to] = Absent) /\ \A m \in Names \ {to} : Same(m)
      BY <1>9, RecordPathAt DEF RecorderInv
    <2>2. \A m \in Names \ {to} : LiveAt(rows', m) = LiveAt(rows, m)
      BY <2>1, SameFinds
    <2>3. InSync(to)'
      BY <1>1, <2>1 DEF InSync
    <2>4. \A n \in Names : Undisturbed(n)' => (n \in NamesOf(c) <=> n = to)
      BY <1>3, <1>6, <1>8, <2>3
    <2> QED
      BY <1>7, <1>9, <2>2, <2>3, <2>4 DEF MovingIsMove
  <1>10. CASE ApplyTouched
    BY <1>1, <1>2, <1>8, <1>9, <1>10 DEF ApplyTouched, h
  <1>11. CASE ApplyRemoved
    <2>1. c.kind = "removed" /\ RecordRemoval(to) /\ moving' = None
      BY <1>1, <1>2, <1>8, <1>11 DEF ApplyRemoved, Take, h
    <2>2. LiveAt(rows', to) = {} /\ \A m \in Names \ {to} : Same(m)
      BY <2>1, RecordRemovalAt DEF RecorderInv
    <2>3. \A m \in Names \ {to} : LiveAt(rows', m) = LiveAt(rows, m)
      BY <2>2, SameFinds
    <2>4. fs[to] = Absent => InSync(to)'
      BY <1>1, <2>2 DEF InSync
    <2>5. \A n : n \in NamesOf(c) <=> n = to
      BY <1>3, <1>8, <2>1
    <2> QED
      BY <1>7, <2>1, <2>3, <2>4, <2>5 DEF MovingIsMove
  <1>12. CASE ApplyRenamed
    <2>1. c.kind = "renamed"
      BY <1>2, <1>12 DEF ApplyRenamed, Take, h
    <2>2. CASE ~ IsKnown(c.from)
      BY <1>1, <1>2, <1>8, <1>9, <1>12, <2>2 DEF ApplyRenamed, h
    <2>3. CASE IsKnown(c.from)
      <3>1. /\ Displace(FoundAt(rows, c.from), to)
            /\ moving' = [row |-> FoundAt(rows, c.from), from |-> c.from, to |-> to]
        BY <1>2, <1>8, <1>12, <2>3 DEF ApplyRenamed, h
      <3>2. MovingIsMove'
        BY <1>5, <1>8, <2>1, <3>1 DEF MovingIsMove, watchVars
      <3>3. \A m \in Names \ {to} : Same(m)
        BY <3>1, DisplaceAt
      <3>4. \A n \in Names : Undisturbed(n)' => n \notin NamesOf(c) /\ LiveAt(rows', n) = LiveAt(rows, n)
        BY <1>3, <1>6, <1>8, <2>1, <3>3, SameFinds
      <3> QED
        BY <1>7, <3>2, <3>4
    <2> QED
      BY <2>2, <2>3
  <1> QED
    BY <1>10, <1>11, <1>12

LEMMA ApplyOverflowedApart ==
  ASSUME P!WatchInv, ApartInv, UNCHANGED watchVars, ApplyOverflowed
  PROVE  ApartInv'
  <1>1. /\ inbox # <<>> /\ inbox' = Tail(inbox) /\ UNCHANGED <<fs, rows, missed, moving>>
        /\ Head(inbox).kind = "overflowed"
    BY DEF ApplyOverflowed, Take, disk, store, handler, history
  <1>2. Head(inbox) \in P!Change
    BY <1>1, HeadTailProperties DEF P!WatchInv, P!TypeOK
  <1>3. NamesOf(Head(inbox)) = {}
    BY <1>1, <1>2, SameChanges, ChangesAssumption
       DEF Change, FileChange, Touched, Removed, Renamed, Overflowed, NamesOf
  <1>4. MovingIsMove'
    BY <1>1 DEF ApartInv, MovingIsMove, watchVars
  <1> QED
    BY <1>1, <1>3, <1>4, TakenApart

LEMMA MoveRowApart ==
  ASSUME TypeOK, P!WatchInv, RecorderInv, ApartInv, UNCHANGED watchVars, MoveRow
  PROVE  ApartInv'
  <1> DEFINE row == [name |-> moving.to, stamp |-> rows[moving.row].stamp, deleted |-> 0]
  <1>1. /\ moving # None /\ moving' = None /\ UNCHANGED <<fs, inbox, missed>>
        /\ rows' = Moved(rows, moving.row, moving.to)
    BY DEF MoveRow, disk, history
  <1>2. /\ rows \in Seq(Row) /\ moving.row \in DOMAIN rows /\ moving.to \in Names
        /\ rows[moving.row].name = moving.from /\ <<moving.from, moving.to>> \in moves
    BY <1>1 DEF TypeOK, Move, RecorderInv, MovingInv, ApartInv, MovingIsMove
  <1>3. Sets(rows, rows', moving.row, row)
    BY <1>1, <1>2, MovedSets
  <1>4. row.name = moving.to
    OBVIOUS
  <1> HIDE DEF row
  <1>5. ASSUME NEW n \in Names, Undisturbed(n)' PROVE InStep(n)'
    <2>1. Undisturbed(n)
      BY <1>1, <1>5, UndisturbedBefore DEF watchVars
    <2>2. n # moving.from /\ n # moving.to
      BY <1>2, <2>1 DEF Undisturbed, P!Unmoved
    <2>3. LiveAt(rows', n) = LiveAt(rows, n)
      BY <1>2, <1>3, <1>4, <2>2, SetsSame, SameFinds
    <2>4. InStep(n)
      BY <2>1 DEF ApartInv
    <2> QED
      BY <1>1, <2>3, <2>4, InStepSame DEF watchVars
  <1>6. P!TruePairs' /\ MovingIsMove'
    BY <1>1, PairsSame DEF ApartInv, watchVars, MovingIsMove
  <1> QED
    BY <1>5, <1>6 DEF ApartInv

(* A scan's entry. What it no longer calls missed is in step and waits for   *)
(* nothing.                                                                 *)
LEMMA ScanApart ==
  ASSUME TypeOK, P!WatchInv, RecorderInv, ApartInv, UNCHANGED watchVars, NEW n \in Names,
         ScanEntryBefore(n, Mentioned(inbox) \cup W!Held)
  PROVE  ApartInv'
  <1>1. /\ UNCHANGED <<fs, inbox, moving>>
        /\ missed' = IF InSync(n)' /\ n \notin Mentioned(inbox) \cup W!Held
                     THEN missed \ {n} ELSE missed
    BY DEF ScanEntryBefore, disk, handler
  <1>2. n \in Mentioned(inbox) \cup W!Held <=> P!Waits(n)
    BY WaitsIs
  <1>3. (fs[n] # Absent => InSync(n)') /\ (fs[n] = Absent => UNCHANGED rows)
        /\ \A m \in Names \ {n} : LiveAt(rows', m) = LiveAt(rows, m)
    <2>1. CASE fs[n] = Absent
      BY <2>1 DEF ScanEntryBefore, store
    <2>2. CASE fs[n] # Absent
      <3>1. fs[n].stamp \in Stamps /\ rows' = Upsert(rows, n, fs[n].stamp)
        BY <2>2 DEF TypeOK, ScanEntryBefore
      <3>2. /\ LiveAt(rows', n) = {UpsertId(rows, n)}
            /\ \A m \in Names \ {n} : Same(m)
        BY <3>1, UpsertAt DEF RecorderInv
      <3>3. \A m \in Names \ {n} : LiveAt(rows', m) = LiveAt(rows, m)
        BY <3>2, SameFinds
      <3> QED
        BY <1>1, <2>2, <3>2, <3>3 DEF InSync
    <2> QED
      BY <2>1, <2>2
  <1>4. \A m \in Names : (P!Stays(m)' <=> P!Stays(m)) /\ (P!Waits(m)' <=> P!Waits(m))
    BY <1>1, WatchConstants, P!WaitsSame DEF watchVars
  <1>5. ASSUME NEW m \in Names, Undisturbed(m)' PROVE InStep(m)'
    <2>1. CASE m \in missed
      <3>1. m = n /\ InSync(n)' /\ ~ P!Waits(n)
        BY <1>1, <1>2, <1>5, <2>1 DEF Undisturbed
      <3>2. P!Stays(n)
        BY <3>1 DEF P!Stays, P!Waits
      <3> QED
        BY <1>4, <3>1, <3>2 DEF InStep
    <2>2. CASE m \notin missed
      <3>1. Undisturbed(m)
        BY <1>5, <2>2 DEF Undisturbed, P!Unmoved, watchVars
      <3>2. InStep(m)
        BY <3>1 DEF ApartInv
      <3>3. InSync(m) => InSync(m)'
        BY <1>1, <1>3 DEF InSync
      <3> QED
        BY <1>1, <1>4, <3>2, <3>3 DEF InStep
    <2> QED
      BY <2>1, <2>2
  <1>6. P!TruePairs' /\ MovingIsMove'
    BY <1>1, PairsSame DEF ApartInv, watchVars, MovingIsMove
  <1> QED
    BY <1>5, <1>6 DEF ApartInv

(* A handler that stops, or a change that cannot be applied.                 *)
LEMMA FailApart ==
  ASSUME P!WatchInv, ApartInv, UNCHANGED watchVars, HandlerFails
  PROVE  ApartInv'
  <1>1. UNCHANGED <<fs, rows>>
    BY DEF HandlerFails, disk, store
  <1>2. CASE StopHandler /\ Lose(MovingNames) /\ UNCHANGED inbox
    BY <1>1, <1>2, RestApart DEF StopHandler, Lose
  <1>3. CASE inbox # <<>> /\ inbox' = Tail(inbox) /\ Lose(NamesOf(Head(inbox))) /\ UNCHANGED handler
    <2>1. missed' = missed \cup NamesOf(Head(inbox)) /\ moving' = moving
      BY <1>3 DEF Lose, handler
    <2>2. MovingIsMove'
      BY <2>1 DEF ApartInv, MovingIsMove, watchVars
    <2>3. \A n \in Names : Undisturbed(n)' => n \notin NamesOf(Head(inbox))
      BY <2>1 DEF Undisturbed
    <2> QED
      BY <1>1, <1>3, <2>1, <2>2, <2>3, TakenApart
  <1> QED
    BY <1>2, <1>3 DEF HandlerFails

(* The watch dies with its process, and all that waited is missed.           *)
LEMMA KillApart ==
  ASSUME P!WatchInv, ApartInv, Kill
  PROVE  ApartInv'
  <1>1. /\ UNCHANGED <<fs, rows, moves, reused>> /\ inbox' = <<>> /\ moving' = None
        /\ missed' = missed \cup (MovingNames \cup (Mentioned(inbox) \cup W!Held))
        /\ raw' = <<>> /\ pending' = <<>> /\ halves' = {}
    BY DEF Kill, CrashLosing, disk, store, StopHandler, Lose
  <1>2. P!TruePairs' /\ MovingIsMove'
    BY <1>1 DEF P!TruePairs, MovingIsMove
  <1>3. ASSUME NEW n \in Names, Undisturbed(n)' PROVE InStep(n)'
    <2>1. Undisturbed(n) /\ n \notin missed'
      BY <1>1, <1>3, UndisturbedBefore DEF Undisturbed
    <2>2. ~ P!Waits(n)
      BY <1>1, <2>1, WaitsIs
    <2>3. InSync(n)
      BY <2>1, <2>2 DEF ApartInv, InStep
    <2>4. P!Stays(n)'
      BY <1>1 DEF P!Stays, P!RawAt, P!HalvesOf, P!Of, P!Range
    <2> QED
      BY <1>1, <2>3, <2>4 DEF InStep, InSync
  <1> QED
    BY <1>2, <1>3 DEF ApartInv

-----------------------------------------------------------------------------
LEMMA ApartStep ==
  TypeOK /\ P!WatchInv /\ RecorderInv /\ ApartInv /\ [ObserverNext]_allVars => ApartInv'
  <1> SUFFICES ASSUME TypeOK, P!WatchInv, RecorderInv, ApartInv, [ObserverNext]_allVars
               PROVE  ApartInv'
    OBVIOUS
  <1>1. CASE UsersObserved
    BY <1>1, UsersApart
  <1>2. CASE Poll
    BY <1>2, PollApart
  <1>3. CASE ApplyChange
    <2>1. UNCHANGED watchVars
      BY <1>3 DEF ApplyChange
    <2>2. CASE AppendEvent \/ EndScan
      BY <2>1, <2>2, RestApart DEF AppendEvent, EndScan, disk, store, handler, history
    <2> QED
      BY <1>3, <2>1, <2>2, TakeApart, ApplyOverflowedApart, MoveRowApart, ScanApart DEF ApplyChange
  <1>4. CASE Start
    BY <1>4, RestApart DEF Start, Boot, disk, store, handler, history
  <1>5. CASE Mishap
    <2>1. UNCHANGED watchVars
      BY <1>5 DEF Mishap
    <2>2. CASE ScanFails
      BY <2>1, <2>2, RestApart DEF ScanFails, disk, store, handler, history
    <2> QED
      BY <1>5, <2>1, <2>2, FailApart DEF Mishap
  <1>6. CASE Kill
    BY <1>6, KillApart
  <1>7. CASE UNCHANGED allVars
    BY <1>7, RestApart DEF allVars, vars, disk, store, handler, history
  <1> QED
    BY <1>1, <1>2, <1>3, <1>4, <1>5, <1>6, <1>7 DEF ObserverNext

(* At the start what is missed is every name with a file.                    *)
LEMMA InitialApart == ObserverInit => ApartInv
  <1> SUFFICES ASSUME ObserverInit PROVE ApartInv
    OBVIOUS
  <1>1. /\ raw = <<>> /\ pending = <<>> /\ halves = {} /\ inbox = <<>> /\ rows = <<>>
        /\ moving = None /\ missed = {n \in Names : fs[n] # Absent}
    BY DEF ObserverInit, Init, W!WatchInit
  <1>2. P!TruePairs /\ MovingIsMove
    BY <1>1 DEF P!TruePairs, MovingIsMove
  <1>3. ASSUME NEW n \in Names, Undisturbed(n) PROVE InStep(n)
    <2>1. fs[n] = Absent
      BY <1>1, <1>3 DEF Undisturbed
    <2>2. LiveAt(rows, n) = {}
      BY <1>1 DEF LiveAt, RowsAt
    <2> QED
      BY <2>1, <2>2 DEF InStep, InSync
  <1> QED
    BY <1>2, <1>3 DEF ApartInv

LEMMA ApartInvariant == ObserverSpec => []ApartInv
  BY InitialApart, ApartStep, ObserverInvariant, PTL DEF ObserverSpec

(* The rows mirror the files with the real watch as well, once it has handed  *)
(* over all it had and the handlers have applied it: at every name that no   *)
(* rename ever touched and no change of which was lost, whatever the watch   *)
(* merged, delayed or reordered, and through kills and failed handlers.      *)
THEOREM ObserverMirrorsApartFromMoves == ObserverSpec => []MirrorApartFromMoves
  <1>1. P!WatchInv /\ ApartInv => MirrorApartFromMoves
    <2> SUFFICES ASSUME P!WatchInv, ApartInv, Quiet, NEW n \in Names \ (missed \cup reused),
                        \A m \in moves : n \notin {m[1], m[2]}
                 PROVE  InSync(n)
      BY DEF MirrorApartFromMoves
    <2>1. Undisturbed(n)
      BY DEF Undisturbed, P!Unmoved
    <2>2. inbox = <<>> /\ raw = <<>> /\ pending = <<>> /\ halves = {}
      BY DEF Quiet, AtRest, W!Drained
    <2>3. ~ P!Waits(n)
      BY <2>2 DEF P!Waits, P!RawAt, P!HalvesOf, P!Of, P!Range
    <2> QED
      BY <2>1, <2>3 DEF ApartInv, InStep
  <1>2. QED
    BY <1>1, ObserverInvariant, ApartInvariant, PTL
=============================================================================
