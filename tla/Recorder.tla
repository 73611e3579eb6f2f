------------------------------ MODULE Recorder ------------------------------
(***************************************************************************)
(* The observer thread applying what the watch reports (main.rs, `observe`, *)
(* `apply_change`; dafs-scan lib.rs, `record_path`, `record_removal`,       *)
(* `record_rename`), beside users who keep changing the files.              *)
(*                                                                         *)
(* Every statement of a handler is a commit of its own: a row first, then   *)
(* its event. Between any two of them the process may be killed or the      *)
(* second may fail. The scan here commits each entry with its event; its    *)
(* batches are the subject of Scan.                                         *)
(*                                                                         *)
(* The watch is the best there could be: it reports every change, once, in  *)
(* the order they were made, and knows both ends of a rename. What is wrong *)
(* here is wrong whatever the watch does. A move into or out of the         *)
(* directory is a creation or a deletion, as it is for the watch.           *)
(***************************************************************************)
EXTENDS Rows

CONSTANTS
  Absent,        (* no file at a name                                       *)
  ScanChoices,   (* whether a start may scan: {TRUE}, or FALSE as well for   *)
                 (* --no-initial-scan                                       *)
  MaxEdits,      (* bound: changes the users make                           *)
  MaxCrashes,    (* bound: times the process is killed                      *)
  MaxFaults,     (* bound: statements that fail, paths that cannot be read  *)
  MaxOverflows   (* bound: times the kernel's queue overflows               *)

(* Names and the numbers of edits both stand for files, and for different    *)
(* ones.                                                                    *)
ASSUME RecorderAssumption ==
  /\ IsFiniteSet(Names)
  /\ Names \cap (1 .. MaxEdits) = {}
  /\ ScanChoices \subseteq BOOLEAN
  /\ MaxEdits \in Nat
  /\ MaxCrashes \in Nat
  /\ MaxFaults \in Nat
  /\ MaxOverflows \in Nat

(* A file keeps its identity when it moves. Those there from the start are   *)
(* called by their name, later ones by the edit that made them.             *)
FileIds == Names \cup (1 .. MaxEdits)

(* An event of the log. `name` is where the row was when it was written,    *)
(* which the table does not store: it is here to judge the log by.          *)
Event ==
  [row : Nat \ {0}, kind : {"created", "modified", "deleted", "renamed"},
   prev : Names \cup {None}, name : Names]

(* A rename whose row is still to be moved.                                 *)
Move == [row : Nat \ {0}, from : Names, to : Names]

ASSUME NoneAssumption == None \notin Event \cup Move

VARIABLES
  fs,         (* the files: an identity and a stamp for each name in use    *)
  rows,       (* the table `files`                                          *)
  events,     (* the table `events`                                         *)
  pc,         (* the observer: down, in its initial scan, watching, or in   *)
              (* the rescan an overflow asks for                            *)
  scanning,   (* names its walk has not reached                             *)
  inbox,      (* changes reported and not yet taken up                      *)
  due,        (* the event the handler appends next                         *)
  moving,     (* the rename whose row it has still to move                  *)
  edits, crashes, faults, overflows,   (* counters of the bounds            *)
  known,      (* history: the row of each file when the store last was at   *)
              (* rest, 0 if none or if a change was lost since              *)
  missed,     (* history: names of changes that were never applied          *)
  broken      (* history: rows whose handler was stopped before its event   *)

disk == <<fs, edits>>
store == <<rows, events>>
handler == <<due, moving>>
faultCounters == <<crashes, faults, overflows>>
history == <<known, missed, broken>>
vars == <<disk, store, pc, scanning, inbox, handler, faultCounters, history>>

TypeOK ==
  /\ fs \in [Names -> [file : FileIds, stamp : Stamps] \cup {Absent}]
  /\ rows \in Seq(Row)
  /\ events \in Seq(Event)
  /\ pc \in {"down", "scan", "watch", "rescan"}
  /\ scanning \subseteq Names
  /\ inbox \in Seq(Change)
  /\ due \in Event \cup {None}
  /\ due # None => due.row \in DOMAIN rows
  /\ moving \in Move \cup {None}
  /\ moving # None => moving.row \in DOMAIN rows
  /\ edits \in 0 .. MaxEdits
  /\ crashes \in 0 .. MaxCrashes
  /\ faults \in 0 .. MaxFaults
  /\ overflows \in 0 .. MaxOverflows
  /\ known \in [FileIds -> Nat]
  /\ missed \subseteq Names
  /\ broken \subseteq DOMAIN rows

(* A first run: an empty store, beside whatever files there are.            *)
Init ==
  /\ fs \in [Names -> [file : Names, stamp : Stamps] \cup {Absent}]
  /\ \A n \in Names : fs[n] # Absent => fs[n].file = n
  /\ rows = <<>>
  /\ events = <<>>
  /\ pc = "down"
  /\ scanning = {}
  /\ inbox = <<>>
  /\ due = None
  /\ moving = None
  /\ edits = 0 /\ crashes = 0 /\ faults = 0 /\ overflows = 0
  /\ known = [i \in FileIds |-> 0]
  /\ missed = {n \in Names : fs[n] # Absent}
  /\ broken = {}

Idle == due = None /\ moving = None
Watching == pc \in {"watch", "rescan"}

(* Everything reported has been applied.                                    *)
AtRest == pc = "watch" /\ Idle /\ inbox = <<>>

InSync(n) == (fs[n] # Absent) = (LiveAt(rows, n) # {})

(* The row of each file now.                                                *)
RowOf(i) ==
  LET S == {r \in DOMAIN rows :
              rows[r].deleted = 0 /\ fs[rows[r].name] # Absent /\ fs[rows[r].name].file = i}
  IN IF S = {} THEN 0 ELSE CHOOSE r \in S : TRUE

RowsOfFiles == [i \in FileIds |-> RowOf(i)]

Forget == known' = [i \in FileIds |-> 0]

(* Changes that will never be applied.                                      *)
Lose(names) ==
  /\ missed' = missed \cup names
  /\ Forget

-----------------------------------------------------------------------------
(* The users. EditsNow has each change they may make to the files as they    *)
(* are, with what it is called when it is seen as it happened.              *)

Edit(new, c) == [fs |-> new, change |-> c]

Creations(n) ==
  IF fs[n] # Absent THEN {}
  ELSE {Edit([fs EXCEPT ![n] = [file |-> edits + 1, stamp |-> s]], Touched(n)) : s \in Stamps}

Modifications(n) ==
  IF fs[n] = Absent THEN {}
  ELSE {Edit([fs EXCEPT ![n] = [file |-> fs[n].file, stamp |-> s]], Touched(n))
          : s \in Stamps \ {fs[n].stamp}}

Deletions(n) ==
  IF fs[n] = Absent THEN {} ELSE {Edit([fs EXCEPT ![n] = Absent], Removed(n))}

(* mv n m, over whatever was at m.                                          *)
Moves(n) ==
  IF fs[n] = Absent THEN {}
  ELSE {Edit([fs EXCEPT ![m] = fs[n], ![n] = Absent], Renamed(n, m)) : m \in Names \ {n}}

EditsNow ==
  UNION {Creations(n) \cup Modifications(n) \cup Deletions(n) \cup Moves(n) : n \in Names}

ChangeFiles(e) ==
  /\ edits < MaxEdits
  /\ edits' = edits + 1
  /\ fs' = e.fs
  /\ UNCHANGED <<store, pc, scanning, handler, broken>>

(* A change is reported at once, if anybody watches.                        *)
Users ==
  \E e \in EditsNow :
    /\ ChangeFiles(e)
    /\ \/ /\ Watching
          /\ inbox' = Append(inbox, e.change)
          /\ known' = IF AtRest THEN RowsOfFiles ELSE known
          /\ UNCHANGED missed
       \/ /\ ~Watching
          /\ Lose(NamesOf(e.change))
          /\ UNCHANGED inbox
    /\ UNCHANGED faultCounters

-----------------------------------------------------------------------------
(* Scans: the initial one, before the watch starts, or none                 *)
(* (--no-initial-scan); and the one an overflow asks for. A scan records     *)
(* what it finds and has nothing to say of what it does not find.           *)

Boot ==
  /\ pc = "down"
  /\ pc' = "scan"
  /\ \E scan \in ScanChoices : scanning' = IF scan THEN Names ELSE {}
  /\ UNCHANGED <<disk, store, inbox, handler, faultCounters, history>>

(* A file at n that its row does not say already.                           *)
IsNews(n, stamp) == \A r \in LiveAt(rows, n) : rows[r].stamp # stamp

EventAt(n, stamp) ==
  IF IsNews(n, stamp)
  THEN [row |-> UpsertId(rows, n),
        kind |-> IF LiveAt(rows, n) = {} THEN "created" ELSE "modified",
        prev |-> None, name |-> n]
  ELSE None

(* record_entry. Nothing is missed at n any more if the row is right by now *)
(* and no change of n is waiting to be applied to it.                       *)
ScanEntryBefore(n, waiting) ==
  /\ pc \in {"scan", "rescan"}
  /\ n \in scanning
  /\ scanning' = scanning \ {n}
  /\ IF fs[n] = Absent
     THEN UNCHANGED store
     ELSE /\ rows' = Upsert(rows, n, fs[n].stamp)
          /\ events' = IF IsNews(n, fs[n].stamp)
                       THEN Append(events, EventAt(n, fs[n].stamp)) ELSE events
  /\ UNCHANGED <<disk, pc, inbox, handler, faultCounters, known, broken>>
  /\ missed' = IF InSync(n)' /\ n \notin waiting THEN missed \ {n} ELSE missed

ScanEntry(n) == ScanEntryBefore(n, Mentioned(inbox))

(* Watch::new after the initial scan; the next change after a rescan.       *)
EndScan ==
  /\ pc \in {"scan", "rescan"}
  /\ scanning = {}
  /\ pc' = "watch"
  /\ UNCHANGED <<disk, store, scanning, inbox, handler, faultCounters, history>>

-----------------------------------------------------------------------------
(* apply_change. Each handler starts with the first change of the inbox.    *)
(* Operators named ...Only, ...Live and ...ReadLate are mistaken variants for *)
(* the mutation runs.                                                       *)

Take(kind) ==
  /\ pc = "watch"
  /\ Idle
  /\ inbox # <<>>
  /\ Head(inbox).kind = kind
  /\ inbox' = Tail(inbox)
  /\ UNCHANGED <<disk, faultCounters>>

ApplyOverflowed ==
  /\ Take("overflowed")
  /\ pc' = "rescan"
  /\ scanning' = Names
  /\ UNCHANGED <<store, handler, history>>

(* record_removal: the live row's tombstone, then its event.                *)
RecordRemoval(n) ==
  IF LiveAt(rows, n) = {}
  THEN UNCHANGED <<rows, due>>
  ELSE /\ rows' = Tombstoned(rows, FoundAt(rows, n))
       /\ due' = [row |-> FoundAt(rows, n), kind |-> "deleted", prev |-> None, name |-> n]

(* record_path: a file that is gone by now was removed.                     *)
RecordPath(n) ==
  IF fs[n] = Absent
  THEN RecordRemoval(n)
  ELSE /\ rows' = Upsert(rows, n, fs[n].stamp)
       /\ due' = EventAt(n, fs[n].stamp)

ApplyTouched ==
  /\ Take("touched")
  /\ RecordPath(Head(inbox).to)
  /\ UNCHANGED <<events, pc, scanning, moving, history>>

ApplyRemoved ==
  /\ Take("removed")
  /\ RecordRemoval(Head(inbox).to)
  /\ UNCHANGED <<events, pc, scanning, moving, history>>

(* record_rename up to its first statements: a source the store never had   *)
(* is an arrival; a row found at the destination is displaced first.        *)
Displace(r, to) ==
  IF RowsAt(rows, to) = {} \/ FoundAt(rows, to) = r
  THEN UNCHANGED <<rows, due>>
  ELSE /\ rows' = Tombstoned(rows, FoundAt(rows, to))
       /\ due' = [row |-> FoundAt(rows, to), kind |-> "deleted", prev |-> None, name |-> to]

IsKnownLive(n) == LiveAt(rows, n) # {}

(* lookup_file finds something at n.                                        *)
IsKnown(n) == RowsAt(rows, n) # {}

ApplyRenamedKnownOnly ==
  /\ Take("renamed")
  /\ LET from == Head(inbox).from
         to == Head(inbox).to
     IN \/ /\ ~IsKnown(from)
           /\ UNCHANGED <<rows, due, moving>>
        \/ /\ IsKnown(from)
           /\ Displace(FoundAt(rows, from), to)
           /\ moving' = [row |-> FoundAt(rows, from), from |-> from, to |-> to]
  /\ UNCHANGED <<events, pc, scanning, history>>

ApplyRenamed ==
  /\ Take("renamed")
  /\ LET from == Head(inbox).from
         to == Head(inbox).to
     IN \/ /\ ~IsKnown(from)
           /\ RecordPath(to)
           /\ UNCHANGED moving
        \/ /\ IsKnown(from)
           /\ Displace(FoundAt(rows, from), to)
           /\ moving' = [row |-> FoundAt(rows, from), from |-> from, to |-> to]
  /\ UNCHANGED <<events, pc, scanning, history>>

(* The append that follows a row.                                           *)
AppendEvent ==
  /\ due # None
  /\ events' = Append(events, due)
  /\ due' = None
  /\ UNCHANGED <<disk, rows, pc, scanning, inbox, moving, faultCounters, history>>

MoveRowReadLate ==
  /\ due = None
  /\ moving # None
  /\ rows' = Moved(rows, moving.row, moving.to)
  /\ due' = [row |-> moving.row, kind |-> "renamed", prev |-> moving.to, name |-> moving.to]
  /\ moving' = None
  /\ UNCHANGED <<disk, events, pc, scanning, inbox, faultCounters, history>>

(* record_rename's UPDATE of the row itself.                                *)
MoveRow ==
  /\ due = None
  /\ moving # None
  /\ rows' = Moved(rows, moving.row, moving.to)
  /\ due' = [row |-> moving.row, kind |-> "renamed", prev |-> moving.from, name |-> moving.to]
  /\ moving' = None
  /\ UNCHANGED <<disk, events, pc, scanning, inbox, faultCounters, history>>

-----------------------------------------------------------------------------
(* What may go wrong.                                                       *)

(* The handler stops where it is, between two of its statements.            *)
StopHandler ==
  /\ due' = None
  /\ moving' = None
  /\ broken' = IF due = None THEN broken ELSE broken \cup {due.row}

MovingNames == IF moving = None THEN {} ELSE {moving.from, moving.to}

(* A statement fails, or the path cannot be stat'd: a line in the log, and  *)
(* the next change is taken up.                                             *)
HandlerFails ==
  /\ pc = "watch"
  /\ faults < MaxFaults
  /\ faults' = faults + 1
  /\ \/ /\ ~Idle
        /\ StopHandler
        /\ Lose(MovingNames)
        /\ UNCHANGED inbox
     \/ /\ Idle
        /\ inbox # <<>>
        /\ Head(inbox).kind # "overflowed"
        /\ inbox' = Tail(inbox)
        /\ Lose(NamesOf(Head(inbox)))
        /\ UNCHANGED <<handler, broken>>
  /\ UNCHANGED <<disk, store, pc, scanning, crashes, overflows>>

(* A scan that ends early leaves out what it has not reached.               *)
ScanFails ==
  /\ faults < MaxFaults
  /\ faults' = faults + 1
  /\ scanning # {}
  /\ scanning' = {}
  /\ UNCHANGED <<disk, store, pc, inbox, handler, crashes, overflows, history>>

(* kill -9: what was reported and not applied is gone.                      *)
CrashLosing(names) ==
  /\ pc # "down"
  /\ crashes < MaxCrashes
  /\ crashes' = crashes + 1
  /\ pc' = "down"
  /\ scanning' = {}
  /\ inbox' = <<>>
  /\ StopHandler
  /\ Lose(MovingNames \cup names)
  /\ UNCHANGED <<disk, store, faults, overflows>>

Crash == CrashLosing(Mentioned(inbox))

(* The kernel's queue is full and the last changes do not get into it. The  *)
(* watch reports that before the changes it still has.                      *)
Overflow ==
  /\ Watching
  /\ overflows < MaxOverflows
  /\ overflows' = overflows + 1
  /\ \E k \in 0 .. Len(inbox) - 1 :
       /\ inbox' = <<Overflowed>> \o SubSeq(inbox, 1, k)
       /\ Lose(Mentioned(SubSeq(inbox, k + 1, Len(inbox))))
  /\ UNCHANGED <<disk, store, pc, scanning, handler, crashes, faults, broken>>

-----------------------------------------------------------------------------
Observe ==
  \/ \E n \in Names : ScanEntry(n)
  \/ EndScan
  \/ ApplyOverflowed
  \/ ApplyTouched
  \/ ApplyRemoved
  \/ ApplyRenamed
  \/ AppendEvent
  \/ MoveRow

Next ==
  \/ Users
  \/ Boot
  \/ Observe
  \/ HandlerFails
  \/ ScanFails
  \/ Crash
  \/ Overflow

Spec == Init /\ [][Next]_vars

-----------------------------------------------------------------------------
(* What the recorder keeps to, also when handlers are stopped.              *)

(* The last event of row r in a log before its event i; 0 if there is none.  *)
Latest(S) == IF S = {} THEN 0 ELSE CHOOSE j \in S : \A k \in S : k <= j

Before(log, r, i) == Latest({j \in 1 .. i - 1 : log[j].row = r})

LastOf(log, r) == Before(log, r, Len(log) + 1)

(* The log tells of row r that it is where and what it is.                  *)
Tells(log, r, row) ==
  LET i == LastOf(log, r) IN
  /\ i # 0
  /\ log[i].name = row.name
  /\ (log[i].kind = "deleted") = (row.deleted # 0)

IsExplained(r) == Tells(events, r, rows[r])

(* The history explains every row but those whose own handler was stopped   *)
(* between its commits: no crash, failure or overflow harms another row.    *)
Explained ==
  \A r \in DOMAIN rows \ broken : due = None \/ due.row # r => IsExplained(r)

(* Event e may follow event j of its row in a log, be the first if j is 0.   *)
Follows(log, e, j) ==
  CASE e.kind = "created" -> j # 0 => log[j].kind = "deleted" /\ log[j].name = e.name
    [] e.kind = "modified" -> j # 0 /\ log[j].kind # "deleted" /\ log[j].name = e.name
    [] e.kind = "deleted" -> j # 0 /\ log[j].name = e.name
    [] e.kind = "renamed" -> j # 0 /\ log[j].name = e.prev

(* Each event follows from the one before it: what is created was not there, *)
(* what is modified was, and walking back the renames of a row (as          *)
(* previous_path does for a reader) passes the names it really had.         *)
HistoryFits ==
  \A i \in DOMAIN events :
    events[i].row \notin broken =>
      Follows(events, events[i], Before(events, events[i].row, i))

(* No statement runs into the unique index on live rows, which would fail    *)
(* the handler after it displaced what was there.                           *)
OneLiveRow == \A n \in Names : \A r, q \in LiveAt(rows, n) : r = q

(* When everything reported has been applied, a name has a live row exactly *)
(* if there is a file, except for names of changes that were lost.          *)
Mirror == AtRest => \A n \in Names \ missed : InSync(n)

(* A file keeps its row and its id, however often it was moved, over        *)
(* whatever, while the handlers lagged behind.                              *)
KeepsRow ==
  AtRest => \A n \in Names :
    fs[n] # Absent /\ known[fs[n].file] # 0 => RowOf(fs[n].file) = known[fs[n].file]

-----------------------------------------------------------------------------
(* What a doc and a test say, and a run refutes.                            *)

(* crates/dafs-scan/tests/crash_consistency.rs 3-4, 19-20: no data loss under *)
(* fault injection across every write path; a rescan records what an        *)
(* interrupted run missed. So once a restarted daemon has scanned, every row *)
(* has its history.                                                         *)
RestartHeals == AtRest => \A r \in DOMAIN rows : IsExplained(r)
=============================================================================
