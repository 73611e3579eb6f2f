-------------------------------- MODULE Scan --------------------------------
(***************************************************************************)
(* The scan of one watch root (crates/dafs-scan/src/lib.rs, `scan`) over a *)
(* file tree its users keep editing, with batch transactions, store errors *)
(* and a process that may be killed at any point.                           *)
(*                                                                         *)
(* A connection's view of the `files` table during a batch transaction is  *)
(* tx; nobody else sees it until the commit makes it files. The events of  *)
(* the batch wait in memory and are appended inside the same transaction.  *)
(*                                                                         *)
(* Directories get rows and no events. The chain of directory rows above   *)
(* an entry, the interner's cache and the entry limit (which no caller     *)
(* sets) are not modelled here.                                            *)
(***************************************************************************)
EXTENDS Events, FiniteSets

CONSTANTS
  Dirs,        (* the paths below the root that are directories             *)
  Absent,      (* the state of a path that does not exist                   *)
  BatchSize,   (* BATCH_SIZE: events accumulated before a flush             *)
  MaxEdits,    (* bound: edits of the file tree                             *)
  MaxScans,    (* bound: scans started                                      *)
  MaxFaults    (* bound: kills and store errors                             *)

ASSUME ScanAssumption ==
  /\ Dirs \cap Files = {}
  /\ IsFiniteSet(Files) /\ IsFiniteSet(Dirs)
  /\ Absent \notin Stamps
  /\ BatchSize \in Nat \ {0}
  /\ MaxEdits \in Nat
  /\ MaxScans \in Nat
  /\ MaxFaults \in Nat

Paths == Files \cup Dirs

VARIABLES
  fs,        (* the file tree: a stamp for each path that exists            *)
  files,     (* committed rows                                              *)
  events,    (* committed events                                            *)
  tx,        (* the rows as the scan's connection sees them                 *)
  batch,     (* NewEvents not yet appended                                  *)
  pc,        (* where the observer thread is                                *)
  todo,      (* paths the walk has not reached                              *)
  skipped,   (* paths the walk could not stat (ScanSummary.skipped)         *)
  result,    (* what the latest scan returned                               *)
  edits,     (* edits of the tree so far                                    *)
  scans,     (* scans started so far                                        *)
  faults,    (* faults so far                                               *)
  window     (* history variable: the states each path had during the scan  *)

store == <<files, events>>
walk == <<tx, batch, todo, skipped>>
counters == <<edits, scans, faults>>
vars == <<fs, store, walk, pc, result, counters, window>>

TypeOK ==
  /\ fs \in [Paths -> Stamps \cup {Absent}]
  /\ files \in [Paths -> Row]
  /\ events \in Seq(Event)
  /\ tx \in [Paths -> Row]
  /\ batch \in Seq(Event)
  /\ pc \in {"idle", "begin", "walk", "flush"}
  /\ todo \subseteq Paths
  /\ skipped \subseteq Paths
  /\ result \in {"none", "ok", "error"}
  /\ edits \in Nat
  /\ scans \in Nat
  /\ faults \in Nat
  /\ window \in [Paths -> SUBSET (Stamps \cup {Absent})]

(* A first run: an empty store beside whatever files there are.             *)
Init ==
  /\ fs \in [Paths -> Stamps \cup {Absent}]
  /\ files = [p \in Paths |-> NoRow]
  /\ events = <<>>
  /\ tx = files
  /\ batch = <<>>
  /\ pc = "idle"
  /\ todo = {}
  /\ skipped = {}
  /\ result = "none"
  /\ edits = 0
  /\ scans = 0
  /\ faults = 0
  /\ window = [p \in Paths |-> {}]

-----------------------------------------------------------------------------
(* The users of the file tree.                                              *)

Edit(p, state) ==
  /\ edits < MaxEdits
  /\ edits' = edits + 1
  /\ fs' = [fs EXCEPT ![p] = state]
  /\ window' = [window EXCEPT ![p] = IF pc = "idle" THEN @ ELSE @ \cup {state}]
  /\ UNCHANGED <<store, walk, pc, result, scans, faults>>

-----------------------------------------------------------------------------
(* Between scans the same thread records the removals the watcher reports   *)
(* (record_removal, here without the kill between its two writes).          *)
Remove(f) ==
  /\ pc = "idle"
  /\ files[f] \in Stamps
  /\ files' = [files EXCEPT ![f] = Tombstone]
  /\ tx' = files'
  /\ events' = Append(events, EventFor(f, files[f], Tombstone))
  /\ result' = "none"
  /\ UNCHANGED <<fs, batch, todo, skipped, pc, counters, window>>

-----------------------------------------------------------------------------
(* The scan. Operators named ...Without..., ...Keeping..., ...After... and  *)
(* ...Vanished are mistaken variants of the definition that follows them,   *)
(* used by nothing but the mutation runs of the properties.                 *)

(* The root exists: its chain of rows is made and the walk set up.          *)
Start ==
  /\ pc = "idle"
  /\ scans < MaxScans
  /\ scans' = scans + 1
  /\ pc' = "begin"
  /\ todo' = Paths
  /\ skipped' = {}
  /\ result' = "none"
  /\ window' = [p \in Paths |-> {fs[p]}]
  /\ UNCHANGED <<fs, store, tx, batch, edits, faults>>

(* scan's early return: MissingRoot, before anything is written.            *)
MissingRoot ==
  /\ pc = "idle"
  /\ \A p \in Paths : fs[p] = Absent
  /\ result' = "error"
  /\ UNCHANGED <<fs, store, walk, pc, counters, window>>

Begin ==
  /\ pc = "begin"
  /\ tx' = files
  /\ pc' = "walk"
  /\ UNCHANGED <<fs, store, batch, todo, skipped, result, counters, window>>

(* record_entry on an entry that could be stat'd: upsert the row, and add   *)
(* an event to the batch if a file's row was not live or has another stamp. *)
EventsOfWithoutCheck(p, old, new) ==
  IF p \in Dirs THEN <<>> ELSE <<EventFor(p, old, new)>>

EventsOf(p, old, new) ==
  IF p \in Dirs \/ old = new THEN <<>> ELSE <<EventFor(p, old, new)>>

RecordEntryKeepingTombstone(p) ==
  /\ tx' = [tx EXCEPT ![p] = IF @ = Tombstone THEN Tombstone ELSE fs[p]]
  /\ batch' = batch \o EventsOf(p, tx[p], fs[p])
  /\ UNCHANGED skipped

RecordEntry(p) ==
  /\ tx' = [tx EXCEPT ![p] = fs[p]]
  /\ batch' = batch \o EventsOf(p, tx[p], fs[p])
  /\ UNCHANGED skipped

(* An entry that cannot be read is counted and passed over.                 *)
SkipEntry(p) ==
  /\ skipped' = skipped \cup {p}
  /\ UNCHANGED <<tx, batch>>

VisitVanished(p) ==
  /\ pc = "walk"
  /\ p \in todo
  /\ todo' = todo \ {p}
  /\ RecordEntry(p)
  /\ pc' = IF Len(batch') >= BatchSize THEN "flush" ELSE "walk"
  /\ UNCHANGED <<fs, store, result, counters, window>>

(* The walk reaches p, or passes where p would have been. A full batch is   *)
(* flushed before the next entry.                                           *)
Visit(p) ==
  /\ pc = "walk"
  /\ p \in todo
  /\ todo' = todo \ {p}
  /\ \/ fs[p] # Absent /\ RecordEntry(p)
     \/ fs[p] # Absent /\ SkipEntry(p)
     \/ fs[p] = Absent /\ UNCHANGED <<tx, batch, skipped>>
  /\ pc' = IF Len(batch') >= BatchSize THEN "flush" ELSE "walk"
  /\ UNCHANGED <<fs, store, result, counters, window>>

CommitAfterClear ==
  /\ events' = events
  /\ files' = tx
  /\ batch' = <<>>

CommitWithoutClear ==
  /\ events' = events \o batch
  /\ files' = tx
  /\ batch' = batch

(* append_events then COMMIT: rows and events become visible in one step.   *)
Commit ==
  /\ events' = events \o batch
  /\ files' = tx
  /\ batch' = <<>>

Flush ==
  /\ pc = "flush"
  /\ Commit
  /\ pc' = "begin"
  /\ UNCHANGED <<fs, tx, todo, skipped, result, counters, window>>

(* The walk is over: the final partial batch, and scan returns Ok.          *)
Finish ==
  /\ pc = "walk"
  /\ todo = {}
  /\ Commit
  /\ pc' = "idle"
  /\ result' = "ok"
  /\ UNCHANGED <<fs, tx, todo, skipped, counters, window>>

(* The walk's transaction and its batch vector are gone.                    *)
Abandon ==
  /\ tx' = files
  /\ batch' = <<>>
  /\ todo' = {}
  /\ skipped' = {}
  /\ pc' = "idle"
  /\ faults < MaxFaults
  /\ faults' = faults + 1
  /\ UNCHANGED <<fs, store, edits, scans, window>>

(* BEGIN IMMEDIATE, an append or COMMIT fails: scan rolls back and returns. *)
Fail ==
  /\ \/ pc \in {"begin", "flush"}
     \/ pc = "walk" /\ todo = {}
  /\ result' = "error"
  /\ Abandon

(* kill -9: SQLite discards the open transaction when it next recovers.     *)
Kill ==
  /\ result' = "none"
  /\ Abandon

(* Between scans the thread polls the watcher, and may find nothing.        *)
Poll ==
  /\ pc = "idle"
  /\ UNCHANGED vars

-----------------------------------------------------------------------------
Walk == Begin \/ Flush \/ Finish \/ \E p \in Paths : Visit(p)

Next ==
  \/ \E p \in Paths, state \in Stamps \cup {Absent} : Edit(p, state)
  \/ \E f \in Files : Remove(f)
  \/ Start
  \/ MissingRoot
  \/ Walk
  \/ Fail
  \/ Kill
  \/ Poll

Spec == Init /\ [][Next]_vars

-----------------------------------------------------------------------------
(* Replaying the committed events yields the committed rows of the files,   *)
(* in every state a reader or a kill can catch the store in. It is what a   *)
(* rescan cannot repair: an unchanged row never gets its event later.       *)
Explained == ExplainsAll(events, files)

(* A rescan is quiet: no event repeats what the log already says, however   *)
(* often scans were interrupted and run again.                              *)
EventsAreChanges == OnlyChanges(events)

(* A scan that returned Ok has recorded every path that existed and could   *)
(* be read throughout it, at a state the path had while the scan ran.       *)
ScanCovers ==
  pc = "idle" /\ result = "ok" =>
    \A p \in Paths \ skipped :
      Absent \notin window[p] => files[p] \in window[p]

(* The store's history as Timeline promises it.                             *)
TimelineOf ==
  INSTANCE Timeline WITH files <- [f \in Files |-> files[f]], events <- events

ImplementsTimeline == TimelineOf!Spec

-----------------------------------------------------------------------------
(* The inductive invariant behind Explained and EventsAreChanges: what is    *)
(* committed is explained, and so is what the open transaction would commit *)
(* were it to end now, with the events still in memory.                     *)
HistoryInv ==
  /\ TypeOK
  /\ Explained
  /\ EventsAreChanges
  /\ ExplainsAll(events \o batch, tx)
  /\ OnlyChanges(events \o batch)
  /\ pc \in {"idle", "begin"} => tx = files /\ batch = <<>>

(* The one behind ImplementsTimeline: the batch accounts for the difference *)
(* between the transaction and what is committed, and an entry the walk has *)
(* not reached is as it was committed.                                      *)
BatchInv ==
  /\ TimelineOf!Accounts(batch, files, tx)
  /\ pc = "walk" => \A p \in todo : tx[p] = files[p]
=============================================================================
