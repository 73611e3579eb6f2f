------------------------------- MODULE Events -------------------------------
(***************************************************************************)
(* The event log of the store (crates/dafs-store/src/events.rs) and what    *)
(* it says about the rows of the `files` table.                             *)
(*                                                                         *)
(* A row is abstracted to what change detection reads of it: the pair      *)
(* (size_bytes, mtime_unix) is one stamp, and a row whose deleted_at is    *)
(* set is a Tombstone whatever stamp it still carries, since the code      *)
(* looks a previous stamp up among live rows only.                         *)
(***************************************************************************)
EXTENDS Naturals, Sequences

CONSTANTS
  Files,      (* the paths that are not directories                        *)
  Stamps,     (* the (size, mtime) pairs a file may have                   *)
  NoRow,      (* a path the store has never had a row for                  *)
  Tombstone   (* a path whose latest row has deleted_at set                *)

ASSUME EventsAssumption ==
  /\ NoRow # Tombstone
  /\ NoRow \notin Stamps
  /\ Tombstone \notin Stamps

Row == Stamps \cup {NoRow, Tombstone}

EventKind == {"created", "modified", "deleted"}

Event == [file : Files, kind : EventKind, stamp : Stamps \cup {Tombstone}]

(* The kind of the event a row's change from old to new is recorded as.    *)
ChangeKind(old, new) ==
  IF new = Tombstone THEN "deleted"
  ELSE IF old \in Stamps THEN "modified" ELSE "created"

EventFor(f, old, new) ==
  [file |-> f, kind |-> ChangeKind(old, new), stamp |-> new]

-----------------------------------------------------------------------------
(* What a log says.                                                         *)

(* The last event of f in log leaves f at row; NoRow when f has none.       *)
Explains(log, f, row) ==
  IF row = NoRow
  THEN \A i \in DOMAIN log : log[i].file # f
  ELSE \E i \in DOMAIN log :
         /\ log[i].file = f
         /\ log[i].stamp = row
         /\ \A j \in DOMAIN log : j > i => log[j].file # f

(* Replaying the log reconstructs the rows.                                 *)
ExplainsAll(log, rows) == \A f \in Files : Explains(log, f, rows[f])

(* Every event is a change of what the events before it left, of the kind   *)
(* that change has.                                                         *)
OnlyChanges(log) ==
  \A i \in DOMAIN log :
    \E old \in Row \ {log[i].stamp} :
      /\ Explains(SubSeq(log, 1, i - 1), log[i].file, old)
      /\ log[i] = EventFor(log[i].file, old, log[i].stamp)
=============================================================================
