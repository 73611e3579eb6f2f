-------------------------------- MODULE Rows --------------------------------
(***************************************************************************)
(* The rows of the `files` table as the statements of dafs-store's paths.rs *)
(* and dafs-scan's lib.rs read and write them, for the files of one         *)
(* directory. A row's id is its index; rows are never removed.              *)
(*                                                                         *)
(* deleted_at is 0 for a live row. The milliseconds of the others only      *)
(* order the tombstones of one name, so a deletion is given the next number *)
(* after those in use: two deletions at one name are steps of two polls, a  *)
(* quarter of a second apart.                                               *)
(***************************************************************************)
EXTENDS Changes, FiniteSetsExt

CONSTANT
  Stamps     (* the (size, mtime) pairs a file may have                    *)

Row == [name : Names, stamp : Stamps, deleted : Nat]

RowsAt(rows, n) == {r \in DOMAIN rows : rows[r].name = n}

LiveAt(rows, n) == {r \in RowsAt(rows, n) : rows[r].deleted = 0}

(* Operators named ...Newest, ...BeforeInsert and ...StillDeleted are        *)
(* mistaken variants of the definition that follows them, used by nothing   *)
(* but the mutation runs.                                                   *)

FoundAtNewest(rows, n) ==
  CHOOSE r \in RowsAt(rows, n) :
    \A q \in RowsAt(rows, n) : rows[q].deleted <= rows[r].deleted

(* ORDER BY deleted_at IS NULL DESC, deleted_at DESC LIMIT 1: the live row  *)
(* if there is one, else the newest tombstone.                              *)
FoundAt(rows, n) ==
  CHOOSE r \in RowsAt(rows, n) :
    \/ r \in LiveAt(rows, n)
    \/ /\ LiveAt(rows, n) = {}
       /\ \A q \in RowsAt(rows, n) : rows[q].deleted <= rows[r].deleted

UpsertIdBeforeInsert(rows, n) ==
  IF RowsAt(rows, n) = {} THEN Len(rows) ELSE FoundAt(rows, n)

(* upsert_entry, and the id it returns.                                     *)
UpsertId(rows, n) ==
  IF RowsAt(rows, n) = {} THEN Len(rows) + 1 ELSE FoundAt(rows, n)

Upsert(rows, n, stamp) ==
  LET row == [name |-> n, stamp |-> stamp, deleted |-> 0] IN
  IF RowsAt(rows, n) = {} THEN Append(rows, row)
  ELSE [rows EXCEPT ![FoundAt(rows, n)] = row]

(* now_unix_ms: later than every deletion at the name so far.               *)
Now(rows, n) == 1 + Max({0} \cup {rows[r].deleted : r \in RowsAt(rows, n)})

(* UPDATE files SET deleted_at: also of a row that has one already.         *)
Tombstoned(rows, r) == [rows EXCEPT ![r].deleted = Now(rows, rows[r].name)]

MovedStillDeleted(rows, r, n) == [rows EXCEPT ![r].name = n]

(* UPDATE files SET parent_id, component_id, deleted_at = NULL: the row goes *)
(* to its new name as it is, with the size and mtime it had.                *)
Moved(rows, r, n) ==
  [rows EXCEPT ![r] = [name |-> n, stamp |-> rows[r].stamp, deleted |-> 0]]
=============================================================================
