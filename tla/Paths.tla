------------------------------- MODULE Paths --------------------------------
(***************************************************************************)
(* Paths as the store keeps them (dafs-store paths.rs): names interned in    *)
(* `path_components`, rows of `files` that link to their parents, the cache  *)
(* of the interner over both, and the way back from a row to its path.       *)
(* Events.rs keeps of a renamed file where it was, in the same terms.        *)
(*                                                                         *)
(* One writer, the observer thread: scans record paths inside transactions   *)
(* (dafs-scan lib.rs), and one may be rolled back, while the interner lives  *)
(* as long as the thread. An id is the index in its table, as SQLite gives   *)
(* the next free rowid: that of a row rolled back is given again.           *)
(***************************************************************************)
EXTENDS Integers, FiniteSets, Sequences, SequencesExt, Functions

CONSTANTS
  Names,          (* names of files and directories                         *)
  RootDirs,       (* watch roots: sequences of names, ".." and "."           *)
  Depth,          (* bound: names of a path below its root                  *)
  Capacity,       (* CACHE_CAPACITY                                         *)
  MaxRecords,     (* bound: paths recorded, rolled back ones included       *)
  MaxRollbacks    (* bound: transactions rolled back                        *)

(* MAX_DEPTH of resolve_path: "deeper than any real filesystem path".          *)
MaxDepth == 256

ASSUME PathsAssumption ==
  /\ {"..", "."} \cap Names = {}
  /\ RootDirs \subseteq Seq(Names \cup {"..", "."})
  /\ Capacity \in Nat \ {0}
  /\ {Depth, MaxRecords, MaxRollbacks} \subseteq Nat
  /\ \A root \in RootDirs : Len(root) + Depth <= MaxDepth

VARIABLES
  components,     (* path_components: the name of each id                   *)
  files,          (* files: parent (0 for NULL), component, is_dir           *)
  cache,          (* the interner's: ids of some names                      *)
  saved,          (* the tables at BEGIN, while a transaction is open       *)
  records,
  rollbacks,
  truth,          (* history: the path each row was recorded for            *)
  astray          (* history: a rollback took rows whose ids were cached     *)

tables == <<components, files, truth>>
pathsVars == <<tables, cache, saved, records, rollbacks, astray>>

-----------------------------------------------------------------------------
NoTransaction == <<>>

PathsInit ==
  /\ components = <<>>
  /\ files = <<>>
  /\ cache = <<>>
  /\ saved = NoTransaction
  /\ records = 0
  /\ rollbacks = 0
  /\ truth = <<>>
  /\ astray = FALSE

PathsTypeOK ==
  /\ components \in Seq(Names)
  /\ \A i \in DOMAIN files :
       /\ files[i].parent \in 0 .. Len(files)
       /\ files[i].component \in 1 .. Len(components)
       /\ files[i].dir \in BOOLEAN
  /\ DOMAIN cache \subseteq Names
  /\ records \in 0 .. MaxRecords
  /\ rollbacks \in 0 .. MaxRollbacks
  /\ DOMAIN truth = DOMAIN files

(* What recording works on: the tables and the cache, and whether a          *)
(* statement failed.                                                        *)
Work == [components |-> components, files |-> files, cache |-> cache, truth |-> truth,
         id |-> 0, failed |-> FALSE]

(* normalised_components: ".." takes the name before it away, also at the    *)
(* root; "." and the root itself are no names.                              *)
NextName(names, c) ==
  CASE c = ".." -> SubSeq(names, 1, Len(names) - 1)
    [] c = "." -> names
    [] OTHER -> Append(names, c)

Normalised(path) ==
  LET names[i \in 0 .. Len(path)] == IF i = 0 THEN <<>> ELSE NextName(names[i - 1], path[i])
  IN names[Len(path)]

(* lookup_or_insert: select, then insert what is not there.                  *)
LookupOrInsert(w, name) ==
  IF name \in Range(w.components)
  THEN [w EXCEPT !.id = CHOOSE i \in DOMAIN w.components : w.components[i] = name]
  ELSE [w EXCEPT !.components = Append(@, name), !.id = Len(w.components) + 1]

(* intern_leaf reads the cache ...                                          *)
InternLeaf(w, name) ==
  IF name \in DOMAIN w.cache THEN [w EXCEPT !.id = w.cache[name]] ELSE LookupOrInsert(w, name)

(* A mistaken variant of InternDir, used only by the mutation runs: a full    *)
(* cache is cleared after the next name is in it.                           *)
InternDirLate(w, name) ==
  LET v == InternLeaf(w, name)
  IN IF name \in DOMAIN w.cache THEN v
     ELSE [v EXCEPT !.cache =
             [n \in (IF Cardinality(DOMAIN w.cache) > Capacity THEN {} ELSE DOMAIN w.cache)
                      \cup {name} |-> IF n = name THEN v.id ELSE w.cache[n]]]

(* ... intern_dir fills it, and clears it when it is full.                   *)
InternDir(w, name) ==
  LET v == InternLeaf(w, name)
  IN IF name \in DOMAIN w.cache THEN v
     ELSE [v EXCEPT !.cache =
             [n \in (IF Cardinality(DOMAIN w.cache) >= Capacity THEN {} ELSE DOMAIN w.cache)
                      \cup {name} |-> IF n = name THEN v.id ELSE w.cache[n]]]

(* upsert_entry at w.id: the row of that parent and component, or a new one,  *)
(* which must refer to rows there are (PRAGMA foreign_keys).                 *)
UpsertEntry(w, parent, dir, path) ==
  LET at == {i \in DOMAIN w.files :
               w.files[i].parent = parent /\ w.files[i].component = w.id}
  IN CASE w.failed -> w
       [] ~w.failed /\ at # {} -> [w EXCEPT !.id = CHOOSE i \in at : TRUE]
       [] ~w.failed /\ at = {} /\ w.id \notin DOMAIN w.components -> [w EXCEPT !.failed = TRUE]
       [] OTHER ->
            [w EXCEPT !.files = Append(@, [parent |-> parent, component |-> w.id, dir |-> dir]),
                      !.truth = Append(@, path),
                      !.id = Len(w.files) + 1]

(* The row of a directory in the one of w.id, at `path`.                     *)
Below(w, name, path) ==
  IF w.failed THEN w ELSE UpsertEntry(InternDir(w, name), w.id, TRUE, path)

(* The rows of a chain of directories below w.id, of path `above`.           *)
Chain(w, above, names) ==
  LET at[i \in 0 .. Len(names)] ==
        IF i = 0 THEN w ELSE Below(at[i - 1], names[i], above \o SubSeq(names, 1, i))
  IN at[Len(names)]

(* ensure_dir_chain: "/" has none.                                          *)
EnsureDirChain(w, path) ==
  IF Normalised(path) = <<>> THEN [w EXCEPT !.failed = TRUE] ELSE Chain(w, <<>>, Normalised(path))

(* ensure_relative_dirs                                                     *)
EnsureRelativeDirs(w, root, names) == Chain(w, Normalised(root), names)

(* record_entry, for the path `below` a root: its directories, then itself.  *)
RecordEntry(w, root, below, dir) ==
  LET v == EnsureRelativeDirs(EnsureDirChain(w, root), root, Front(below))
      named == IF dir THEN InternDir(v, Last(below)) ELSE InternLeaf(v, Last(below))
  IN IF v.failed THEN v ELSE UpsertEntry(named, v.id, dir, Normalised(root) \o below)

-----------------------------------------------------------------------------
(* How a path the watch reports is found again, creating no row below its      *)
(* root (dafs-scan lib.rs), where the rows of the root are there already.     *)
Missing == -1

LookupComponent(name) ==
  IF name \in Range(components) THEN CHOOSE i \in DOMAIN components : components[i] = name
  ELSE Missing

RowOf(parent, name) ==
  LET component == LookupComponent(name)
      rows == {i \in DOMAIN files : files[i].parent = parent /\ files[i].component = component}
  IN IF rows = {} THEN Missing ELSE CHOOSE i \in rows : TRUE

(* The row reached from the top by some names, as far as there are rows.      *)
Reached(names) ==
  LET row[i \in 0 .. Len(names)] == IF i = 0 THEN 0 ELSE RowOf(row[i - 1], names[i])
  IN row[Len(names)]

(* lookup_parent: down from the row of the root. The root itself has no parent  *)
(* below the root, and the answer is its own row.                            *)
LookupParent(root, below) ==
  Reached(Normalised(root) \o (IF below = <<>> THEN <<>> ELSE Front(below)))

(* owning_root: the longest of the roots above the path, name by name as it    *)
(* is written.                                                              *)
OwningRoot(path) ==
  LET above == {r \in RootDirs : IsPrefix(r, path)}
  IN CHOOSE r \in above : \A s \in above : Len(s) <= Len(r)

(* lookup_file: the path's last name, in the row of its parent.                *)
LookupFile(path) ==
  LET root == OwningRoot(path)
  IN RowOf(LookupParent(root, SubSeq(path, Len(root) + 1, Len(path))), Last(path))

-----------------------------------------------------------------------------
(* The statements before one that failed stand: the caller skips the entry.  *)
Record ==
  /\ records < MaxRecords
  /\ records' = records + 1
  /\ \E root \in RootDirs, below \in UNION {[1 .. n -> Names] : n \in 1 .. Depth}, dir \in BOOLEAN :
       LET w == RecordEntry(Work, root, below, dir) IN
         /\ components' = w.components
         /\ files' = w.files
         /\ cache' = w.cache
         /\ truth' = w.truth
  /\ UNCHANGED <<saved, rollbacks, astray>>

Begin ==
  /\ saved = NoTransaction
  /\ saved' = tables
  /\ UNCHANGED <<tables, cache, records, rollbacks, astray>>

Commit ==
  /\ saved # NoTransaction
  /\ saved' = NoTransaction
  /\ UNCHANGED <<tables, cache, records, rollbacks, astray>>

(* scan, on an error: the tables are what they were, the cache is not.       *)
Rollback ==
  /\ saved # NoTransaction
  /\ rollbacks < MaxRollbacks
  /\ rollbacks' = rollbacks + 1
  /\ components' = saved[1]
  /\ files' = saved[2]
  /\ truth' = saved[3]
  /\ saved' = NoTransaction
  /\ astray' = (astray \/ \E n \in DOMAIN cache : cache[n] > Len(saved[1]))
  /\ UNCHANGED <<cache, records>>

(* The next process has an empty cache.                                     *)
Restart ==
  /\ saved = NoTransaction
  /\ cache # <<>>
  /\ cache' = <<>>
  /\ UNCHANGED <<tables, saved, records, rollbacks, astray>>

PathsNext == Record \/ Begin \/ Commit \/ Rollback \/ Restart

PathsSpec == PathsInit /\ [][PathsNext]_pathsVars

-----------------------------------------------------------------------------
(* resolve_path: from the row up, not further than MAX_DEPTH; a row that is  *)
(* not there ends the walk as the root does.                                *)
OneUp(paths) ==
  [i \in 0 .. Len(files) |->
     IF i = 0 THEN <<>> ELSE Append(paths[files[i].parent], components[files[i].component])]

ResolvePath(id) ==
  LET up[d \in 0 .. MaxDepth] ==
        IF d = 0 THEN [i \in 0 .. Len(files) |-> <<>>] ELSE OneUp(up[d - 1])
  IN up[MaxDepth][id]

(* previous_path of an event that says a file was at `component` of `parent`. *)
PreviousPath(parent, component) ==
  IF component \notin DOMAIN components THEN <<>>
  ELSE Append(ResolvePath(parent), components[component])

(* What the timeline shows of row i, and of a rename away from where it is.   *)
Entry(i) ==
  [path |-> ResolvePath(i), previous_path |-> PreviousPath(files[i].parent, files[i].component)]

(* Every row leads back to the path it was recorded for, whatever the cache   *)
(* held and dropped, as does every place a rename may have left, as long as  *)
(* no rollback left the cache ids that are gone (paths.rs 31).               *)
PathsResolve ==
  ~astray => \A i \in DOMAIN files :
    /\ Entry(i).path = truth[i]
    /\ Entry(i).previous_path = truth[i]

(* No two rows stand for one path, and the cache agrees with the table.      *)
OneRowPerPath ==
  ~astray => /\ IsInjective(truth)
             /\ \A n \in DOMAIN cache : components[cache[n]] = n

(* The cache is bounded whatever the tree (paths.rs 35).                     *)
CacheBounded == Cardinality(DOMAIN cache) <= Capacity

(* A path below its root is found exactly if it was recorded, and as the row   *)
(* it was recorded as, whichever of several roots above it the record came by  *)
(* and however that root is written: a change of a file never misses the file, *)
(* nor meets another (dafs-scan lib.rs 566, 663).                            *)
RecordedIsFound ==
  ~astray => \A root \in RootDirs, below \in UNION {[1 .. n -> Names] : n \in 1 .. Depth} :
    LET row == LookupFile(root \o below)
        path == Normalised(root) \o below
        meant == {i \in DOMAIN truth : truth[i] = path}
    IN root \o below \notin RootDirs => IF meant = {} THEN row = Missing ELSE row \in meant

(* Interning names costs no path: the four above.                            *)
PathsSound == PathsTypeOK /\ PathsResolve /\ OneRowPerPath /\ CacheBounded /\ RecordedIsFound

-----------------------------------------------------------------------------
(* paths.rs 31: correctness does not depend on the cache; it is never a      *)
(* wrong answer. The run refutes it.                                        *)
NeverWrong == \A i \in DOMAIN files : ResolvePath(i) = truth[i]
=============================================================================
