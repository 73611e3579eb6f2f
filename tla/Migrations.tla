----------------------------- MODULE Migrations -----------------------------
(***************************************************************************)
(* Opening the store (dafs-store lib.rs, `open`, `migrate`): several         *)
(* connections, of builds that may know different schema versions, bring    *)
(* one database up to date. Only BEGIN IMMEDIATE to COMMIT is exclusive; the *)
(* version a connection goes by was read before.                            *)
(*                                                                         *)
(* Of a migration's SQL the model keeps which objects it creates: creating   *)
(* one that is there already is the error SQLite answers.                   *)
(***************************************************************************)
EXTENDS Naturals, FiniteSets

CONSTANTS
  Conn,        (* connections, or the invocations that open them            *)
  None,        (* nobody                                                    *)
  Latest,      (* the newest schema version any build knows                 *)
  Supported    (* the newest version the build of each connection knows     *)

ASSUME MigrationsAssumption ==
  /\ None \notin Conn
  /\ Latest \in 1 .. 5
  /\ Supported \in [Conn -> 1 .. Latest]

VARIABLES
  applied,     (* versions with a row in schema_migrations                  *)
  objects,     (* tables, columns and indexes of the database               *)
  lock,        (* the connection inside BEGIN IMMEDIATE .. COMMIT           *)
  at,          (* where each connection is in `open`                        *)
  current,     (* the version it read                                       *)
  next         (* the migration it applies next                             *)

database == <<applied, objects>>
migVars == <<applied, objects, lock, at, current, next>>

-----------------------------------------------------------------------------
(* MIGRATIONS: what the SQL of each version creates.                        *)

SchemaVersionSql == {"schema_migrations"}

TimelineSql ==
  {"path_components", "files", "files_live_entry", "files_parent", "events",
   "events_recent", "events_by_file"}

MetadataSql == {"file_metadata", "extraction_queue", "extraction_queue_order"}

EnrichmentSql ==
  {"file_metadata.body_text", "file_enrichment", "enrichment_queue",
   "enrichment_queue_order"}

EmbeddingsSql == {"embedding_queue", "embedding_queue_order", "embedding_config"}

Sql == <<SchemaVersionSql, TimelineSql, MetadataSql, EnrichmentSql, EmbeddingsSql>>

(* The objects of a database at version v.                                  *)
ObjectsAt(v) == UNION {Sql[w] : w \in 1 .. v}

(* MAX(version), and 0 for an empty table.                                  *)
Version == CHOOSE v \in 0 .. Latest : (v \in applied \/ v = 0) /\ \A w \in applied : w <= v

-----------------------------------------------------------------------------

Where == {"closed", "look", "read", "check", "begin", "sql", "row", "commit", "open",
          "tooNew", "failed"}

MigTypeOK ==
  /\ applied \subseteq 1 .. Latest
  /\ objects \subseteq ObjectsAt(Latest)
  /\ lock \in Conn \cup {None}
  /\ at \in [Conn -> Where]
  /\ current \in [Conn -> 0 .. Latest]
  /\ next \in [Conn -> 1 .. Latest + 1]

(* The store was brought to some version by earlier runs, or is new.        *)
MigInit ==
  /\ \E v \in 0 .. Latest : applied = 1 .. v /\ objects = ObjectsAt(v)
  /\ lock = None
  /\ at = [c \in Conn |-> "closed"]
  /\ current = [c \in Conn |-> 0]
  /\ next = [c \in Conn |-> 1]

Go(c, place) == at' = [at EXCEPT ![c] = place]

(* Connection::open, and the pragmas of `tune`; none depends on the schema.  *)
Connect(c) ==
  /\ at[c] = "closed"
  /\ Go(c, "look")
  /\ UNCHANGED <<database, lock, current, next>>

(* current_version: the table may be missing ...                            *)
LookForTable(c) ==
  /\ at[c] = "look"
  /\ IF "schema_migrations" \in objects
     THEN Go(c, "read") /\ UNCHANGED current
     ELSE Go(c, "check") /\ current' = [current EXCEPT ![c] = 0]
  /\ UNCHANGED <<database, lock, next>>

(* ... or hold a version, which is read by a second statement. No lock is    *)
(* held over either, nor from them to the first BEGIN.                      *)
ReadVersion(c) ==
  /\ at[c] = "read"
  /\ Go(c, "check")
  /\ current' = [current EXCEPT ![c] = Version]
  /\ UNCHANGED <<database, lock, next>>

(* A newer schema is refused; otherwise the later migrations are to be       *)
(* applied, one by one.                                                     *)
CheckVersion(c) ==
  /\ at[c] = "check"
  /\ IF current[c] > Supported[c]
     THEN Go(c, "tooNew") /\ UNCHANGED next
     ELSE /\ Go(c, IF current[c] = Supported[c] THEN "open" ELSE "begin")
          /\ next' = [next EXCEPT ![c] = current[c] + 1]
  /\ UNCHANGED <<database, lock, current>>

(* BEGIN IMMEDIATE waits for the write lock ...                             *)
Begin(c) ==
  /\ at[c] = "begin"
  /\ lock = None
  /\ lock' = c
  /\ Go(c, "sql")
  /\ UNCHANGED <<database, current, next>>

(* ... for as long as busy_timeout, then the open fails.                    *)
Busy(c) ==
  /\ at[c] = "begin"
  /\ lock # None
  /\ Go(c, "failed")
  /\ UNCHANGED <<database, lock, current, next>>

(* The SQL of the migration. An error drops the transaction, which rolls it  *)
(* back, and fails the open.                                                *)
RunSql(c) ==
  /\ at[c] = "sql"
  /\ IF Sql[next[c]] \cap objects = {}
     THEN Go(c, "row") /\ UNCHANGED lock
     ELSE Go(c, "failed") /\ lock' = None
  /\ UNCHANGED <<database, current, next>>

(* Its bookkeeping row, whose version is the primary key.                   *)
InsertRow(c) ==
  /\ at[c] = "row"
  /\ IF next[c] \notin applied
     THEN Go(c, "commit") /\ UNCHANGED lock
     ELSE Go(c, "failed") /\ lock' = None
  /\ UNCHANGED <<database, current, next>>

(* A mistaken variant of Both, used only by the mutation runs: the row is    *)
(* forgotten.                                                               *)
BothNoRow(c) ==
  /\ objects' = objects \cup Sql[next[c]]
  /\ UNCHANGED applied

(* The objects and the row of a migration, as its commit makes them.        *)
Both(c) ==
  /\ objects' = objects \cup Sql[next[c]]
  /\ applied' = applied \cup {next[c]}

(* COMMIT, and on to the next migration.                                    *)
Commit(c) ==
  /\ at[c] = "commit"
  /\ Both(c)
  /\ lock' = None
  /\ next' = [next EXCEPT ![c] = @ + 1]
  /\ Go(c, IF next[c] = Supported[c] THEN "open" ELSE "begin")
  /\ UNCHANGED current

OpenStep(c) ==
  \/ Connect(c)
  \/ LookForTable(c)
  \/ ReadVersion(c)
  \/ CheckVersion(c)
  \/ Begin(c)
  \/ Busy(c)
  \/ RunSql(c)
  \/ InsertRow(c)
  \/ Commit(c)

(* The process ends, or is killed, wherever it is: SQLite forgets what was   *)
(* not committed.                                                           *)
Close(c) ==
  /\ at[c] # "closed"
  /\ Go(c, "closed")
  /\ lock' = IF lock = c THEN None ELSE lock
  /\ current' = [current EXCEPT ![c] = 0]
  /\ next' = [next EXCEPT ![c] = 1]
  /\ UNCHANGED database

MigNext == \E c \in Conn : OpenStep(c) \/ Close(c)

MigSpec == MigInit /\ [][MigNext]_migVars

-----------------------------------------------------------------------------
(* The schema is that of one version, whole, whoever else was opening the    *)
(* store and wherever they were killed: no object without its row, no row   *)
(* without its objects, no version left out (lib.rs 399).                   *)
SchemaWhole ==
  \E v \in 0 .. Latest : applied = 1 .. v /\ objects = ObjectsAt(v)

(* A connection that opened the store finds every version its build knows.   *)
OpensComplete ==
  \A c \in Conn : at[c] = "open" => 1 .. Supported[c] \subseteq applied

(* Both of the above: however many opens overlap and wherever they are       *)
(* killed, what is left is a schema, and an open store one new enough        *)
(* (lib.rs 399).                                                            *)
SchemaSound == SchemaWhole /\ OpensComplete

(* A step never takes anything out of the schema, and adds at most one whole *)
(* migration to it, the next.                                               *)
OneAtATime ==
  [][/\ applied \subseteq applied' /\ objects \subseteq objects'
     /\ Cardinality(applied' \ applied) <= 1]_database
=============================================================================
