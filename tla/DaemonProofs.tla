----------------------------- MODULE DaemonProofs -----------------------------
(***************************************************************************)
(* What runs around the daemon: the schema of its store and its pidfile, its  *)
(* control channel, its PDF processes, the update of its binary, its log and   *)
(* the terminal that shows it, for any number of invocations, whatever         *)
(* versions their builds know and command lines they have, clients,           *)
(* directories, PDFs, updaters, releases, log events, polls, faults and kills. *)
(***************************************************************************)
EXTENDS MCDaemon, FiniteSetTheorems, SequenceTheorems, WellFoundedInduction, TLAPS

-----------------------------------------------------------------------------
(* The schema and the pidfile (Migrations, Lifecycle).                        *)

(* Each migration creates something, so that running it twice shows.         *)
LEMMA SqlCreates ==
  ASSUME NEW n \in 1 .. Latest
  PROVE  Sql[n] # {}
  <1>1. n \in 1 .. 5
    BY MigrationsAssumption
  <1>2. /\ Sql[1] = SchemaVersionSql /\ Sql[2] = TimelineSql /\ Sql[3] = MetadataSql
        /\ Sql[4] = EnrichmentSql /\ Sql[5] = EmbeddingsSql
    BY DEF Sql
  <1>3. /\ SchemaVersionSql # {} /\ TimelineSql # {} /\ MetadataSql # {}
        /\ EnrichmentSql # {} /\ EmbeddingsSql # {}
    BY DEF SchemaVersionSql, TimelineSql, MetadataSql, EnrichmentSql, EmbeddingsSql
  <1> QED
    BY <1>1, <1>2, <1>3

(* What the migrations up to a version create, one more at a time.           *)
LEMMA ObjectsGrow ==
  ASSUME NEW v \in Nat
  PROVE  /\ ObjectsAt(v + 1) = ObjectsAt(v) \cup Sql[v + 1]
         /\ \A n \in 1 .. v : Sql[n] \subseteq ObjectsAt(v)
         /\ \A w \in Nat : v <= w => ObjectsAt(v) \subseteq ObjectsAt(w)
  <1>1. 1 .. v + 1 = (1 .. v) \cup {v + 1}
    OBVIOUS
  <1>2. ObjectsAt(v + 1) = ObjectsAt(v) \cup Sql[v + 1]
    BY <1>1 DEF ObjectsAt
  <1>3. ASSUME NEW w \in Nat, v <= w
        PROVE  ObjectsAt(v) \subseteq ObjectsAt(w)
    <2>1. 1 .. v \subseteq 1 .. w
      BY <1>3
    <2> QED
      BY <2>1 DEF ObjectsAt
  <1> QED
    BY <1>2, <1>3 DEF ObjectsAt

(* The version of a whole schema is the last of its migrations.              *)
LEMMA VersionOfWhole ==
  ASSUME NEW v \in 0 .. Latest, applied = 1 .. v
  PROVE  Version = v
  <1>1. Latest \in Nat
    BY MigrationsAssumption
  <1>2. (v \in applied \/ v = 0) /\ \A w \in applied : w <= v
    BY <1>1
  <1>3. ASSUME NEW u \in 0 .. Latest, u \in applied \/ u = 0, \A w \in applied : w <= u
        PROVE  u = v
    BY <1>1, <1>3
  <1> QED
    BY <1>2, <1>3 DEF Version

-----------------------------------------------------------------------------
(* Why the schema stays whole: the holder of the write lock is the only one  *)
(* past BEGIN; everybody has read, or applied, all that comes before the     *)
(* migration at hand; and once its SQL has run, nothing of it was there      *)
(* before, so it is the next one.                                           *)

Applying == {"sql", "row", "commit"}

LockInv == \A c \in Conn : at[c] \in Applying <=> lock = c

KnowsInv ==
  \A c \in Conn :
    /\ at[c] = "check" => 1 .. current[c] \subseteq applied
    /\ at[c] \in {"begin"} \cup Applying =>
         next[c] \in 1 .. Latest /\ next[c] <= Supported[c] /\ 1 .. next[c] - 1 \subseteq applied

FreshInv ==
  \A c \in Conn : at[c] \in {"row", "commit"} => Sql[next[c]] \cap objects = {}

MigInv == MigTypeOK /\ SchemaSound /\ LockInv /\ KnowsInv /\ FreshInv

LEMMA MigInitInv == MigInit => MigInv
  <1> SUFFICES ASSUME MigInit PROVE MigInv
    OBVIOUS
  <1>1. PICK v \in 0 .. Latest : applied = 1 .. v /\ objects = ObjectsAt(v)
    BY DEF MigInit
  <1>2. Latest \in 1 .. 5 /\ None \notin Conn
    BY MigrationsAssumption
  <1>3. applied \subseteq 1 .. Latest /\ objects \subseteq ObjectsAt(Latest)
    BY <1>1, <1>2, ObjectsGrow
  <1>4. MigTypeOK
    BY <1>2, <1>3 DEF MigTypeOK, MigInit, Where
  <1>5. SchemaSound
    BY <1>1 DEF MigInit, SchemaSound, SchemaWhole, OpensComplete
  <1> QED
    BY <1>2, <1>4, <1>5 DEF MigInv, MigInit, LockInv, KnowsInv, FreshInv, Applying

(* A step that leaves the database alone keeps what is whole whole.          *)
LEMMA SameDatabase ==
  ASSUME SchemaWhole, UNCHANGED database
  PROVE  SchemaWhole'
  BY DEF SchemaWhole, database, ObjectsAt

LEMMA MigStep == MigInv /\ [MigNext]_migVars => MigInv'
  <1> SUFFICES ASSUME MigInv, [MigNext]_migVars PROVE MigInv'
    OBVIOUS
  <1>a. Latest \in 1 .. 5 /\ None \notin Conn /\ Supported \in [Conn -> 1 .. Latest]
    BY MigrationsAssumption
  <1>1. ASSUME NEW c \in Conn, Connect(c) PROVE MigInv'
    <2>1. SchemaWhole'
      BY <1>1, SameDatabase DEF Connect, MigInv, SchemaSound
    <2> QED
      BY <1>a, <1>1, <2>1 DEF MigInv, Connect, Go, MigTypeOK, Where, SchemaSound, OpensComplete,
        LockInv, KnowsInv, FreshInv, Applying, database
  <1>2. ASSUME NEW c \in Conn, LookForTable(c) PROVE MigInv'
    <2>1. SchemaWhole'
      BY <1>2, SameDatabase DEF LookForTable, MigInv, SchemaSound
    <2> QED
      BY <1>a, <1>2, <2>1 DEF MigInv, LookForTable, Go, MigTypeOK, Where, SchemaSound,
        OpensComplete, LockInv, KnowsInv, FreshInv, Applying, database
  <1>3. ASSUME NEW c \in Conn, ReadVersion(c) PROVE MigInv'
    <2>1. SchemaWhole'
      BY <1>3, SameDatabase DEF ReadVersion, MigInv, SchemaSound
    <2>2. Version \in 0 .. Latest /\ 1 .. Version \subseteq applied
      BY VersionOfWhole DEF MigInv, SchemaSound, SchemaWhole
    <2> QED
      BY <1>a, <1>3, <2>1, <2>2 DEF MigInv, ReadVersion, Go, MigTypeOK, Where, SchemaSound,
        OpensComplete, LockInv, KnowsInv, FreshInv, Applying, database
  <1>4. ASSUME NEW c \in Conn, CheckVersion(c) PROVE MigInv'
    <2>1. SchemaWhole'
      BY <1>4, SameDatabase DEF CheckVersion, MigInv, SchemaSound
    <2> USE DEF MigInv, CheckVersion, Go, MigTypeOK, database
    <2>2. /\ current[c] \in 0 .. Latest /\ 1 .. current[c] \subseteq applied
          /\ Supported[c] \in 1 .. Latest
      BY <1>a, <1>4 DEF KnowsInv
    <2>3. MigTypeOK'
      BY <1>a, <1>4, <2>2 DEF Where
    <2>4. OpensComplete'
      BY <1>a, <1>4, <2>2 DEF SchemaSound, OpensComplete
    <2>5. LockInv'
      BY <1>a, <1>4 DEF LockInv, Applying
    <2>6. KnowsInv'
      BY <1>a, <1>4, <2>2 DEF KnowsInv, Applying
    <2>7. FreshInv'
      BY <1>a, <1>4 DEF FreshInv
    <2> QED
      BY <2>1, <2>3, <2>4, <2>5, <2>6, <2>7 DEF SchemaSound
  <1>5. ASSUME NEW c \in Conn, Begin(c) PROVE MigInv'
    <2>1. SchemaWhole'
      BY <1>5, SameDatabase DEF Begin, MigInv, SchemaSound
    <2> QED
      BY <1>a, <1>5, <2>1 DEF MigInv, Begin, Go, MigTypeOK, Where, SchemaSound, OpensComplete,
        LockInv, KnowsInv, FreshInv, Applying, database
  <1>6. ASSUME NEW c \in Conn, Busy(c) PROVE MigInv'
    <2>1. SchemaWhole'
      BY <1>6, SameDatabase DEF Busy, MigInv, SchemaSound
    <2> QED
      BY <1>a, <1>6, <2>1 DEF MigInv, Busy, Go, MigTypeOK, Where, SchemaSound, OpensComplete,
        LockInv, KnowsInv, FreshInv, Applying, database
  <1>7. ASSUME NEW c \in Conn, RunSql(c) PROVE MigInv'
    <2>1. SchemaWhole'
      BY <1>7, SameDatabase DEF RunSql, MigInv, SchemaSound
    <2> QED
      BY <1>a, <1>7, <2>1 DEF MigInv, RunSql, Go, MigTypeOK, Where, SchemaSound, OpensComplete,
        LockInv, KnowsInv, FreshInv, Applying, database
  <1>8. ASSUME NEW c \in Conn, InsertRow(c) PROVE MigInv'
    <2>1. SchemaWhole'
      BY <1>8, SameDatabase DEF InsertRow, MigInv, SchemaSound
    <2> QED
      BY <1>a, <1>8, <2>1 DEF MigInv, InsertRow, Go, MigTypeOK, Where, SchemaSound,
        OpensComplete, LockInv, KnowsInv, FreshInv, Applying, database
  <1>9. ASSUME NEW c \in Conn, Commit(c) PROVE MigInv'
    <2> DEFINE n == next[c]
    <2> USE DEF MigInv
    <2>1. PICK v \in 0 .. Latest : applied = 1 .. v /\ objects = ObjectsAt(v)
      BY DEF SchemaSound, SchemaWhole
    <2>2. /\ n \in 1 .. Latest /\ n <= Supported[c] /\ 1 .. n - 1 \subseteq applied
          /\ Sql[n] \cap objects = {} /\ lock = c
      BY <1>9 DEF Commit, KnowsInv, FreshInv, LockInv, Applying
    <2>3. n \notin 1 .. v
      BY <1>a, <2>1, <2>2, SqlCreates, ObjectsGrow
    <2>4. n = v + 1
      <3>1. CASE n = 1
        BY <1>a, <2>1, <2>3, <3>1
      <3>2. CASE n # 1
        <4>1. n - 1 \in 1 .. v
          BY <1>a, <2>1, <2>2, <3>2
        <4> QED
          BY <1>a, <2>1, <2>2, <2>3, <4>1
      <3> QED
        BY <3>1, <3>2
    <2>5. applied' = 1 .. n /\ objects' = ObjectsAt(n) /\ n \in 0 .. Latest
      <3>1. 1 .. v + 1 = (1 .. v) \cup {v + 1}
        BY <1>a
      <3> QED
        BY <1>9, <1>a, <2>1, <2>2, <2>4, <3>1, ObjectsGrow DEF Commit, Both
    <2>6. SchemaWhole'
      BY <2>5 DEF SchemaWhole, ObjectsAt
    <2>7. applied \subseteq applied' /\ applied' \subseteq 1 .. Latest
      BY <1>a, <2>1, <2>4, <2>5
    <2>8. objects' \subseteq ObjectsAt(Latest)
      <3>1. n \in Nat /\ Latest \in Nat /\ n <= Latest
        BY <1>a, <2>2
      <3>2. ObjectsAt(n) \subseteq ObjectsAt(Latest)
        BY <3>1, ObjectsGrow
      <3> QED
        BY <2>5, <3>2
    <2>9. \A d \in Conn \ {c} : at[d] \notin Applying /\ at'[d] = at[d] /\ next'[d] = next[d]
                                /\ current'[d] = current[d]
      BY <1>9, <2>2 DEF LockInv, Commit, Go, MigTypeOK
    <2>10. /\ at'[c] = (IF n = Supported[c] THEN "open" ELSE "begin")
           /\ next'[c] = n + 1 /\ n + 1 \in 1 .. Latest + 1
           /\ lock' = None
      BY <1>9, <1>a, <2>2 DEF Commit, Go, MigTypeOK
    <2>11. MigTypeOK'
      BY <1>9, <1>a, <2>7, <2>8, <2>10 DEF Commit, Go, MigTypeOK, Where
    <2>12. OpensComplete'
      <3>1. ASSUME NEW d \in Conn, at'[d] = "open"
            PROVE  1 .. Supported[d] \subseteq applied'
        <4>1. CASE d = c
          BY <2>5, <2>10, <3>1, <4>1
        <4>2. CASE d # c
          BY <2>7, <2>9, <3>1, <4>2 DEF SchemaSound, OpensComplete
        <4> QED
          BY <4>1, <4>2
      <3> QED
        BY <3>1 DEF OpensComplete
    <2>13. LockInv'
      BY <1>a, <2>9, <2>10 DEF LockInv, Applying
    <2>14. KnowsInv'
      <3>1. ASSUME NEW d \in Conn
            PROVE  /\ at'[d] = "check" => 1 .. current'[d] \subseteq applied'
                   /\ at'[d] \in {"begin"} \cup Applying =>
                        /\ next'[d] \in 1 .. Latest /\ next'[d] <= Supported[d]
                        /\ 1 .. next'[d] - 1 \subseteq applied'
        <4>1. CASE d = c
          <5>1. Supported[c] \in 1 .. Latest
            BY <1>a
          <5>2. at'[c] # "check"
            BY <2>10
          <5>3. ASSUME at'[c] \in {"begin"} \cup Applying
                PROVE  n + 1 \in 1 .. Latest /\ n + 1 <= Supported[c]
            BY <1>a, <2>2, <2>10, <5>1, <5>3 DEF Applying
          <5>4. 1 .. (n + 1) - 1 \subseteq applied'
            BY <1>a, <2>2, <2>5
          <5> QED
            BY <2>10, <4>1, <5>2, <5>3, <5>4
        <4>2. CASE d # c
          BY <2>7, <2>9, <4>2 DEF KnowsInv
        <4> QED
          BY <4>1, <4>2
      <3> QED
        BY <3>1 DEF KnowsInv
    <2>15. FreshInv'
      BY <2>9, <2>10 DEF FreshInv, Applying
    <2> QED
      BY <2>6, <2>11, <2>12, <2>13, <2>14, <2>15 DEF SchemaSound
  <1>10. ASSUME NEW c \in Conn, Close(c) PROVE MigInv'
    <2>1. SchemaWhole'
      BY <1>10, SameDatabase DEF Close, MigInv, SchemaSound
    <2> QED
      BY <1>a, <1>10, <2>1 DEF MigInv, Close, Go, MigTypeOK, Where, SchemaSound, OpensComplete,
        LockInv, KnowsInv, FreshInv, Applying, database
  <1>11. CASE UNCHANGED migVars
    BY <1>11, SameDatabase DEF MigInv, migVars, database, MigTypeOK, SchemaSound, OpensComplete,
      LockInv, KnowsInv, FreshInv
  <1> QED
    BY <1>1, <1>2, <1>3, <1>4, <1>5, <1>6, <1>7, <1>8, <1>9, <1>10, <1>11
      DEF MigNext, OpenStep

(* Every state of every behaviour satisfies the invariant.                   *)
LEMMA MigrationsInvariant == MigSpec => []MigInv
  BY MigInitInv, MigStep, PTL DEF MigSpec

-----------------------------------------------------------------------------
(* The types of the variables, for any connections and versions.             *)
THEOREM MigrationsTypeCorrect == MigSpec => []MigTypeOK
  <1>1. MigInv => MigTypeOK
    BY DEF MigInv
  <1> QED
    BY <1>1, MigrationsInvariant, PTL

(* However many processes open the store at once, and wherever each is       *)
(* killed, the schema is that of one version, whole, and a store that was    *)
(* opened has every version its build knows (dafs-store lib.rs 399).         *)
THEOREM MigrationsSchemaSound == MigSpec => []SchemaSound
  <1>1. MigInv => SchemaSound
    BY DEF MigInv
  <1> QED
    BY <1>1, MigrationsInvariant, PTL

(* No step takes an object or a version away, and none adds two versions.     *)
THEOREM MigrationsOneAtATime == MigSpec => OneAtATime
  <1> DEFINE Grows == /\ applied \subseteq applied' /\ objects \subseteq objects'
                      /\ Cardinality(applied' \ applied) <= 1
  <1>1. ASSUME MigInv, [MigNext]_migVars PROVE [Grows]_database
    <2>1. ASSUME NEW c \in Conn, Commit(c) PROVE Grows
      <3>1. applied' \ applied \in {{}, {next[c]}}
        BY <2>1 DEF Commit, Both
      <3>2. Cardinality(applied' \ applied) <= 1
        <4>1. Cardinality({}) = 0 /\ Cardinality({next[c]}) = 1
          BY FS_EmptySet, FS_Singleton
        <4>2. CASE applied' \ applied = {}
          BY <4>1, <4>2
        <4>3. CASE applied' \ applied = {next[c]}
          BY <4>1, <4>3
        <4> QED
          BY <3>1, <4>2, <4>3
      <3> QED
        BY <2>1, <3>2 DEF Commit, Both
    <2>2. CASE \E c \in Conn : Commit(c)
      BY <2>1, <2>2
    <2>3. CASE ~\E c \in Conn : Commit(c)
      BY <1>1, <2>3 DEF MigNext, OpenStep, migVars, database, Connect, LookForTable,
        ReadVersion, CheckVersion, Begin, Busy, RunSql, InsertRow, Close
    <2> QED
      BY <2>2, <2>3
  <1>2. MigSpec => [][Grows]_database
    BY <1>1, MigrationsInvariant, PTL DEF MigSpec
  <1> QED
    BY <1>2 DEF OneAtATime

-----------------------------------------------------------------------------
(* Lifecycle. Whoever has come to serve never starts again: what the pidfile  *)
(* said of him once he served, and what an invocation found or knew of him,   *)
(* holds of somebody who still runs or is gone.                              *)
Gone == {"exited", "foreign"}

Names(d) == pidfile # Absent /\ pidfile.pid = d

(* A record is whole once its process serves, and open to it before that.     *)
FileInv ==
  pidfile # Absent =>
    IF pidfile.whole THEN Pc(pidfile.pid) \in Running \cup Gone
    ELSE pidfile.pid \in pidfile.writers /\ Pc(pidfile.pid) \in {"write"} \cup Gone

(* The command line and the daemon found, by place.                          *)
PlaceInv(p) ==
  /\ Pc(p) # "idle" => Args(p) \in Options[p]
  /\ Pc(p) \in {"signal", "wait"} => Args(p).cmd = "stop"
  /\ Pc(p) \in (Starting \ {"find", "unlink"}) \cup Running \cup {"reconcile"} =>
       Args(p).cmd = "run"
  /\ Pc(p) = "find" => proc[p].found = None
  /\ Pc(p) \notin Running \cup Gone => proc[p].wedged = {}

FoundInv(p) ==
  Pc(p) \in Asking =>
    LET d == proc[p].found IN
    /\ d \in Conn \ {p}
    /\ Pc(d) \in (IF Pc(p) = "wait" THEN Stopping ELSE Running) \cup Gone

(* Unless the pidfile was contested, it names each daemon from when it begins  *)
(* to write it until it is gone, so that it is not gone before.               *)
OwnInv(p) == ~contested /\ Pc(p) \in {"write"} \cup Running => Names(p)

StopInv(p) ==
  LET d == proc[p].found IN
  (/\ ~contested /\ d # None /\ Args(p).cmd = "stop"
   /\ Pc(p) = "unlink" \/ (Pc(p) = "exited" /\ proc[p].exit = "ok"))
  => Pc(d) \in Gone

(* A pidfile that names the daemon known from the start has named it all the   *)
(* time, and kept who knew it from getting any further.                      *)
KnownInv(p) ==
  LET d == known[p] IN
  IF Pc(p) = "idle" THEN d = None
  ELSE d # None =>
    /\ d # p
    /\ Pc(d) \in Running \cup Gone
    /\ Names(d) /\ Pc(d) \in Running => Pc(p) \in {"find"} \cup Asking \cup Gone

ProcessInvs(p) == PlaceInv(p) /\ FoundInv(p) /\ OwnInv(p) /\ StopInv(p) /\ KnownInv(p)

LifeInv ==
  /\ MigInv /\ LifecycleTypeOK
  /\ FileInv
  /\ \A p \in Conn : ProcessInvs(p)

LEMMA LifeInvIsSound == LifeInv => LifecycleSound
  <1> SUFFICES ASSUME LifeInv PROVE LifecycleSound
    OBVIOUS
  <1>1. LiveIsBound
    <2>1. FindLive = "live" => pidfile # Absent /\ pidfile.whole /\ Alive(pidfile.pid)
      BY DEF FindLive
    <2> QED
      BY <2>1 DEF LifeInv, FileInv, LiveIsBound, Alive, Gone
  <1>2. StoppedMeansGone
    <2> SUFFICES ASSUME NEW p \in Conn, Pc(p) = "exited", proc[p].exit = "ok",
                        proc[p].found # None, Args(p).cmd = "stop", ~contested
                 PROVE  Pc(proc[p].found) \in {"exited", "foreign"}
      BY DEF StoppedMeansGone
    <2> QED
      BY DEF LifeInv, ProcessInvs, StopInv, Gone
  <1> QED
    BY <1>1, <1>2 DEF LifeInv, LifecycleSound

LEMMA ThreadIs == Thread = {"observer", "extract", "enrich", "embed"}
  <1>1. 1 .. 4 = {1, 2, 3, 4}
    OBVIOUS
  <1>2. JoinOrder[1] = "observer" /\ JoinOrder[2] = "extract" /\ JoinOrder[3] = "enrich"
        /\ JoinOrder[4] = "embed"
    BY DEF JoinOrder
  <1> QED
    BY <1>1, <1>2 DEF Thread

(* What a step changes of the processes: one of them, and of that its place.  *)
Only(p) == proc' \in [Conn -> ProcessState] /\ \A q \in Conn \ {p} : proc'[q] = proc[q]

Keeps(p) == Args(p)' = Args(p) /\ proc'[p].found = proc[p].found

LEMMA BecomeIs ==
  ASSUME LifecycleTypeOK, NEW p \in Conn, NEW place \in Places, Become(p, place)
  PROVE  /\ Only(p) /\ Keeps(p) /\ Pc(p)' = place
         /\ proc'[p].threads = proc[p].threads /\ proc'[p].wedged = proc[p].wedged
  <1> DEFINE q == proc[p]
             r == [q EXCEPT !.pc = place]
  <1>1. proc \in [Conn -> ProcessState] /\ q \in ProcessState
    BY DEF LifecycleTypeOK
  <1>2. /\ r \in ProcessState /\ r.pc = place /\ r.args = q.args /\ r.found = q.found
        /\ r.threads = q.threads /\ r.wedged = q.wedged
    BY <1>1 DEF ProcessState
  <1>3. proc' = [proc EXCEPT ![p] = r]
    BY DEF Become
  <1> HIDE DEF r
  <1> QED
    BY <1>1, <1>2, <1>3 DEF Only, Keeps, Args, Pc

LEMMA FoundIs ==
  ASSUME LifecycleTypeOK, NEW p \in Conn, NEW place \in Places, pidfile # Absent, Found(p, place)
  PROVE  /\ Only(p) /\ Args(p)' = Args(p) /\ proc'[p].found = pidfile.pid /\ Pc(p)' = place
         /\ proc'[p].threads = proc[p].threads /\ proc'[p].wedged = proc[p].wedged
  <1> DEFINE q == proc[p]
             r == [q EXCEPT !.pc = place, !.found = pidfile.pid]
  <1>1. proc \in [Conn -> ProcessState] /\ q \in ProcessState /\ pidfile.pid \in Conn
    BY DEF LifecycleTypeOK, Record
  <1>2. /\ r \in ProcessState /\ r.pc = place /\ r.args = q.args /\ r.found = pidfile.pid
        /\ r.threads = q.threads /\ r.wedged = q.wedged
    BY <1>1 DEF ProcessState
  <1>3. proc' = [proc EXCEPT ![p] = r]
    BY DEF Found
  <1> HIDE DEF r
  <1> QED
    BY <1>1, <1>2, <1>3 DEF Only, Keeps, Args, Pc

LEMMA ExitIs ==
  ASSUME LifecycleTypeOK, NEW p \in Conn, NEW how \in {"ok", "error", "killed"}, Exit(p, how)
  PROVE  /\ Only(p) /\ Keeps(p) /\ Pc(p)' = "exited" /\ proc'[p].exit = how
         /\ proc'[p].threads = {} /\ proc'[p].wedged = {}
         /\ port' \in [Addrs -> Conn \cup {None}]
         /\ Close(p) \/ UNCHANGED migVars
  <1> DEFINE q == proc[p]
             r == [q EXCEPT !.pc = "exited", !.exit = how, !.chdir = FALSE, !.threads = {},
                            !.wedged = {}, !.polls = 0]
  <1>1. proc \in [Conn -> ProcessState] /\ q \in ProcessState /\ port \in [Addrs -> Conn \cup {None}]
    BY DEF LifecycleTypeOK
  <1>2. "exited" \in Places /\ 0 \in 0 .. MaxPolls
    BY LifecycleAssumption DEF Places
  <1>3. /\ r \in ProcessState /\ r.pc = "exited" /\ r.args = q.args /\ r.found = q.found
        /\ r.exit = how /\ r.threads = {} /\ r.wedged = {}
    BY <1>1, <1>2 DEF ProcessState
  <1>4. proc' = [proc EXCEPT ![p] = r] /\ port' = [a \in Addrs |-> IF port[a] = p THEN None ELSE port[a]]
        /\ (Close(p) \/ UNCHANGED migVars)
    BY DEF Exit
  <1> HIDE DEF r
  <1> QED
    BY <1>1, <1>3, <1>4 DEF Only, Keeps, Args, Pc

LEMMA TerminatedIs ==
  ASSUME LifecycleTypeOK, NEW p \in Conn
  PROVE  /\ Terminated(p) \in ProcessState
         /\ Terminated(p).args = proc[p].args /\ Terminated(p).found = proc[p].found
         /\ Terminated(p).threads = proc[p].threads /\ Terminated(p).wedged = proc[p].wedged
         /\ IF Pc(p) \in Running
            THEN Terminated(p).pc = IF Pc(p) = "serve" THEN "drain" ELSE Pc(p)
            ELSE Terminated(p).pc = "exited" /\ Terminated(p).exit = "killed"
         /\ Unbound(p) \in [Addrs -> Conn \cup {None}]
  <1> DEFINE q == proc[p]
             drains == [q EXCEPT !.pc = "drain"]
             dies == [q EXCEPT !.pc = "exited", !.exit = "killed"]
  <1>1. q \in ProcessState /\ port \in [Addrs -> Conn \cup {None}]
    BY DEF LifecycleTypeOK
  <1>2. "serve" \in Running /\ {"drain", "exited"} \subseteq Places
    BY DEF Places, Running, Stopping
  <1>3. /\ drains \in ProcessState /\ drains.pc = "drain" /\ drains.args = q.args
        /\ drains.found = q.found /\ drains.threads = q.threads /\ drains.wedged = q.wedged
    BY <1>1, <1>2 DEF ProcessState
  <1>4. /\ dies \in ProcessState /\ dies.pc = "exited" /\ dies.exit = "killed"
        /\ dies.args = q.args /\ dies.found = q.found
        /\ dies.threads = q.threads /\ dies.wedged = q.wedged
    BY <1>1, <1>2 DEF ProcessState
  <1>5. Terminated(p) = IF Pc(p) = "serve" THEN drains
                        ELSE IF Pc(p) \in Running THEN q ELSE dies
    <2>1. CASE Pc(p) = "serve"
      BY <2>1, <1>2 DEF Terminated
    <2>2. CASE Pc(p) # "serve" /\ Pc(p) \in Running
      BY <2>2 DEF Terminated
    <2>3. CASE Pc(p) \notin Running
      BY <2>3, <1>2 DEF Terminated
    <2> QED
      BY <2>1, <2>2, <2>3
  <1>6. Unbound(p) \in [Addrs -> Conn \cup {None}]
    BY <1>1 DEF Unbound
  <1> HIDE DEF drains, dies
  <1> QED
    BY <1>1, <1>2, <1>3, <1>4, <1>5, <1>6 DEF Pc

(* A step of the lifecycle is one of opening the store, or leaves it alone.   *)
LEMMA LifecycleIsMig == LifeInv /\ [LifecycleNext]_lifecycleVars => [MigNext]_migVars
  <1> SUFFICES ASSUME LifeInv, [LifecycleNext]_lifecycleVars PROVE [MigNext]_migVars
    OBVIOUS
  <1>1. ASSUME NEW p \in Conn, NEW how, Exit(p, how) PROVE [MigNext]_migVars
    BY <1>1 DEF Exit, MigNext
  <1>2. ASSUME Stays PROVE [MigNext]_migVars
    BY <1>2 DEF Stays
  <1>3. CASE UNCHANGED lifecycleVars
    BY <1>3 DEF lifecycleVars
  <1>4. ASSUME NEW p \in Conn,
               \/ Launch(p) \/ Interrupt(p) \/ Wedge(p) \/ Reuse(p) \/ FindAtStart(p)
               \/ Detach(p) \/ Truncate(p) \/ WriteRecord(p) \/ Drained(p) \/ ThreadEnds(p)
               \/ Joined(p)
        PROVE  [MigNext]_migVars
    BY <1>4 DEF Launch, Interrupt, Wedge, Reuse, FindAtStart, Detach, Truncate, WriteRecord,
      Drained, ThreadEnds, Joined
  <1>5. ASSUME NEW p \in Conn,
               \/ KillProcess(p) \/ Unlink(p) \/ Reconcile(p) \/ OpenElsewhere(p) \/ Opened(p)
               \/ Spawn(p) \/ RemoveRecord(p)
        PROVE  [MigNext]_migVars
    BY <1>1, <1>2, <1>5 DEF KillProcess, Unlink, Reconcile, OpenElsewhere, Opened, Spawn,
      RemoveRecord
  <1>6. ASSUME NEW p \in Conn, FindToStop(p) \/ Wait(p) PROVE [MigNext]_migVars
    <2>1. FindLive \in {"none", "stale", "live"}
      BY DEF FindLive
    <2>2. CASE FindToStop(p)
      BY <1>1, <1>2, <2>1, <2>2 DEF FindToStop
    <2>3. CASE Wait(p)
      BY <1>1, <1>2, <2>1, <2>3 DEF Wait
    <2> QED
      BY <1>6, <2>2, <2>3
  <1>7. ASSUME NEW p \in Conn, Bind(p) PROVE [MigNext]_migVars
    BY <1>1, <1>7 DEF Bind
  <1>8. ASSUME NEW p \in Conn, OpenStore(p) PROVE [MigNext]_migVars
    BY <1>8 DEF OpenStore, MigNext
  <1>9. ASSUME NEW p \in Conn, Signal(p) PROVE [MigNext]_migVars
    <2> DEFINE d == proc[p].found
    <2>1. d \in Conn
      BY <1>9 DEF Signal, LifeInv, ProcessInvs, FoundInv, Asking
    <2> HIDE DEF d
    <2>2. CASE Alive(d)
      BY <1>9, <2>1, <2>2 DEF Signal, MigNext, d
    <2> QED
      BY <1>1, <1>9, <2>2 DEF Signal, d
  <1> QED
    BY <1>3, <1>4, <1>5, <1>6, <1>7, <1>8, <1>9 DEF LifecycleNext, Step

(* Where a process may be taken, by itself or by others.                     *)
Onward(q) ==
  /\ Pc(q) \in Gone => Pc(q)' \in Gone
  /\ Pc(q) \in Stopping => Pc(q)' \in Stopping \cup Gone
  /\ Pc(q) = "serve" => Pc(q)' \in Running \cup Gone
  /\ Pc(q) = "write" => Pc(q)' \in {"write", "serve"} \cup Gone

(* What holds of a process that a step does not touch.                       *)
LEMMA OthersKept ==
  ASSUME LifeInv, NEW q \in Conn, \A d \in Conn : Onward(d),
         proc'[q] = proc[q], known'[q] = known[q], contested => contested',
         \A d \in Conn : Pc(d) \in Running /\ Names(d)' => Names(d),
         ~contested' /\ Names(q) /\ Pc(q) \in {"write"} \cup Running => Names(q)'
  PROVE  ProcessInvs(q)'
  <1>a. ProcessInvs(q) /\ Pc(q)' = Pc(q) /\ Args(q)' = Args(q)
    BY DEF LifeInv, Pc, Args
  <1>b. \A d \in Conn : Pc(d) \in Running \cup Gone => Pc(d)' \in Running \cup Gone
    BY DEF Onward, Running
  <1>c. \A d \in Conn : Pc(d) \in Gone => Pc(d)' \in Gone
    BY DEF Onward
  <1>d. Running \cap Gone = {}
    BY ThreadIs DEF Running, Stopping, Gone
  <1>e. known[q] \in Conn \cup {None} /\ proc[q].found \in Conn \cup {None} /\ None \notin Conn
    BY MigrationsAssumption DEF LifeInv, LifecycleTypeOK, ProcessState
  <1>1. PlaceInv(q)'
    BY <1>a DEF ProcessInvs, PlaceInv
  <1>2. FoundInv(q)'
    <2> SUFFICES ASSUME Pc(q) \in Asking PROVE FoundInv(q)'
      BY <1>a DEF FoundInv
    <2> DEFINE d == proc[q].found
    <2>1. d \in Conn \ {q} /\ Pc(d) \in (IF Pc(q) = "wait" THEN Stopping ELSE Running) \cup Gone
      BY <1>a DEF ProcessInvs, FoundInv
    <2>2. Pc(d)' \in (IF Pc(q) = "wait" THEN Stopping ELSE Running) \cup Gone
      BY <1>b, <2>1 DEF Onward
    <2> QED
      BY <1>a, <2>1, <2>2 DEF FoundInv
  <1>3. OwnInv(q)'
    BY <1>a DEF ProcessInvs, OwnInv
  <1>4. StopInv(q)'
    <2> DEFINE d == proc[q].found
    <2>1. SUFFICES ASSUME StopInv(q), d \in Conn PROVE StopInv(q)'
      BY <1>a, <1>e DEF ProcessInvs, StopInv
    <2>2. Pc(d) \in Gone => Pc(d)' \in Gone
      BY <1>c, <2>1
    <2> QED
      BY <1>a, <2>1, <2>2 DEF StopInv
  <1>5. KnownInv(q)'
    <2> DEFINE d == known[q]
    <2>1. CASE d = None \/ Pc(q) = "idle"
      BY <1>a, <2>1 DEF ProcessInvs, KnownInv
    <2>2. CASE d \in Conn /\ Pc(q) # "idle"
      <3>1. /\ d # q /\ Pc(d) \in Running \cup Gone
            /\ Names(d) /\ Pc(d) \in Running => Pc(q) \in {"find"} \cup Asking \cup Gone
        BY <1>a, <1>e, <2>2 DEF ProcessInvs, KnownInv
      <3>2. Pc(d)' \in Running \cup Gone
        BY <1>b, <2>2, <3>1
      <3>3. ASSUME Names(d)', Pc(d)' \in Running PROVE Pc(q) \in {"find"} \cup Asking \cup Gone
        <4>1. Pc(d) \in Running
          BY <1>c, <1>d, <2>2, <3>1, <3>3
        <4> QED
          BY <2>2, <3>1, <3>3, <4>1
      <3> QED
        BY <1>a, <2>2, <3>1, <3>2, <3>3 DEF KnownInv
    <2> QED
      BY <1>e, <2>1, <2>2
  <1> QED
    BY <1>1, <1>2, <1>3, <1>4, <1>5 DEF ProcessInvs

(* A step that touches neither the pidfile nor who is to fill it.             *)
LEMMA QuietStep ==
  ASSUME LifeInv, MigInv', LifecycleTypeOK', UNCHANGED <<pidfile, contested>>,
         \A d \in Conn : Onward(d) /\ (Pc(d) = "write" => Pc(d)' # "serve"),
         \A q \in Conn : (proc'[q] = proc[q] /\ known'[q] = known[q]) \/ ProcessInvs(q)'
  PROVE  LifeInv'
  <1>1. \A q \in Conn : ProcessInvs(q)'
    BY OthersKept DEF Names
  <1>2. FileInv'
    <2> SUFFICES ASSUME pidfile # Absent PROVE FileInv'
      BY DEF FileInv
    <2> DEFINE d == pidfile.pid
    <2>1. d \in Conn
      BY DEF LifeInv, LifecycleTypeOK, Record
    <2>2. CASE pidfile.whole
      <3>1. Pc(d) \in Running \cup Gone
        BY <2>2 DEF LifeInv, FileInv
      <3>2. Pc(d)' \in Running \cup Gone
        BY <2>1, <3>1 DEF Onward, Running
      <3> QED
        BY <2>2, <3>2 DEF FileInv
    <2>3. CASE ~pidfile.whole
      <3>1. d \in pidfile.writers /\ Pc(d) \in {"write"} \cup Gone
        BY <2>3 DEF LifeInv, FileInv
      <3>2. Pc(d)' \in {"write"} \cup Gone
        BY <2>1, <3>1 DEF Onward
      <3> QED
        BY <2>3, <3>1, <3>2 DEF FileInv
    <2> QED
      BY <2>2, <2>3
  <1> QED
    BY <1>1, <1>2 DEF LifeInv

LEMMA TypesOf ==
  ASSUME LifeInv, MigInv', NEW p \in Conn, Only(p),
         Args(p)' \in Options[p], proc'[p].wedged \subseteq proc'[p].threads,
         pidfile' \in Record \cup {Absent}, port' \in [Addrs -> Conn \cup {None}],
         mishaps' \in 0 .. MaxMishaps, known' \in [Conn -> Conn \cup {None}],
         contested' \in BOOLEAN
  PROVE  LifecycleTypeOK'
  <1>1. \A q \in Conn \ {p} : Args(q)' = Args(q) /\ proc'[q].wedged = proc[q].wedged
                             /\ proc'[q].threads = proc[q].threads
    BY DEF Only, Args
  <1> QED
    BY <1>1 DEF Only, LifeInv, LifecycleTypeOK, MigInv

(* The facts of the types that the steps need.                               *)
LEMMA LifeTypes ==
  ASSUME LifeInv
  PROVE  /\ LifecycleTypeOK /\ MaxMishaps \in Nat /\ MaxPolls \in Nat \ {0}
         /\ pidfile \in Record \cup {Absent} /\ port \in [Addrs -> Conn \cup {None}]
         /\ mishaps \in 0 .. MaxMishaps /\ known \in [Conn -> Conn \cup {None}]
         /\ contested \in BOOLEAN /\ proc \in [Conn -> ProcessState]
         /\ \A p \in Conn : /\ ProcessInvs(p) /\ proc[p].wedged \subseteq proc[p].threads
                            /\ proc[p] \in ProcessState
         /\ Running \cap Gone = {} /\ Stopping \subseteq Running /\ "write" \notin Running \cup Gone
         /\ Running \cup Gone \cup Starting \cup Asking \subseteq Places
         /\ (Starting \cup Asking \cup {"idle"}) \cap (Running \cup Gone) = {}
  BY ThreadIs, LifecycleAssumption
  DEF LifeInv, LifecycleTypeOK, Running, Stopping, Starting, Asking, Gone, Places

(* A start or a shutdown that goes on.                                       *)
LEMMA Advance ==
  ASSUME LifeInv, MigInv', NEW p \in Conn, Only(p), Keeps(p),
         UNCHANGED <<pidfile, contested, known>>,
         port' \in [Addrs -> Conn \cup {None}], mishaps' \in 0 .. MaxMishaps,
         proc'[p].wedged \subseteq proc'[p].threads,
         \/ /\ Pc(p) \in {"detach", "bind", "store", "spawn"}
            /\ Pc(p)' \in {"bind", "store", "spawn", "truncate"}
            /\ proc'[p].wedged = {}
         \/ Pc(p) \in Running /\ Pc(p)' \in Stopping \cup {Pc(p)}
  PROVE  LifeInv'
  <1>a. ProcessInvs(p)
    BY LifeTypes
  <1>b. Pc(p) \notin {"find", "unlink", "idle"} \cup Asking \cup Gone
    BY ThreadIs DEF Running, Stopping, Asking, Gone
  <1>c. Pc(p)' \notin {"find", "unlink", "idle"} \cup Asking \cup Gone
    BY ThreadIs DEF Running, Stopping, Asking, Gone
  <1>1. LifecycleTypeOK'
    BY <1>a, <1>b, LifeTypes, TypesOf DEF Keeps, ProcessInvs, PlaceInv
  <1>2. \A d \in Conn : Onward(d) /\ (Pc(d) = "write" => Pc(d)' # "serve")
    <2> SUFFICES ASSUME NEW d \in Conn PROVE Onward(d) /\ (Pc(d) = "write" => Pc(d)' # "serve")
      OBVIOUS
    <2>1. CASE d # p
      <3>1. Pc(d)' = Pc(d)
        BY <2>1 DEF Only, Pc
      <3> QED
        BY <3>1 DEF Onward, Running
    <2>2. CASE d = p
      <3>1. CASE Pc(p) \in {"detach", "bind", "store", "spawn"}
        BY <3>1, <2>2, ThreadIs DEF Onward, Running, Stopping, Gone
      <3>2. CASE Pc(p) \in Running /\ Pc(p)' \in Stopping \cup {Pc(p)}
        <4>1. Pc(p) \notin Gone /\ Pc(p) # "write"
          BY <3>2, LifeTypes
        <4>2. Pc(p) \in Stopping => Pc(p)' \in Stopping
          BY <3>2
        <4>3. Pc(p)' \in Running
          BY <3>2, LifeTypes
        <4> QED
          BY <2>2, <4>1, <4>2, <4>3 DEF Onward
      <3> QED
        BY <3>1, <3>2
    <2> QED
      BY <2>1, <2>2
  <1>3. PlaceInv(p)'
    BY <1>a, <1>b, <1>c, ThreadIs
    DEF Keeps, ProcessInvs, PlaceInv, Starting, Running, Stopping, Asking, Gone
  <1>4. FoundInv(p)'
    BY <1>c DEF FoundInv
  <1>5. OwnInv(p)'
    <2>1. Pc(p)' \in {"write"} \cup Running => Pc(p) \in Running
      BY ThreadIs DEF Running, Stopping
    <2> QED
      BY <1>a, <2>1 DEF ProcessInvs, OwnInv, Names
  <1>6. StopInv(p)'
    BY <1>c DEF StopInv, Gone
  <1>7. KnownInv(p)'
    <2> DEFINE d == known[p]
    <2>1. CASE d = None
      BY <1>c, <2>1 DEF KnownInv
    <2>2. CASE d # None
      <3>1. d \in Conn
        BY <2>2, LifeTypes
      <3>2. d # p /\ Pc(d) \in Running \cup Gone /\ ~(Names(d) /\ Pc(d) \in Running)
        BY <1>a, <1>b, <2>2 DEF ProcessInvs, KnownInv
      <3>3. Pc(d)' = Pc(d) /\ (Names(d)' <=> Names(d))
        BY <3>1, <3>2 DEF Only, Pc, Names
      <3> QED
        BY <1>c, <3>2, <3>3 DEF KnownInv
    <2> QED
      BY <2>1, <2>2
  <1> QED
    BY <1>1, <1>2, <1>3, <1>4, <1>5, <1>6, <1>7, QuietStep DEF Only, ProcessInvs

(* A process that ends.                                                     *)
LEMMA Leaves ==
  ASSUME LifeInv, MigInv', NEW p \in Conn, Only(p), Keeps(p),
         UNCHANGED <<pidfile, contested, known>>,
         port' \in [Addrs -> Conn \cup {None}], mishaps' \in 0 .. MaxMishaps,
         proc'[p].wedged \subseteq proc'[p].threads,
         Pc(p) # "idle", Pc(p)' \in Gone, StopInv(p)'
  PROVE  LifeInv'
  <1>a. ProcessInvs(p)
    BY LifeTypes
  <1>c. Pc(p)' \notin {"find", "unlink", "idle", "signal", "wait", "reconcile", "write", "serve"}
        /\ Pc(p)' \notin Starting \cup Running \cup Asking
    BY LifeTypes DEF Gone
  <1>1. LifecycleTypeOK'
    BY <1>a, LifeTypes, TypesOf DEF Keeps, ProcessInvs, PlaceInv
  <1>2. \A d \in Conn : Onward(d) /\ (Pc(d) = "write" => Pc(d)' # "serve")
    <2> SUFFICES ASSUME NEW d \in Conn PROVE Onward(d) /\ (Pc(d) = "write" => Pc(d)' # "serve")
      OBVIOUS
    <2>1. CASE d # p
      <3>1. Pc(d)' = Pc(d)
        BY <2>1 DEF Only, Pc
      <3> QED
        BY <3>1 DEF Onward, Running
    <2>2. CASE d = p
      BY <1>c, <2>2 DEF Onward
    <2> QED
      BY <2>1, <2>2
  <1>3. PlaceInv(p)'
    BY <1>a, <1>c DEF Keeps, ProcessInvs, PlaceInv
  <1>4. FoundInv(p)' /\ OwnInv(p)'
    BY <1>c DEF FoundInv, OwnInv
  <1>5. KnownInv(p)'
    <2> DEFINE d == known[p]
    <2>1. CASE d = None
      BY <1>c, <2>1 DEF KnownInv
    <2>2. CASE d # None
      <3>1. d \in Conn
        BY <2>2, LifeTypes
      <3>2. d # p /\ Pc(d) \in Running \cup Gone
        BY <1>a, <2>2 DEF ProcessInvs, KnownInv
      <3>3. Pc(d)' = Pc(d)
        BY <3>1, <3>2 DEF Only, Pc
      <3> QED
        BY <1>c, <3>2, <3>3 DEF KnownInv
    <2> QED
      BY <2>1, <2>2
  <1> QED
    BY <1>1, <1>2, <1>3, <1>4, <1>5, QuietStep DEF Only, ProcessInvs

(* A step of somebody who is on his way to serve or to ask.                   *)
LEMMA GoesOn ==
  ASSUME LifeInv, MigInv', NEW p \in Conn, Only(p), UNCHANGED <<pidfile, contested>>,
         \A q \in Conn \ {p} : known'[q] = known[q],
         known' \in [Conn -> Conn \cup {None}], port' \in [Addrs -> Conn \cup {None}],
         mishaps' \in 0 .. MaxMishaps, proc'[p].wedged \subseteq proc'[p].threads,
         Args(p)' \in Options[p], Pc(p) \notin {"write"} \cup Running \cup Gone,
         ProcessInvs(p)'
  PROVE  LifeInv'
  <1>1. LifecycleTypeOK'
    BY LifeTypes, TypesOf
  <1>2. \A d \in Conn : Onward(d) /\ (Pc(d) = "write" => Pc(d)' # "serve")
    <2> SUFFICES ASSUME NEW d \in Conn PROVE Onward(d) /\ (Pc(d) = "write" => Pc(d)' # "serve")
      OBVIOUS
    <2>1. CASE d # p
      <3>1. Pc(d)' = Pc(d)
        BY <2>1 DEF Only, Pc
      <3> QED
        BY <3>1 DEF Onward, Running
    <2>2. CASE d = p
      BY <2>2, LifeTypes DEF Onward, Running
    <2> QED
      BY <2>1, <2>2
  <1> QED
    BY <1>1, <1>2, QuietStep DEF Only

(* A step that removes the pidfile, or makes it the process's own.            *)
LEMMA Takes ==
  ASSUME LifeInv, MigInv', NEW p \in Conn, Only(p), UNCHANGED known, Args(p)' = Args(p),
         port' \in [Addrs -> Conn \cup {None}], mishaps' \in 0 .. MaxMishaps,
         proc'[p].wedged \subseteq proc'[p].threads,
         contested' = (contested \/ Contests(p)), pidfile' \in Record \cup {Absent},
         pidfile' # Absent => pidfile'.pid = p /\ Pc(p) \notin Running,
         Pc(p) # "idle", Onward(p), FileInv', ProcessInvs(p)'
  PROVE  LifeInv'
  <1>1. LifecycleTypeOK'
    <2>1. Args(p)' \in Options[p]
      BY LifeTypes DEF ProcessInvs, PlaceInv
    <2>2. contested' \in BOOLEAN
      BY LifeTypes DEF Contests
    <2> QED
      BY <2>1, <2>2, LifeTypes, TypesOf
  <1>2. \A d \in Conn : Onward(d)
    <2> SUFFICES ASSUME NEW d \in Conn \ {p} PROVE Onward(d)
      OBVIOUS
    <2>1. Pc(d)' = Pc(d)
      BY DEF Only, Pc
    <2> QED
      BY <2>1 DEF Onward, Running
  <1>3. \A d \in Conn : Pc(d) \in Running /\ Names(d)' => Names(d)
    BY DEF Names
  <1>4. ASSUME NEW q \in Conn \ {p} PROVE ProcessInvs(q)'
    <2>1. proc'[q] = proc[q] /\ known'[q] = known[q]
      BY DEF Only
    <2>2. ~contested' /\ Names(q) /\ Pc(q) \in {"write"} \cup Running => Names(q)'
      BY DEF Names, Contests
    <2>3. contested => contested'
      OBVIOUS
    <2> QED
      BY <1>2, <1>3, <2>1, <2>2, <2>3, OthersKept
  <1> QED
    BY <1>1, <1>4 DEF LifeInv

(* What a process that ends by itself leaves open, given how it ended.        *)
LEMMA ExitStep ==
  ASSUME LifeInv, MigInv', NEW p \in Conn, NEW how \in {"ok", "error", "killed"}, Exit(p, how),
         Pc(p) # "idle", UNCHANGED <<pidfile, contested, known>>, mishaps' \in 0 .. MaxMishaps,
         \/ how # "ok" \/ Args(p).cmd = "run" \/ proc[p].found = None
         \/ ~contested => Pc(proc[p].found) \in Gone \ {Pc(p)}
  PROVE  LifeInv'
  <1>1. /\ Only(p) /\ Keeps(p) /\ Pc(p)' = "exited" /\ proc'[p].exit = how
        /\ proc'[p].threads = {} /\ proc'[p].wedged = {}
        /\ port' \in [Addrs -> Conn \cup {None}]
    BY LifeTypes, ExitIs
  <1>2. StopInv(p)'
    <2> DEFINE d == proc[p].found
    <2>0. d \in Conn \cup {None}
      BY LifeTypes DEF ProcessState
    <2> SUFFICES ASSUME ~contested, d # None, Args(p).cmd = "stop", how = "ok"
                 PROVE  Pc(d)' \in Gone
      BY <1>1 DEF StopInv, Keeps
    <2>1. d \in Conn \ {p} /\ Pc(d) \in Gone
      BY <2>0
    <2> QED
      BY <1>1, <2>1 DEF Only, Keeps, Pc
  <1> QED
    BY <1>1, <1>2, Leaves DEF Gone

LEMMA LaunchStep ==
  ASSUME LifeInv, MigInv', NEW p \in Conn, Launch(p)
  PROVE  LifeInv'
  <1>1. PICK o \in Options[p] : proc' = [proc EXCEPT ![p] = [New EXCEPT !.pc = "find", !.args = o]]
    BY DEF Launch
  <1> DEFINE r == [New EXCEPT !.pc = "find", !.args = o]
  <1>2. /\ r \in ProcessState /\ r.pc = "find" /\ r.args = o /\ r.found = None
        /\ r.wedged = {} /\ r.threads = {}
    <2>1. "find" \in Places /\ 0 \in 0 .. MaxPolls
      BY LifecycleAssumption DEF Places, Starting
    <2> QED
      BY <2>1 DEF New, ProcessState
  <1>3. proc' = [proc EXCEPT ![p] = r]
    BY <1>1
  <1> HIDE DEF r
  <1>4. /\ Only(p) /\ Pc(p)' = "find" /\ Args(p)' = o /\ proc'[p].found = None
        /\ proc'[p].wedged = {} /\ proc'[p].threads = {}
    BY <1>2, <1>3, LifeTypes DEF Only, Pc, Args
  <1>5. UNCHANGED <<pidfile, contested, port, mishaps>> /\ Pc(p) = "idle"
    BY DEF Launch
  <1>6. PICK k \in Conn \cup {None} : known' = [known EXCEPT ![p] = k] /\ (k # None => Pc(k) \in Running)
    <2> DEFINE k == IF pidfile # Absent /\ pidfile.whole /\ Pc(pidfile.pid) \in Running
                    THEN pidfile.pid ELSE None
    <2>1. k \in Conn \cup {None} /\ (k # None => Pc(k) \in Running)
      BY LifeTypes DEF Record
    <2>2. known' = [known EXCEPT ![p] = k]
      BY DEF Launch
    <2> HIDE DEF k
    <2> QED
      BY <2>1, <2>2
  <1>9. /\ known'[p] = k /\ \A q \in Conn \ {p} : known'[q] = known[q]
        /\ known' \in [Conn -> Conn \cup {None}]
    BY <1>6, LifeTypes
  <1>7. ProcessInvs(p)'
    <2>1. "find" \notin {"signal", "wait", "reconcile", "write", "unlink", "exited", "idle"}
                        \cup (Starting \ {"find", "unlink"}) \cup Running
      BY ThreadIs DEF Starting, Running, Stopping
    <2>2. PlaceInv(p)' /\ FoundInv(p)' /\ OwnInv(p)' /\ StopInv(p)'
      BY <1>4, <2>1 DEF PlaceInv, FoundInv, OwnInv, StopInv, Asking
    <2>3. KnownInv(p)'
      <3>1. CASE k = None
        BY <1>4, <1>9, <3>1 DEF KnownInv
      <3>2. CASE k # None
        <4>1. k \in Conn \ {p} /\ Pc(k) \in Running
          BY <1>5, <1>6, <3>2, LifeTypes
        <4>2. Pc(k)' \in Running
          BY <1>4, <4>1 DEF Only, Pc
        <4> QED
          BY <1>4, <1>9, <4>1, <4>2 DEF KnownInv
      <3> QED
        BY <3>1, <3>2
    <2> QED
      BY <2>2, <2>3 DEF ProcessInvs
  <1>8. Pc(p) \notin {"write"} \cup Running \cup Gone
    BY <1>5, LifeTypes
  <1> QED
    BY <1>4, <1>5, <1>9, <1>7, <1>8, LifeTypes, GoesOn

(* What somebody else's place says of the pidfile, and the other way round.    *)
LEMMA FindLiveIs ==
  ASSUME LifeInv
  PROVE  /\ FindLive \in {"none", "stale", "live"}
         /\ FindLive # "live" => \A d \in Conn : Names(d) => Pc(d) \notin Running
         /\ FindLive = "live" => /\ pidfile # Absent /\ pidfile.pid \in Conn
                                 /\ Pc(pidfile.pid) \in Running \cup Gone
         /\ FindLive # "live" /\ ~contested => \A d \in Conn : Pc(d) \notin Running
  <1>1. FindLive \in {"none", "stale", "live"}
    BY DEF FindLive
  <1>2. ASSUME FindLive # "live", NEW d \in Conn, Names(d) PROVE Pc(d) \notin Running
    <2>1. CASE ~pidfile.whole
      BY <1>2, <2>1, LifeTypes DEF LifeInv, FileInv, Names
    <2>2. CASE pidfile.whole
      <3>1. ~Alive(d)
        BY <1>2, <2>2 DEF FindLive, Names
      <3> QED
        BY <3>1, ThreadIs DEF Alive, Running, Stopping
    <2> QED
      BY <2>1, <2>2
  <1>3. ASSUME FindLive = "live"
        PROVE  /\ pidfile # Absent /\ pidfile.pid \in Conn
               /\ Pc(pidfile.pid) \in Running \cup Gone
    <2>1. pidfile # Absent /\ pidfile.whole
      BY <1>3 DEF FindLive
    <2> QED
      BY <2>1, LifeTypes DEF LifeInv, FileInv, Record
  <1>4. ASSUME FindLive # "live", ~contested, NEW d \in Conn PROVE Pc(d) \notin Running
    <2>1. Pc(d) \in Running => Names(d)
      BY <1>4, LifeTypes DEF ProcessInvs, OwnInv
    <2> QED
      BY <1>2, <1>4, <2>1
  <1> QED
    BY <1>1, <1>2, <1>3, <1>4

(* Nobody live is named: on to detaching, or to the removal.                  *)
LEMMA NobodyThere ==
  ASSUME LifeInv, MigInv', NEW p \in Conn, NEW place \in {"detach", "unlink"}, Become(p, place),
         UNCHANGED <<pidfile, contested, known, port, mishaps>>, FindLive # "live",
         \/ Pc(p) = "find"
         \/ Pc(p) = "wait" /\ place = "unlink",
         place = "detach" => Args(p).cmd = "run"
  PROVE  LifeInv'
  <1>1. "detach" \in Places /\ "unlink" \in Places
    BY DEF Places, Starting
  <1>2. /\ Only(p) /\ Keeps(p) /\ Pc(p)' = place
        /\ proc'[p].threads = proc[p].threads /\ proc'[p].wedged = proc[p].wedged
    BY <1>1, BecomeIs, LifeTypes
  <1>3. /\ Pc(p) \notin {"idle", "write"} \cup Running \cup Gone
        /\ place \notin {"idle", "find", "signal", "wait", "reconcile", "write", "exited"} \cup Running
    BY ThreadIs DEF Running, Stopping, Gone
  <1>a. ProcessInvs(p) /\ proc[p].found \in Conn \cup {None} /\ known[p] \in Conn \cup {None}
    BY LifeTypes DEF ProcessState
  <1>4. PlaceInv(p)'
    BY <1>2, <1>3, <1>a DEF Keeps, ProcessInvs, PlaceInv
  <1>5. FoundInv(p)' /\ OwnInv(p)'
    BY <1>2, <1>3 DEF FoundInv, OwnInv, Asking
  <1>6. StopInv(p)'
    <2> DEFINE d == proc[p].found
    <2> SUFFICES ASSUME d # None, ~contested PROVE Pc(d)' \in Gone
      BY <1>2 DEF StopInv, Keeps
    <2>1. Pc(p) = "wait"
      BY <1>a DEF ProcessInvs, PlaceInv
    <2>2. d \in Conn \ {p} /\ Pc(d) \in Running \cup Gone
      BY <1>a, <2>1, LifeTypes DEF ProcessInvs, FoundInv, Asking
    <2>3. Pc(d) \in Gone
      BY <2>2, FindLiveIs
    <2> QED
      BY <1>2, <2>2, <2>3 DEF Only, Keeps, Pc
  <1>7. KnownInv(p)'
    <2> DEFINE d == known[p]
    <2>1. CASE d = None
      BY <1>2, <1>3, <2>1 DEF KnownInv
    <2>2. CASE d # None
      <3>1. d \in Conn \ {p} /\ Pc(d) \in Running \cup Gone
        BY <1>a, <1>3, <2>2 DEF ProcessInvs, KnownInv
      <3>2. ~(Names(d) /\ Pc(d) \in Running)
        BY <3>1, FindLiveIs
      <3>3. Pc(d)' = Pc(d) /\ (Names(d)' <=> Names(d))
        BY <1>2, <3>1 DEF Only, Pc, Names
      <3> QED
        BY <1>2, <1>3, <3>1, <3>2, <3>3 DEF KnownInv
    <2> QED
      BY <2>1, <2>2
  <1>8. Args(p)' \in Options[p]
    BY <1>2, <1>3, <1>a DEF Keeps, ProcessInvs, PlaceInv
  <1> QED
    BY <1>2, <1>3, <1>4, <1>5, <1>6, <1>7, <1>8, LifeTypes, GoesOn DEF ProcessInvs

(* Somebody is there: ask him.                                               *)
LEMMA SomebodyThere ==
  ASSUME LifeInv, MigInv', NEW p \in Conn, NEW place \in {"reconcile", "signal"},
         Found(p, place), UNCHANGED <<pidfile, contested, known, port, mishaps>>,
         FindLive = "live", Pc(p) = "find",
         Args(p).cmd = IF place = "reconcile" THEN "run" ELSE "stop"
  PROVE  LifeInv'
  <1>1. "reconcile" \in Places /\ "signal" \in Places
    BY DEF Places, Asking
  <1>2. /\ Only(p) /\ Args(p)' = Args(p) /\ proc'[p].found = pidfile.pid /\ Pc(p)' = place
        /\ proc'[p].threads = proc[p].threads /\ proc'[p].wedged = proc[p].wedged
    BY <1>1, FoundIs, FindLiveIs, LifeTypes
  <1>3. /\ "find" \notin {"idle", "write"} \cup Running \cup Gone
        /\ place \notin {"idle", "find", "wait", "write", "unlink", "exited"} \cup Starting \cup Running
        /\ place \in Asking
    BY ThreadIs DEF Running, Stopping, Starting, Asking, Gone
  <1>a. ProcessInvs(p) /\ known[p] \in Conn \cup {None}
    BY LifeTypes
  <1>4. PlaceInv(p)'
    BY <1>2, <1>3, <1>a DEF ProcessInvs, PlaceInv
  <1>5. FoundInv(p)'
    <2> DEFINE d == pidfile.pid
    <2>1. d \in Conn \ {p} /\ Pc(d) \in Running \cup Gone
      BY <1>3, FindLiveIs
    <2>2. Pc(d)' = Pc(d)
      BY <1>2, <2>1 DEF Only, Pc
    <2> QED
      BY <1>2, <1>3, <2>1, <2>2 DEF FoundInv
  <1>6. OwnInv(p)' /\ StopInv(p)'
    BY <1>2, <1>3 DEF OwnInv, StopInv
  <1>7. KnownInv(p)'
    <2> DEFINE d == known[p]
    <2>1. CASE d = None
      BY <1>2, <1>3, <2>1 DEF KnownInv
    <2>2. CASE d # None
      <3>1. d \in Conn \ {p} /\ Pc(d) \in Running \cup Gone
        BY <1>a, <2>2 DEF ProcessInvs, KnownInv
      <3>3. Pc(d)' = Pc(d)
        BY <1>2, <3>1 DEF Only, Pc
      <3> QED
        BY <1>2, <1>3, <3>1, <3>3 DEF KnownInv
    <2> QED
      BY <2>1, <2>2
  <1>8. Args(p)' \in Options[p]
    BY <1>2, <1>a DEF ProcessInvs, PlaceInv
  <1> QED
    BY <1>2, <1>3, <1>4, <1>5, <1>6, <1>7, <1>8, LifeTypes, GoesOn DEF ProcessInvs

LEMMA FindStep ==
  ASSUME LifeInv, MigInv', NEW p \in Conn, FindAtStart(p) \/ FindToStop(p)
  PROVE  LifeInv'
  <1>0. /\ Pc(p) = "find" /\ UNCHANGED <<pidfile, mishaps, known, contested>>
        /\ "run" # "stop"
    BY DEF FindAtStart, FindToStop
  <1>1. CASE FindAtStart(p)
    <2>1. Args(p).cmd = "run" /\ UNCHANGED port
      BY <1>1 DEF FindAtStart
    <2>2. CASE FindLive = "none"
      BY <1>0, <1>1, <2>1, <2>2, NobodyThere DEF FindAtStart
    <2>3. CASE FindLive = "stale"
      BY <1>0, <1>1, <2>1, <2>3, NobodyThere DEF FindAtStart
    <2>4. CASE FindLive = "live"
      BY <1>0, <1>1, <2>1, <2>4, SomebodyThere DEF FindAtStart
    <2> QED
      BY <2>2, <2>3, <2>4, FindLiveIs
  <1>2. CASE FindToStop(p)
    <2>1. Args(p).cmd = "stop"
      BY <1>2 DEF FindToStop
    <2>2. CASE FindLive = "none"
      <3>1. Exit(p, "ok")
        BY <1>2, <2>2 DEF FindToStop
      <3>2. proc[p].found = None
        BY <1>0, LifeTypes DEF ProcessInvs, PlaceInv
      <3> QED
        BY <1>0, <3>1, <3>2, ExitStep, LifeTypes
    <2>3. CASE FindLive = "stale"
      <3>1. Become(p, "unlink") /\ Stays
        BY <1>2, <2>3 DEF FindToStop
      <3> QED
        BY <1>0, <2>3, <3>1, NobodyThere DEF Stays
    <2>4. CASE FindLive = "live"
      <3>1. Found(p, "signal") /\ Stays
        BY <1>2, <2>4 DEF FindToStop
      <3> QED
        BY <1>0, <2>1, <2>4, <3>1, SomebodyThere DEF Stays
    <2> QED
      BY <2>2, <2>3, <2>4, FindLiveIs
  <1> QED
    BY <1>1, <1>2

(* The pidfile is removed by somebody who then ends.                          *)
LEMMA RemovesAndEnds ==
  ASSUME LifeInv, MigInv', NEW p \in Conn, Exit(p, "ok"), pidfile' = Absent,
         contested' = (contested \/ Contests(p)), UNCHANGED <<mishaps, known>>,
         \/ Pc(p) = "unlink"
         \/ Pc(p) = "remove" /\ Args(p).cmd = "run"
  PROVE  LifeInv'
  <1>1. /\ Only(p) /\ Keeps(p) /\ Pc(p)' = "exited" /\ proc'[p].threads = {}
        /\ proc'[p].wedged = {} /\ port' \in [Addrs -> Conn \cup {None}]
    BY LifeTypes, ExitIs
  <1>2. /\ Pc(p) \notin Gone \cup {"idle", "serve", "write"}
        /\ "exited" \notin Starting \cup Running \cup Asking \cup {"idle"}
    BY ThreadIs, LifeTypes DEF Running, Stopping, Gone
  <1>a. ProcessInvs(p) /\ proc[p].found \in Conn \cup {None} /\ known[p] \in Conn \cup {None}
    BY LifeTypes DEF ProcessState
  <1>3. PlaceInv(p)'
    BY <1>1, <1>2, <1>a DEF Keeps, ProcessInvs, PlaceInv, Starting, Asking, Gone
  <1>4. FoundInv(p)' /\ OwnInv(p)'
    BY <1>1, <1>2 DEF FoundInv, OwnInv
  <1>5. StopInv(p)'
    <2> DEFINE d == proc[p].found
    <2> SUFFICES ASSUME d # None, ~contested, Args(p).cmd = "stop" PROVE Pc(d)' \in Gone
      BY <1>1 DEF StopInv, Keeps
    <2>1. d \in Conn \ {p} /\ Pc(d) \in Gone
      BY <1>2, <1>a DEF ProcessInvs, StopInv
    <2> QED
      BY <1>1, <2>1 DEF Only, Keeps, Pc
  <1>6. KnownInv(p)'
    <2> DEFINE d == known[p]
    <2>1. CASE d = None
      BY <1>1, <1>2, <2>1 DEF KnownInv
    <2>2. CASE d # None
      <3>1. d \in Conn \ {p} /\ Pc(d) \in Running \cup Gone
        BY <1>a, <1>2, <2>2 DEF ProcessInvs, KnownInv
      <3>2. Pc(d)' = Pc(d)
        BY <1>1, <3>1 DEF Only, Pc
      <3> QED
        BY <1>1, <1>2, <3>1, <3>2 DEF KnownInv, Gone
    <2> QED
      BY <2>1, <2>2
  <1>7. Onward(p) /\ FileInv'
    BY <1>1, <1>2 DEF Onward, FileInv, Gone
  <1>8. pidfile' \in Record \cup {Absent} /\ Args(p)' = Args(p)
        /\ proc'[p].wedged \subseteq proc'[p].threads
    BY <1>1 DEF Keeps
  <1> QED
    BY <1>1, <1>2, <1>3, <1>4, <1>5, <1>6, <1>7, <1>8, LifeTypes, Takes DEF ProcessInvs

LEMMA UnlinkStep ==
  ASSUME LifeInv, MigInv', NEW p \in Conn, Unlink(p)
  PROVE  LifeInv'
  <1>0. /\ Pc(p) = "unlink" /\ pidfile' = Absent /\ contested' = (contested \/ Contests(p))
        /\ UNCHANGED <<mishaps, known>>
    BY DEF Unlink
  <1>1. CASE Args(p).cmd # "run"
    BY <1>0, <1>1, RemovesAndEnds DEF Unlink
  <1>2. CASE Args(p).cmd = "run"
    <2>0. Become(p, "detach") /\ Stays
      BY <1>2 DEF Unlink
    <2>1. "detach" \in Places
      BY DEF Places, Starting
    <2>2. /\ Only(p) /\ Keeps(p) /\ Pc(p)' = "detach"
          /\ proc'[p].threads = proc[p].threads /\ proc'[p].wedged = proc[p].wedged
      BY <2>0, <2>1, BecomeIs, LifeTypes
    <2>3. /\ "unlink" \notin {"idle", "write"} \cup Running \cup Gone
          /\ "detach" \notin {"idle", "write"} \cup Running \cup Gone \cup Asking
      BY ThreadIs DEF Running, Stopping, Gone, Asking
    <2>a. ProcessInvs(p) /\ known[p] \in Conn \cup {None}
      BY LifeTypes
    <2>4. PlaceInv(p)'
      BY <1>0, <1>2, <2>2, <2>3, <2>a DEF Keeps, ProcessInvs, PlaceInv
    <2>5. FoundInv(p)' /\ OwnInv(p)' /\ StopInv(p)'
      BY <2>2, <2>3 DEF FoundInv, OwnInv, StopInv
    <2>6. KnownInv(p)'
      <3> DEFINE d == known[p]
      <3>1. CASE d = None
        BY <1>0, <2>2, <3>1 DEF KnownInv
      <3>2. CASE d # None
        <4>1. d \in Conn \ {p} /\ Pc(d) \in Running \cup Gone
          BY <1>0, <2>3, <2>a, <3>2 DEF ProcessInvs, KnownInv
        <4>2. Pc(d)' = Pc(d) /\ ~Names(d)'
          BY <1>0, <2>2, <4>1 DEF Only, Pc, Names
        <4> QED
          BY <1>0, <2>2, <4>1, <4>2 DEF KnownInv
      <3> QED
        BY <3>1, <3>2
    <2>7. Onward(p) /\ FileInv'
      BY <1>0, <2>2, <2>3 DEF Onward, FileInv, Running
    <2>8. UNCHANGED port
      BY <2>0 DEF Stays
    <2> QED
      BY <1>0, <2>2, <2>4, <2>5, <2>6, <2>7, <2>8, LifeTypes, Takes DEF ProcessInvs, Keeps
  <1> QED
    BY <1>1, <1>2

LEMMA RemoveRecordStep ==
  ASSUME LifeInv, MigInv', NEW p \in Conn, RemoveRecord(p)
  PROVE  LifeInv'
  <1>1. Pc(p) = "remove" => Pc(p) \in Running
    BY DEF Running, Stopping
  <1>2. Pc(p) = "remove" => Args(p).cmd = "run"
    BY <1>1, LifeTypes DEF ProcessInvs, PlaceInv
  <1> QED
    BY <1>2, RemovesAndEnds DEF RemoveRecord

LEMMA KnownIs ==
  ASSUME LifeInv, NEW p \in Conn, Pc(p) # "idle", known[p] # None
  PROVE  LET d == known[p] IN
         /\ d \in Conn \ {p} /\ Pc(d) \in Running \cup Gone
         /\ Names(d) /\ Pc(d) \in Running => Pc(p) \in {"find"} \cup Asking \cup Gone
  <1>1. ProcessInvs(p) /\ known[p] \in Conn
    BY LifeTypes
  <1> QED
    BY <1>1 DEF ProcessInvs, KnownInv

LEMMA TruncateStep ==
  ASSUME LifeInv, MigInv', NEW p \in Conn, Truncate(p)
  PROVE  LifeInv'
  <1>0. /\ Pc(p) = "truncate" /\ contested' = (contested \/ Contests(p)) /\ Become(p, "write")
        /\ UNCHANGED <<port, mishaps, known>>
    BY DEF Truncate
  <1>1. "write" \in Places
    BY DEF Places, Starting
  <1>2. /\ Only(p) /\ Keeps(p) /\ Pc(p)' = "write"
        /\ proc'[p].threads = proc[p].threads /\ proc'[p].wedged = proc[p].wedged
    BY <1>0, <1>1, BecomeIs, LifeTypes
  <1>3. /\ "truncate" \notin {"idle", "find", "unlink", "write"} \cup Running \cup Gone \cup Asking
        /\ "write" \notin {"idle", "find", "unlink"} \cup Running \cup Gone \cup Asking
        /\ "truncate" \in Starting /\ "write" \in Starting
    BY ThreadIs DEF Running, Stopping, Gone, Asking, Starting
  <1>a. ProcessInvs(p) /\ known[p] \in Conn \cup {None}
    BY LifeTypes
  <1>b. Args(p).cmd = "run" /\ Args(p) \in Options[p]
    BY <1>0, <1>3, <1>a DEF ProcessInvs, PlaceInv
  <1>c. /\ pidfile' \in Record /\ pidfile'.pid = p /\ ~pidfile'.whole /\ p \in pidfile'.writers
        /\ pidfile' # Absent
    <2> DEFINE ws == {p} \cup IF pidfile = Absent THEN {} ELSE pidfile.writers
    <2>1. ws \subseteq Conn /\ p \in ws
      BY LifeTypes DEF Record
    <2>2. Args(p).listen \in Addrs
      BY <1>b, LifecycleAssumption
    <2>3. pidfile' = [pid |-> p, listen |-> Args(p).listen, whole |-> FALSE, writers |-> ws]
      BY DEF Truncate
    <2> HIDE DEF ws
    <2>4. pidfile' \in Record
      BY <2>1, <2>2, <2>3 DEF Record
    <2> QED
      BY <2>1, <2>3, <2>4, LifecycleAssumption
  <1>4. PlaceInv(p)'
    BY <1>0, <1>2, <1>3, <1>a, <1>b DEF Keeps, ProcessInvs, PlaceInv
  <1>5. FoundInv(p)' /\ OwnInv(p)' /\ StopInv(p)'
    BY <1>2, <1>3, <1>c DEF FoundInv, OwnInv, StopInv, Names
  <1>6. KnownInv(p)'
    <2> DEFINE d == known[p]
    <2>1. CASE d = None
      BY <1>0, <1>2, <2>1 DEF KnownInv
    <2>2. CASE d # None
      <3>1. d \in Conn \ {p} /\ Pc(d) \in Running \cup Gone
        BY <1>0, <2>2, KnownIs
      <3>2. Pc(d)' = Pc(d) /\ ~Names(d)'
        BY <1>0, <1>2, <1>c, <3>1 DEF Only, Pc, Names
      <3> QED
        BY <1>0, <1>2, <3>1, <3>2 DEF KnownInv
    <2> QED
      BY <2>1, <2>2
  <1>7. Onward(p) /\ FileInv'
    BY <1>0, <1>2, <1>3, <1>c DEF Onward, FileInv, Running
  <1> QED
    BY <1>0, <1>2, <1>3, <1>4, <1>5, <1>6, <1>7, <1>c, LifeTypes, Takes DEF ProcessInvs, Keeps

LEMMA WriteRecordStep ==
  ASSUME LifeInv, MigInv', NEW p \in Conn, WriteRecord(p)
  PROVE  LifeInv'
  <1>0. Pc(p) = "write" /\ Become(p, "serve") /\ UNCHANGED <<port, mishaps, known>>
    BY DEF WriteRecord
  <1>1. "serve" \in Places
    BY DEF Places, Running
  <1>2. /\ Only(p) /\ Keeps(p) /\ Pc(p)' = "serve"
        /\ proc'[p].threads = proc[p].threads /\ proc'[p].wedged = proc[p].wedged
    BY <1>0, <1>1, BecomeIs, LifeTypes
  <1>3. /\ "write" \notin {"idle", "find", "unlink", "serve"} \cup Running \cup Gone \cup Asking
        /\ "serve" \notin {"idle", "find", "unlink", "write"} \cup Gone \cup Asking \cup Starting
        /\ "write" \in Starting /\ "serve" \in Running
    BY ThreadIs DEF Running, Stopping, Gone, Asking, Starting
  <1>a. ProcessInvs(p) /\ known[p] \in Conn \cup {None}
    BY LifeTypes
  <1>b. Args(p).cmd = "run" /\ Args(p) \in Options[p]
    BY <1>0, <1>3, <1>a DEF ProcessInvs, PlaceInv
  <1>4. PlaceInv(p)'
    BY <1>0, <1>2, <1>3, <1>a, <1>b DEF Keeps, ProcessInvs, PlaceInv
  <1>5. FoundInv(p)' /\ StopInv(p)'
    BY <1>2, <1>3 DEF FoundInv, StopInv
  <1>6. Onward(p)
    BY <1>0, <1>2, <1>3 DEF Onward, Running
  <1>7. CASE pidfile # Absent /\ p \in pidfile.writers
    <2>0. contested' = (contested \/ Contests(p))
      BY <1>7 DEF WriteRecord
    <2>1. pidfile' \in Record /\ pidfile'.pid = p /\ pidfile'.whole /\ pidfile' # Absent
      <3> DEFINE ws == pidfile.writers \ {p}
      <3>1. ws \subseteq Conn
        BY <1>7, LifeTypes DEF Record
      <3>2. Args(p).listen \in Addrs
        BY <1>b, LifecycleAssumption
      <3>3. pidfile' = [pid |-> p, listen |-> Args(p).listen, whole |-> TRUE, writers |-> ws]
        BY <1>7 DEF WriteRecord
      <3> HIDE DEF ws
      <3>4. pidfile' \in Record
        BY <3>1, <3>2, <3>3 DEF Record
      <3> QED
        BY <3>3, <3>4, LifecycleAssumption
    <2>2. OwnInv(p)' /\ FileInv'
      BY <1>2, <1>3, <2>1 DEF OwnInv, Names, FileInv
    <2>3. KnownInv(p)'
      <3> DEFINE d == known[p]
      <3>1. CASE d = None
        BY <1>0, <1>2, <3>1 DEF KnownInv
      <3>2. CASE d # None
        <4>1. d \in Conn \ {p} /\ Pc(d) \in Running \cup Gone
          BY <1>0, <3>2, KnownIs
        <4>2. Pc(d)' = Pc(d) /\ ~Names(d)'
          BY <1>0, <1>2, <2>1, <4>1 DEF Only, Pc, Names
        <4> QED
          BY <1>0, <1>2, <4>1, <4>2 DEF KnownInv
      <3> QED
        BY <3>1, <3>2
    <2> QED
      BY <1>0, <1>2, <1>3, <1>4, <1>5, <1>6, <2>0, <2>1, <2>2, <2>3, LifeTypes, Takes
      DEF ProcessInvs, Keeps
  <1>8. CASE ~(pidfile # Absent /\ p \in pidfile.writers)
    <2>0. UNCHANGED <<pidfile, contested>>
      BY <1>8 DEF WriteRecord
    <2>1. OwnInv(p)'
      BY <1>0, <1>a, <2>0 DEF ProcessInvs, OwnInv, Names
    <2>2. FileInv'
      <3> SUFFICES ASSUME pidfile # Absent PROVE FileInv'
        BY <2>0 DEF FileInv
      <3>1. pidfile.pid \in Conn
        BY LifeTypes DEF Record
      <3>2. pidfile.pid # p
        BY <1>0, <1>3, <1>8 DEF LifeInv, FileInv
      <3>3. Pc(pidfile.pid)' = Pc(pidfile.pid)
        BY <1>2, <2>0, <3>1, <3>2 DEF Only, Pc
      <3> QED
        BY <2>0, <3>3 DEF LifeInv, FileInv
    <2>3. KnownInv(p)'
      <3> DEFINE d == known[p]
      <3>1. CASE d = None
        BY <1>0, <1>2, <3>1 DEF KnownInv
      <3>2. CASE d # None
        <4>1. d \in Conn \ {p} /\ Pc(d) \in Running \cup Gone /\ ~(Names(d) /\ Pc(d) \in Running)
          BY <1>0, <1>3, <3>2, KnownIs
        <4>2. Pc(d)' = Pc(d) /\ (Names(d)' <=> Names(d))
          BY <1>0, <1>2, <2>0, <4>1 DEF Only, Pc, Names
        <4> QED
          BY <1>0, <1>2, <4>1, <4>2 DEF KnownInv
      <3> QED
        BY <3>1, <3>2
    <2>4. LifecycleTypeOK'
      BY <1>0, <1>2, <1>b, <2>0, LifeTypes, TypesOf DEF Keeps
    <2>5. \A d \in Conn : Onward(d)
      <3> SUFFICES ASSUME NEW d \in Conn \ {p} PROVE Onward(d)
        BY <1>6
      <3>1. Pc(d)' = Pc(d)
        BY <1>2 DEF Only, Pc
      <3> QED
        BY <3>1 DEF Onward, Running
    <2>6. ASSUME NEW q \in Conn \ {p} PROVE ProcessInvs(q)'
      <3>1. proc'[q] = proc[q] /\ known'[q] = known[q]
        BY <1>0, <1>2 DEF Only
      <3>2. \A d \in Conn : Names(d)' <=> Names(d)
        BY <2>0 DEF Names
      <3> QED
        BY <2>0, <2>5, <3>1, <3>2, OthersKept
    <2> QED
      BY <1>4, <1>5, <2>1, <2>2, <2>3, <2>4, <2>6 DEF LifeInv, ProcessInvs
  <1> QED
    BY <1>7, <1>8

(* The steps of a start: they keep the pidfile as it is.                      *)
LEMMA StartStep ==
  ASSUME LifeInv, MigInv', NEW p \in Conn,
         \/ Detach(p) \/ Bind(p) \/ OpenElsewhere(p) \/ OpenStore(p) \/ Opened(p) \/ Spawn(p)
  PROVE  LifeInv'
  <1>0. /\ Pc(p) \in {"detach", "bind", "store", "spawn"}
        /\ UNCHANGED <<pidfile, mishaps, known, contested>>
    BY DEF Detach, Bind, OpenElsewhere, OpenStore, Opened, Spawn, lifeVars
  <1>1. /\ {"bind", "store", "spawn", "truncate"} \subseteq Places
        /\ Pc(p) \in Starting \ {"find", "unlink"} /\ Pc(p) # "idle"
        /\ Pc(p) \notin Running \cup Gone
    BY <1>0, ThreadIs DEF Places, Starting, Running, Stopping, Gone
  <1>a. /\ ProcessInvs(p) /\ Args(p).cmd = "run" /\ Args(p) \in Options[p]
        /\ proc[p].wedged = {}
    <2>1. ProcessInvs(p)
      BY LifeTypes
    <2> QED
      BY <1>1, <2>1 DEF ProcessInvs, PlaceInv
  <1>2. ASSUME Exit(p, "error") PROVE LifeInv'
    BY <1>0, <1>1, <1>2, ExitStep, LifeTypes
  <1>3. ASSUME NEW place \in {"bind", "store", "spawn", "truncate"}, Become(p, place),
               port' \in [Addrs -> Conn \cup {None}]
        PROVE  LifeInv'
    <2>1. /\ Only(p) /\ Keeps(p) /\ Pc(p)' = place /\ proc'[p].wedged = {}
      BY <1>1, <1>3, <1>a, BecomeIs, LifeTypes
    <2> QED
      BY <1>0, <1>3, <2>1, Advance, LifeTypes
  <1>4. ASSUME Detach(p) PROVE LifeInv'
    <2> DEFINE q == proc[p]
               r == [q EXCEPT !.pc = "bind", !.chdir = Args(p).detach]
    <2>1. q \in ProcessState /\ Args(p).detach \in BOOLEAN
      BY <1>a, LifeTypes, LifecycleAssumption
    <2>2. /\ r \in ProcessState /\ r.pc = "bind" /\ r.args = q.args /\ r.found = q.found
          /\ r.threads = q.threads /\ r.wedged = q.wedged
      BY <1>1, <2>1 DEF ProcessState
    <2>3. proc' = [proc EXCEPT ![p] = r]
      BY <1>4 DEF Detach
    <2> HIDE DEF r
    <2>4. Only(p) /\ Keeps(p) /\ Pc(p)' = "bind" /\ proc'[p].wedged = {}
      BY <1>a, <2>2, <2>3, LifeTypes DEF Only, Keeps, Args, Pc
    <2>5. port' \in [Addrs -> Conn \cup {None}]
      BY <1>4, LifeTypes DEF Detach
    <2> QED
      BY <1>0, <2>4, <2>5, Advance, LifeTypes
  <1>5. ASSUME Bind(p) PROVE LifeInv'
    <2>1. CASE port[Args(p).listen] # None
      BY <1>2, <1>5, <2>1 DEF Bind
    <2>2. CASE port[Args(p).listen] = None
      BY <1>3, <1>5, <2>2, LifeTypes DEF Bind
    <2> QED
      BY <2>1, <2>2
  <1>6. ASSUME OpenElsewhere(p) PROVE LifeInv'
    BY <1>2, <1>6 DEF OpenElsewhere
  <1>7. ASSUME OpenStore(p) PROVE LifeInv'
    <2>1. UNCHANGED lifeVars
      BY <1>7 DEF OpenStore
    <2>2. LifecycleTypeOK'
      BY <2>1 DEF lifeVars, LifeInv, LifecycleTypeOK, MigInv, Args
    <2>3. \A d \in Conn : Pc(d)' = Pc(d)
      BY <2>1 DEF lifeVars, Pc
    <2>4. \A d \in Conn : Onward(d) /\ (Pc(d) = "write" => Pc(d)' # "serve")
      BY <2>3 DEF Onward, Running
    <2> QED
      BY <2>1, <2>2, <2>4, QuietStep DEF lifeVars
  <1>8. ASSUME Opened(p) PROVE LifeInv'
    <2>1. CASE Exit(p, "error")
      BY <1>2, <2>1
    <2>2. CASE Become(p, "spawn") /\ Stays
      BY <1>3, <2>2, LifeTypes DEF Stays
    <2> QED
      BY <1>8, <2>1, <2>2 DEF Opened
  <1>9. ASSUME Spawn(p) PROVE LifeInv'
    <2>1. CASE Version <= Supported[p]
      <3> DEFINE q == proc[p]
                 ts == {"observer", "extract"} \cup Args(p).llm
                 r == [q EXCEPT !.pc = "truncate", !.threads = ts]
      <3>1. q \in ProcessState /\ ts \subseteq Thread
        <4>1. Args(p).llm \subseteq {"enrich", "embed"}
          BY <1>a, LifecycleAssumption
        <4> QED
          BY <4>1, LifeTypes, ThreadIs
      <3> HIDE DEF ts
      <3>2. /\ r \in ProcessState /\ r.pc = "truncate" /\ r.args = q.args /\ r.found = q.found
            /\ r.wedged = q.wedged
        BY <1>1, <3>1 DEF ProcessState
      <3>3. proc' = [proc EXCEPT ![p] = r] /\ Stays
        BY <1>9, <2>1 DEF Spawn, ts
      <3> HIDE DEF r
      <3>4. Only(p) /\ Keeps(p) /\ Pc(p)' = "truncate" /\ proc'[p].wedged = {}
        BY <1>a, <3>2, <3>3, LifeTypes DEF Only, Keeps, Args, Pc
      <3>5. port' \in [Addrs -> Conn \cup {None}]
        BY <3>3, LifeTypes DEF Stays
      <3> QED
        BY <1>0, <3>4, <3>5, Advance, LifeTypes
    <2>2. CASE ~(Version <= Supported[p]) /\ "embed" \in Args(p).llm
      BY <1>2, <1>9, <2>2 DEF Spawn
    <2>3. CASE ~(Version <= Supported[p]) /\ "embed" \notin Args(p).llm
      BY <1>3, <1>9, <2>3, LifeTypes DEF Spawn, Stays
    <2> QED
      BY <2>1, <2>2, <2>3
  <1> QED
    BY <1>4, <1>5, <1>6, <1>7, <1>8, <1>9

LEMMA JoinedNext ==
  ASSUME NEW t \in Thread
  PROVE  LET i == CHOOSE i \in 1 .. 4 : JoinOrder[i] = t IN
         (IF i = 4 THEN "remove" ELSE JoinOrder[i + 1]) \in Stopping
  <1> DEFINE i == CHOOSE i \in 1 .. 4 : JoinOrder[i] = t
  <1>1. \E j \in 1 .. 4 : JoinOrder[j] = t
    BY DEF Thread
  <1>2. i \in 1 .. 4
    BY <1>1
  <1> HIDE DEF i
  <1>3. i = 1 \/ i = 2 \/ i = 3 \/ i = 4
    BY <1>2
  <1>4. JoinOrder[2] = "extract" /\ JoinOrder[3] = "enrich" /\ JoinOrder[4] = "embed"
    BY DEF JoinOrder
  <1>5. (IF i = 4 THEN "remove" ELSE JoinOrder[i + 1]) \in Stopping
    <2>1. CASE i = 1
      BY <1>4, <2>1, ThreadIs DEF Stopping
    <2>2. CASE i = 2
      BY <1>4, <2>2, ThreadIs DEF Stopping
    <2>3. CASE i = 3
      BY <1>4, <2>3, ThreadIs DEF Stopping
    <2>4. CASE i = 4
      BY <2>4 DEF Stopping
    <2> QED
      BY <1>3, <2>1, <2>2, <2>3, <2>4
  <1> QED
    BY <1>5 DEF i

(* The steps of a shutdown, as far as the removal of the pidfile.             *)
LEMMA StopStep ==
  ASSUME LifeInv, MigInv', NEW p \in Conn,
         Interrupt(p) \/ Drained(p) \/ ThreadEnds(p) \/ Joined(p) \/ Wedge(p)
  PROVE  LifeInv'
  <1>0. Pc(p) \in Running /\ UNCHANGED <<pidfile, known, contested>>
    <2>1. proc[p].threads \subseteq Thread
      BY LifeTypes DEF ProcessState
    <2>2. CASE ThreadEnds(p)
      BY <2>1, <2>2 DEF ThreadEnds, Running, Stopping
    <2>3. CASE Interrupt(p) \/ Drained(p) \/ Joined(p) \/ Wedge(p)
      BY <2>3 DEF Interrupt, Drained, Joined, Wedge, Running, Stopping
    <2> QED
      BY <2>2, <2>3
  <1>1. Running \subseteq Places /\ Stopping \subseteq Running
    BY LifeTypes
  <1>2. ASSUME NEW place \in Stopping, Become(p, place), UNCHANGED <<port, mishaps>>
        PROVE  LifeInv'
    <2>1. /\ Only(p) /\ Keeps(p) /\ Pc(p)' = place
          /\ proc'[p].wedged = proc[p].wedged /\ proc'[p].threads = proc[p].threads
      BY <1>1, <1>2, BecomeIs, LifeTypes
    <2> QED
      BY <1>0, <1>2, <2>1, Advance, LifeTypes
  <1>3. ASSUME Interrupt(p) PROVE LifeInv'
    <2>1. proc' = [proc EXCEPT ![p] = Terminated(p)] /\ port' = Unbound(p) /\ Pc(p) = "serve"
      BY <1>3 DEF Interrupt
    <2>2. /\ Terminated(p) \in ProcessState
          /\ Terminated(p).args = proc[p].args /\ Terminated(p).found = proc[p].found
          /\ Terminated(p).threads = proc[p].threads /\ Terminated(p).wedged = proc[p].wedged
          /\ Terminated(p).pc = "drain"
          /\ Unbound(p) \in [Addrs -> Conn \cup {None}]
      BY <1>0, <2>1, TerminatedIs, LifeTypes
    <2>3. /\ Only(p) /\ Keeps(p) /\ Pc(p)' = "drain" /\ proc'[p].wedged = proc[p].wedged
          /\ proc'[p].threads = proc[p].threads
      BY <2>1, <2>2, LifeTypes DEF Only, Keeps, Args, Pc
    <2>4. mishaps' \in 0 .. MaxMishaps /\ "drain" \in Stopping
      BY <1>3, LifeTypes DEF Interrupt, Stopping
    <2> QED
      BY <1>0, <2>1, <2>2, <2>3, <2>4, Advance, LifeTypes
  <1>4. ASSUME Drained(p) PROVE LifeInv'
    <2>1. "observer" \in Stopping
      BY ThreadIs DEF Stopping
    <2> QED
      BY <1>2, <1>4, <2>1 DEF Drained
  <1>5. ASSUME ThreadEnds(p) PROVE LifeInv'
    <2> DEFINE q == proc[p]
               ts == q.threads \ {Pc(p)}
               r == [q EXCEPT !.threads = ts]
    <2>1. q \in ProcessState /\ q.wedged \subseteq q.threads /\ Pc(p) \notin q.wedged
      BY <1>5, LifeTypes DEF ThreadEnds
    <2>2. ts \subseteq Thread /\ q.wedged \subseteq ts
      BY <2>1 DEF ProcessState
    <2>3. proc' = [proc EXCEPT ![p] = r]
      BY <1>5 DEF ThreadEnds
    <2> HIDE DEF ts
    <2>4. /\ r \in ProcessState /\ r.pc = q.pc /\ r.args = q.args /\ r.found = q.found
          /\ r.wedged = q.wedged /\ r.threads = ts
      BY <2>1, <2>2 DEF ProcessState
    <2> HIDE DEF r
    <2>5. Only(p) /\ Keeps(p) /\ Pc(p)' = Pc(p) /\ proc'[p].wedged \subseteq proc'[p].threads
      BY <2>2, <2>3, <2>4, LifeTypes DEF Only, Keeps, Args, Pc
    <2>6. port' \in [Addrs -> Conn \cup {None}] /\ mishaps' \in 0 .. MaxMishaps
      BY <1>5, LifeTypes DEF ThreadEnds
    <2> QED
      BY <1>0, <2>5, <2>6, Advance
  <1>6. ASSUME Joined(p) PROVE LifeInv'
    <2> DEFINE i == CHOOSE i \in 1 .. 4 : JoinOrder[i] = Pc(p)
               place == IF i = 4 THEN "remove" ELSE JoinOrder[i + 1]
    <2>1. place \in Stopping
      BY <1>6, JoinedNext DEF Joined
    <2>2. Become(p, place) /\ UNCHANGED <<port, mishaps>>
      BY <1>6 DEF Joined
    <2> HIDE DEF place
    <2> QED
      BY <1>2, <2>1, <2>2
  <1>7. ASSUME Wedge(p) PROVE LifeInv'
    <2>1. PICK t \in {"observer", "extract"} \cap (proc[p].threads \ proc[p].wedged) :
            proc' = [proc EXCEPT ![p].wedged = @ \cup {t}]
      BY <1>7 DEF Wedge
    <2> DEFINE q == proc[p]
               ws == q.wedged \cup {t}
               r == [q EXCEPT !.wedged = ws]
    <2>2. q \in ProcessState /\ ws \subseteq q.threads
      BY LifeTypes
    <2>3. ws \subseteq Thread
      BY <2>2 DEF ProcessState
    <2>4. proc' = [proc EXCEPT ![p] = r]
      BY <2>1
    <2> HIDE DEF ws
    <2>5. /\ r \in ProcessState /\ r.pc = q.pc /\ r.args = q.args /\ r.found = q.found
          /\ r.wedged = ws /\ r.threads = q.threads
      BY <2>2, <2>3 DEF ProcessState
    <2> HIDE DEF r
    <2>6. Only(p) /\ Keeps(p) /\ Pc(p)' = Pc(p) /\ proc'[p].wedged \subseteq proc'[p].threads
      BY <2>2, <2>4, <2>5, LifeTypes DEF Only, Keeps, Args, Pc
    <2>7. port' \in [Addrs -> Conn \cup {None}] /\ mishaps' \in 0 .. MaxMishaps
      BY <1>7, LifeTypes DEF Wedge, Mishap
    <2> QED
      BY <1>0, <2>6, <2>7, Advance
  <1> QED
    BY <1>3, <1>4, <1>5, <1>6, <1>7

(* Ends that nobody's shutdown leads to.                                     *)
LEMMA EndStep ==
  ASSUME LifeInv, MigInv', NEW p \in Conn, Reconcile(p) \/ KillProcess(p) \/ Reuse(p)
  PROVE  LifeInv'
  <1>1. CASE Reconcile(p)
    <2>1. Pc(p) = "reconcile" /\ UNCHANGED <<pidfile, mishaps, known, contested>>
      BY <1>1 DEF Reconcile
    <2>2. Args(p).cmd = "run"
      BY <2>1, LifeTypes DEF ProcessInvs, PlaceInv
    <2>3. PICK how \in {"ok", "error"} : Exit(p, how)
      BY <1>1 DEF Reconcile
    <2> QED
      BY <2>1, <2>2, <2>3, ExitStep, LifeTypes
  <1>2. CASE KillProcess(p)
    <2>1. Pc(p) # "idle" /\ Exit(p, "killed") /\ UNCHANGED <<pidfile, known, contested>>
          /\ mishaps' \in 0 .. MaxMishaps
      BY <1>2, LifeTypes DEF KillProcess, Alive, Mishap
    <2> QED
      BY <2>1, ExitStep
  <1>3. CASE Reuse(p)
    <2>1. /\ Pc(p) = "exited" /\ Become(p, "foreign") /\ UNCHANGED <<pidfile, port, known, contested>>
          /\ mishaps' \in 0 .. MaxMishaps /\ "foreign" \in Places
      BY <1>3, LifeTypes DEF Reuse, Mishap, Places
    <2>2. /\ Only(p) /\ Keeps(p) /\ Pc(p)' = "foreign"
          /\ proc'[p].threads = proc[p].threads /\ proc'[p].wedged = proc[p].wedged
      BY <2>1, BecomeIs, LifeTypes
    <2>3. StopInv(p)'
      BY <2>2 DEF StopInv
    <2> QED
      BY <2>1, <2>2, <2>3, LifeTypes, Leaves DEF Gone
  <1> QED
    BY <1>1, <1>2, <1>3

(* SIGTERM on its way to the daemon found.                                    *)
LEMMA SignalStep ==
  ASSUME LifeInv, MigInv', NEW p \in Conn, Signal(p)
  PROVE  LifeInv'
  <1>0. Pc(p) = "signal" /\ UNCHANGED <<pidfile, mishaps, known, contested>>
    BY DEF Signal
  <1>a. PICK d \in Conn \ {p} :
        /\ d = proc[p].found /\ Pc(d) \in Running \cup Gone /\ ProcessInvs(p)
        /\ Args(p) \in Options[p] /\ Args(p).cmd = "stop" /\ proc[p].wedged = {}
    <2>1. ProcessInvs(p) /\ "signal" \notin Running \cup Gone
      BY LifeTypes, ThreadIs DEF Running, Stopping, Gone
    <2> QED
      BY <1>0, <2>1 DEF ProcessInvs, FoundInv, PlaceInv, Asking
  <1>1. CASE ~Alive(d)
    <2>1. Exit(p, "error")
      BY <1>a, <1>1 DEF Signal
    <2> QED
      BY <1>0, <2>1, ExitStep, LifeTypes
  <1>2. CASE Alive(d)
    <2> DEFINE q == proc[p]
               r == [q EXCEPT !.pc = "wait"]
               t == Terminated(d)
    <2>1. q \in ProcessState /\ "wait" \in Places
      BY LifeTypes DEF Places, Asking
    <2>2. /\ r \in ProcessState /\ r.pc = "wait" /\ r.args = q.args /\ r.found = q.found
          /\ r.threads = q.threads /\ r.wedged = q.wedged
      BY <2>1 DEF ProcessState
    <2>3. /\ t \in ProcessState /\ t.args = proc[d].args /\ t.found = proc[d].found
          /\ t.threads = proc[d].threads /\ t.wedged = proc[d].wedged
          /\ IF Pc(d) \in Running THEN t.pc = IF Pc(d) = "serve" THEN "drain" ELSE Pc(d)
             ELSE t.pc = "exited" /\ t.exit = "killed"
          /\ Unbound(d) \in [Addrs -> Conn \cup {None}]
      BY <1>a, TerminatedIs, LifeTypes
    <2>4. proc' = [proc EXCEPT ![d] = t, ![p].pc = "wait"] /\ port' = Unbound(d)
      BY <1>a, <1>2 DEF Signal
    <2> HIDE DEF t
    <2>5. proc' = [proc EXCEPT ![d] = t, ![p] = r]
      BY <1>a, <2>4, LifeTypes
    <2> HIDE DEF r
    <2>6. /\ proc' \in [Conn -> ProcessState] /\ proc'[p] = r /\ proc'[d] = t
          /\ \A c \in Conn \ {p, d} : proc'[c] = proc[c]
      BY <1>a, <2>2, <2>3, <2>5, LifeTypes
    <2>7. /\ Pc(p)' = "wait" /\ Args(p)' = Args(p) /\ proc'[p].found = d
          /\ proc'[p].wedged = {} /\ proc'[p].threads = proc[p].threads
      BY <1>a, <2>2, <2>6 DEF Pc, Args
    <2>8. /\ Pc(d)' = t.pc /\ Args(d)' = Args(d) /\ proc'[d].found = proc[d].found
          /\ proc'[d].wedged = proc[d].wedged /\ proc'[d].threads = proc[d].threads
      BY <2>3, <2>6 DEF Pc, Args
    <2>9. Pc(d)' \in Stopping \cup Gone /\ Onward(d) /\ Pc(d) \notin {"write", "idle"} \cup Asking \cup Starting
      <3>1. CASE Pc(d) \in Running
        <4>1. Pc(d) \notin Gone /\ Pc(d) \notin {"write", "idle"} \cup Asking \cup Starting
          BY <3>1, LifeTypes
        <4>2. Pc(d)' \in Stopping
          BY <2>3, <2>8, <3>1 DEF Running, Stopping
        <4> QED
          BY <4>1, <4>2 DEF Onward, Running
      <3>2. CASE Pc(d) \in Gone /\ Pc(d) \notin Running
        <4>1. Pc(d) \notin {"write", "idle"} \cup Asking \cup Starting \cup Running
          BY <3>2, LifeTypes
        <4>2. Pc(d)' = "exited"
          BY <2>3, <2>8, <3>2
        <4> QED
          BY <4>1, <4>2 DEF Onward, Gone, Running
      <3> QED
        BY <1>a, <3>1, <3>2
    <2>10. \A c \in Conn : Onward(c) /\ (Pc(c) = "write" => Pc(c)' # "serve")
      <3> SUFFICES ASSUME NEW c \in Conn PROVE Onward(c) /\ (Pc(c) = "write" => Pc(c)' # "serve")
        OBVIOUS
      <3>1. CASE c \notin {p, d}
        <4>1. Pc(c)' = Pc(c)
          BY <2>6, <3>1 DEF Pc
        <4> QED
          BY <4>1 DEF Onward, Running
      <3>2. CASE c = p
        <4>1. "signal" \notin Running \cup Gone \cup {"write", "serve"}
          BY ThreadIs DEF Running, Stopping, Gone
        <4> QED
          BY <1>0, <3>2, <4>1 DEF Onward, Running
      <3>3. CASE c = d
        BY <2>9, <3>3
      <3> QED
        BY <3>1, <3>2, <3>3
    <2>11. LifecycleTypeOK'
      <3>1. \A c \in Conn : Args(c)' = Args(c) /\ proc'[c].wedged \subseteq proc'[c].threads
        <4> SUFFICES ASSUME NEW c \in Conn
                     PROVE  Args(c)' = Args(c) /\ proc'[c].wedged \subseteq proc'[c].threads
          OBVIOUS
        <4>1. CASE c \notin {p, d}
          BY <2>6, <4>1, LifeTypes DEF Args
        <4>2. CASE c \in {p, d}
          BY <1>a, <2>7, <2>8, <4>2, LifeTypes
        <4> QED
          BY <4>1, <4>2
      <3> QED
        BY <1>0, <2>3, <2>4, <2>6, <3>1 DEF LifeInv, LifecycleTypeOK, MigInv
    <2>12. ProcessInvs(p)'
      <3>1. "wait" \notin {"idle", "find", "unlink", "exited", "write"} \cup Starting \cup Running
        BY ThreadIs DEF Running, Stopping, Starting
      <3>2. PlaceInv(p)'
        BY <1>a, <2>7, <3>1 DEF PlaceInv, Starting
      <3>3. FoundInv(p)'
        BY <1>a, <2>7, <2>9 DEF FoundInv
      <3>4. OwnInv(p)' /\ StopInv(p)'
        BY <2>7, <3>1 DEF OwnInv, StopInv
      <3>5. KnownInv(p)'
        <4> DEFINE k == known[p]
        <4>1. CASE k = None
          BY <1>0, <2>7, <4>1 DEF KnownInv
        <4>2. CASE k # None
          <5>1. k \in Conn \ {p} /\ Pc(k) \in Running \cup Gone
            BY <1>0, <4>2, KnownIs
          <5>2. Onward(k)
            BY <2>10, <5>1
          <5>3. Pc(k)' \in Running \cup Gone
            BY <5>1, <5>2 DEF Onward, Running
          <5> QED
            BY <1>0, <2>7, <5>1, <5>3 DEF KnownInv, Asking
        <4> QED
          BY <4>1, <4>2
      <3> QED
        BY <3>2, <3>3, <3>4, <3>5 DEF ProcessInvs
    <2>13. ProcessInvs(d)'
      <3>a. d \in Conn /\ ProcessInvs(d)
        BY <1>a, LifeTypes
      <3>b. Pc(d)' \notin {"idle", "find", "unlink", "signal", "wait", "reconcile", "write"} \cup Asking
        BY <2>9, LifeTypes, ThreadIs DEF Stopping, Gone, Asking
      <3>c. Pc(d)' \in Running => Pc(d) \in Running
        BY <1>a, <2>9, LifeTypes DEF Onward
      <3>1. PlaceInv(d)'
        <4>1. Pc(d)' \in Starting => FALSE
          BY <2>9, LifeTypes
        <4> QED
          BY <2>8, <2>9, <3>a, <3>b, <3>c, <4>1, LifeTypes DEF ProcessInvs, PlaceInv
      <3>2. FoundInv(d)'
        BY <3>b DEF FoundInv
      <3>3. OwnInv(d)'
        BY <1>0, <3>a, <3>b, <3>c DEF ProcessInvs, OwnInv, Names
      <3>4. StopInv(d)'
        <4>1. CASE Pc(d) \in Running
          <5>1. Pc(d)' \in Running
            BY <2>3, <2>8, <4>1 DEF Running, Stopping
          <5>2. Pc(d)' # "exited"
            BY <5>1, LifeTypes DEF Gone
          <5> QED
            BY <3>b, <5>2 DEF StopInv
        <4>2. CASE Pc(d) \notin Running
          <5>1. proc'[d].exit = "killed"
            BY <2>3, <2>6, <4>2
          <5> QED
            BY <3>b, <5>1 DEF StopInv
        <4> QED
          BY <4>1, <4>2
      <3>5. KnownInv(d)'
        <4> DEFINE k == known[d]
        <4>1. CASE k = None
          BY <1>0, <3>b, <4>1 DEF KnownInv
        <4>2. CASE k # None
          <5>1. /\ k \in Conn \ {d} /\ Pc(k) \in Running \cup Gone
                /\ Names(k) /\ Pc(k) \in Running => Pc(d) \in {"find"} \cup Asking \cup Gone
            BY <2>9, <3>a, <4>2, KnownIs
          <5>2. Onward(k)
            BY <2>10, <5>1
          <5>3. Pc(k)' \in Running \cup Gone
            BY <5>1, <5>2 DEF Onward, Running
          <5>4. ASSUME Names(k)', Pc(k)' \in Running PROVE Pc(d)' \in Gone
            <6>1. Names(k) /\ Pc(k) \in Running
              BY <1>0, <5>1, <5>2, <5>4, LifeTypes DEF Names, Onward
            <6>2. Pc(d) \in Gone
              BY <2>9, <5>1, <6>1 DEF Starting
            <6> QED
              BY <2>9, <6>2 DEF Onward
          <5> QED
            BY <1>0, <3>b, <5>1, <5>3, <5>4 DEF KnownInv
        <4> QED
          BY <4>1, <4>2
      <3> QED
        BY <3>1, <3>2, <3>3, <3>4, <3>5 DEF ProcessInvs
    <2> QED
      BY <1>0, <2>6, <2>10, <2>11, <2>12, <2>13, QuietStep
  <1> QED
    BY <1>1, <1>2

LEMMA WaitStep ==
  ASSUME LifeInv, MigInv', NEW p \in Conn, Wait(p)
  PROVE  LifeInv'
  <1>0. Pc(p) = "wait" /\ UNCHANGED <<pidfile, mishaps, known, contested>>
    BY DEF Wait
  <1>a. PICK d \in Conn \ {p} : d = proc[p].found /\ Pc(d) \in Stopping \cup Gone
    BY <1>0, LifeTypes DEF ProcessInvs, FoundInv, Asking
  <1>1. CASE proc[p].polls = MaxPolls
    <2>1. Exit(p, "error")
      BY <1>1 DEF Wait
    <2> QED
      BY <1>0, <2>1, ExitStep, LifeTypes
  <1>2. CASE proc[p].polls # MaxPolls /\ FindLive = "none"
    <2>1. Exit(p, "ok")
      BY <1>2 DEF Wait
    <2>2. ~contested => Pc(d) \in Gone
      BY <1>2, <1>a, FindLiveIs, LifeTypes
    <2>3. Pc(p) \notin Gone
      BY <1>0 DEF Gone
    <2> QED
      BY <1>0, <1>a, <2>1, <2>2, <2>3, ExitStep, LifeTypes
  <1>3. CASE proc[p].polls # MaxPolls /\ FindLive = "stale"
    <2>1. Become(p, "unlink") /\ Stays
      BY <1>3 DEF Wait
    <2> QED
      BY <1>0, <1>3, <2>1, NobodyThere DEF Stays
  <1>4. CASE proc[p].polls # MaxPolls /\ FindLive = "live"
    <2> DEFINE q == proc[p]
               n == q.polls + 1
               r == [q EXCEPT !.polls = n]
    <2>1. proc' = [proc EXCEPT ![p] = r] /\ Stays
      BY <1>4 DEF Wait
    <2>2. q \in ProcessState /\ n \in 0 .. MaxPolls
      <3>1. q \in ProcessState /\ MaxPolls \in Nat
        BY LifeTypes
      <3>2. q.polls \in 0 .. MaxPolls /\ q.polls # MaxPolls
        BY <1>4, <3>1 DEF ProcessState
      <3> HIDE DEF q
      <3>3. n \in 0 .. MaxPolls
        BY <3>1, <3>2
      <3> QED
        BY <3>1, <3>3
    <2> HIDE DEF n
    <2>3. /\ r \in ProcessState /\ r.pc = q.pc /\ r.args = q.args /\ r.found = q.found
          /\ r.threads = q.threads /\ r.wedged = q.wedged
      BY <2>2 DEF ProcessState
    <2> HIDE DEF r
    <2>4. /\ Only(p) /\ Keeps(p) /\ Pc(p)' = "wait"
          /\ proc'[p].wedged = proc[p].wedged /\ proc'[p].threads = proc[p].threads
      BY <1>0, <2>1, <2>3, LifeTypes DEF Only, Keeps, Args, Pc
    <2>5. /\ "wait" \notin {"idle", "find", "unlink", "exited", "write"} \cup Starting \cup Running \cup Gone
          /\ "wait" \in Asking
      BY ThreadIs DEF Running, Stopping, Starting, Gone, Asking
    <2>6. ProcessInvs(p)
      BY LifeTypes
    <2>7. PlaceInv(p)' /\ Args(p)' \in Options[p]
      BY <1>0, <2>4, <2>5, <2>6 DEF Keeps, ProcessInvs, PlaceInv
    <2>8. FoundInv(p)'
      <3>1. Pc(d)' = Pc(d) /\ proc'[p].found = d
        BY <1>a, <2>4 DEF Only, Keeps, Pc
      <3> QED
        BY <1>a, <2>4, <3>1 DEF FoundInv
    <2>9. OwnInv(p)' /\ StopInv(p)'
      BY <2>4, <2>5 DEF OwnInv, StopInv
    <2>10. KnownInv(p)'
      <3> DEFINE k == known[p]
      <3>1. CASE k = None
        BY <1>0, <2>4, <3>1 DEF KnownInv
      <3>2. CASE k # None
        <4>1. k \in Conn \ {p} /\ Pc(k) \in Running \cup Gone
          BY <1>0, <3>2, KnownIs
        <4>2. Pc(k)' = Pc(k)
          BY <1>0, <2>4, <4>1 DEF Only, Pc
        <4> QED
          BY <1>0, <2>4, <2>5, <4>1, <4>2 DEF KnownInv
      <3> QED
        BY <3>1, <3>2
    <2> QED
      BY <1>0, <2>1, <2>4, <2>5, <2>7, <2>8, <2>9, <2>10, LifeTypes, GoesOn DEF Stays, ProcessInvs
  <1> QED
    BY <1>1, <1>2, <1>3, <1>4, FindLiveIs

LEMMA LifeInitInv == LifecycleInit => LifeInv
  <1> SUFFICES ASSUME LifecycleInit PROVE LifeInv
    OBVIOUS
  <1>1. MigInv
    BY MigInitInv DEF LifecycleInit
  <1>2. New \in ProcessState /\ New.pc = "idle" /\ New.args = None /\ New.found = None
        /\ New.wedged = {} /\ New.threads = {}
    <2>1. "idle" \in Places /\ 0 \in 0 .. MaxPolls
      BY LifecycleAssumption DEF Places
    <2>2. /\ New.pc = "idle" /\ New.args = None /\ New.found = None
          /\ New.wedged = {} /\ New.threads = {}
      BY DEF New
    <2>3. New \in ProcessState
      BY <2>1 DEF New, ProcessState
    <2> QED
      BY <2>2, <2>3
  <1>3. proc = [p \in Conn |-> New]
    BY DEF LifecycleInit
  <1>4. \A p \in Conn : Pc(p) = "idle" /\ Args(p) = None /\ proc[p].found = None
                        /\ proc[p].wedged = {} /\ proc[p].threads = {} /\ known[p] = None
    BY <1>2, <1>3 DEF Pc, Args, LifecycleInit
  <1>5. LifecycleTypeOK
    <2>1. mishaps \in 0 .. MaxMishaps
      BY LifecycleAssumption DEF LifecycleInit
    <2>2. port \in [Addrs -> Conn \cup {None}] /\ known \in [Conn -> Conn \cup {None}]
          /\ contested \in BOOLEAN /\ pidfile \in Record \cup {Absent}
      BY DEF LifecycleInit
    <2>3. proc \in [Conn -> ProcessState]
      BY <1>2, <1>3
    <2> QED
      BY <1>1, <1>4, <2>1, <2>2, <2>3 DEF LifecycleTypeOK, MigInv
  <1>6. FileInv
    BY DEF LifecycleInit, FileInv
  <1>7. ASSUME NEW p \in Conn PROVE ProcessInvs(p)
    <2>1. "idle" \notin {"find", "unlink", "signal", "wait", "reconcile", "write", "exited"}
                        \cup Starting \cup Running \cup Asking
      BY ThreadIs DEF Running, Stopping, Starting, Asking
    <2> QED
      BY <1>4, <2>1 DEF ProcessInvs, PlaceInv, FoundInv, OwnInv, StopInv, KnownInv
  <1> QED
    BY <1>1, <1>5, <1>6, <1>7 DEF LifeInv

LEMMA LifeStep == LifeInv /\ [LifecycleNext]_lifecycleVars => LifeInv'
  <1> SUFFICES ASSUME LifeInv, [LifecycleNext]_lifecycleVars PROVE LifeInv'
    OBVIOUS
  <1>1. MigInv'
    <2>1. [MigNext]_migVars
      BY LifecycleIsMig
    <2> QED
      BY <2>1, MigStep DEF LifeInv
  <1>2. CASE UNCHANGED lifecycleVars
    <2>1. LifecycleTypeOK'
      BY <1>2 DEF lifecycleVars, migVars, lifeVars, LifeInv, LifecycleTypeOK, MigTypeOK, Args
    <2>2. \A d \in Conn : Pc(d)' = Pc(d)
      BY <1>2 DEF lifecycleVars, lifeVars, Pc
    <2>3. \A d \in Conn : Onward(d) /\ (Pc(d) = "write" => Pc(d)' # "serve")
      BY <2>2 DEF Onward, Running
    <2> QED
      BY <1>1, <1>2, <2>1, <2>3, QuietStep DEF lifecycleVars, lifeVars
  <1>3. ASSUME NEW p \in Conn,
               Launch(p) \/ Step(p) \/ Interrupt(p) \/ KillProcess(p) \/ Wedge(p) \/ Reuse(p)
        PROVE  LifeInv'
    <2>1. CASE Launch(p)
      BY <1>1, <2>1, LaunchStep
    <2>2. CASE Interrupt(p) \/ Wedge(p) \/ Drained(p) \/ ThreadEnds(p) \/ Joined(p)
      BY <1>1, <2>2, StopStep
    <2>3. CASE KillProcess(p) \/ Reuse(p) \/ Reconcile(p)
      BY <1>1, <2>3, EndStep
    <2>4. CASE FindAtStart(p) \/ FindToStop(p)
      BY <1>1, <2>4, FindStep
    <2>5. CASE Unlink(p) \/ RemoveRecord(p)
      BY <1>1, <2>5, UnlinkStep, RemoveRecordStep
    <2>6. CASE Detach(p) \/ Bind(p) \/ OpenElsewhere(p) \/ OpenStore(p) \/ Opened(p) \/ Spawn(p)
      BY <1>1, <2>6, StartStep
    <2>7. CASE Truncate(p) \/ WriteRecord(p)
      BY <1>1, <2>7, TruncateStep, WriteRecordStep
    <2>8. CASE Signal(p) \/ Wait(p)
      BY <1>1, <2>8, SignalStep, WaitStep
    <2> QED
      BY <1>3, <2>1, <2>2, <2>3, <2>4, <2>5, <2>6, <2>7, <2>8 DEF Step
  <1> QED
    BY <1>2, <1>3 DEF LifecycleNext

LEMMA LifecycleInvariant == LifecycleSpec => []LifeInv
  BY LifeInitInv, LifeStep, PTL DEF LifecycleSpec

(* Whatever invocations there are, however they interleave and wherever each   *)
(* is killed: the pidfile that find_live believes names a daemon that serves   *)
(* or a number given to another program (pidfile.rs 21), and `dafs stop`        *)
(* reports success only when the daemon it signalled is gone (main.rs 498).     *)
THEOREM LifecycleIsSound == LifecycleSpec => []LifecycleSound
  BY LifecycleInvariant, LifeInvIsSound, PTL

(* The steps that touch the pidfile, and who takes them.                      *)
LEMMA Touches ==
  ASSUME LifeInv, [LifecycleNext]_lifecycleVars, pidfile' # pidfile
  PROVE  \E p \in Conn : Pc(p) \in {"unlink", "truncate", "write", "remove"} /\ Only(p)
  <1>1. CASE UNCHANGED lifecycleVars
    BY <1>1 DEF lifecycleVars, lifeVars
  <1>2. ASSUME NEW p \in Conn,
               Launch(p) \/ Step(p) \/ Interrupt(p) \/ KillProcess(p) \/ Wedge(p) \/ Reuse(p)
        PROVE  Pc(p) \in {"unlink", "truncate", "write", "remove"} /\ Only(p)
    <2>1. Unlink(p) \/ RemoveRecord(p) \/ Truncate(p) \/ WriteRecord(p)
      BY <1>2 DEF Launch, Step, Interrupt, KillProcess, Wedge, Reuse, FindAtStart, FindToStop,
        Reconcile, Detach, Bind, OpenElsewhere, OpenStore, lifeVars, Opened, Spawn, Drained,
        ThreadEnds, Joined, Signal, Wait
    <2>2. Pc(p) \in {"unlink", "truncate", "write", "remove"}
      BY <2>1 DEF Unlink, RemoveRecord, Truncate, WriteRecord
    <2>3. {"detach", "write", "serve"} \subseteq Places
      BY DEF Places, Starting, Running
    <2>4. CASE Exit(p, "ok")
      BY <2>2, <2>4, ExitIs, LifeTypes
    <2>5. ASSUME NEW place \in {"detach", "write", "serve"}, Become(p, place) PROVE Only(p)
      BY <2>3, <2>5, BecomeIs, LifeTypes
    <2> QED
      BY <2>1, <2>2, <2>4, <2>5 DEF Unlink, RemoveRecord, Truncate, WriteRecord
  <1> QED
    BY <1>1, <1>2 DEF LifecycleNext

(* Whoever was started while the pidfile named a running daemon leaves it      *)
(* alone as long as that daemon runs: he found it there, or he would have had  *)
(* to find that it was gone (main.rs 244).                                   *)
THEOREM KnownIsUndisturbed == LifecycleSpec => Undisturbed
  <1> DEFINE Kept == \A p, d \in Conn :
       (/\ proc[p] # proc'[p] /\ p # d /\ known[p] = d /\ Pc(p) # "idle"
        /\ Pc(d) \in Running /\ proc[d] = proc'[d]
        /\ pidfile # Absent /\ pidfile.pid = d)
       => pidfile' = pidfile
  <1>1. ASSUME LifeInv, [LifecycleNext]_lifecycleVars PROVE Kept
    <2> SUFFICES ASSUME NEW p \in Conn, NEW d \in Conn, proc[p] # proc'[p], known[p] = d,
                        Pc(p) # "idle", Pc(d) \in Running, Names(d), pidfile' # pidfile
                 PROVE  FALSE
      BY DEF Names
    <2>1. PICK q \in Conn : Pc(q) \in {"unlink", "truncate", "write", "remove"} /\ Only(q)
      BY <1>1, Touches
    <2>2. p = q
      BY <2>1 DEF Only
    <2>3. Pc(p) \in {"find"} \cup Asking \cup Gone
      BY <1>1, KnownIs, MigrationsAssumption
    <2> QED
      BY <2>1, <2>2, <2>3 DEF Asking, Gone
  <1>2. LifecycleSpec => [][Kept]_lifeVars
    <2>1. LifeInv /\ [LifecycleNext]_lifecycleVars => [Kept]_lifeVars
      BY <1>1
    <2> QED
      BY <2>1, LifecycleInvariant, PTL DEF LifecycleSpec
  <1> QED
    BY <1>2 DEF Undisturbed

(* However invocations come and go, what they do to the database is an opening *)
(* of the store, so that all that was proved of that holds of them.           *)
THEOREM LifecycleOpensStores == LifecycleSpec => MigSpec
  <1>1. LifecycleInit => MigInit
    BY DEF LifecycleInit
  <1> QED
    BY <1>1, LifecycleIsMig, LifecycleInvariant, PTL DEF LifecycleSpec, MigSpec

(* Versions are added one at a time and nothing is taken away, by whatever     *)
(* daemons are started, killed and stopped.                                  *)
THEOREM LifecycleOneAtATime == LifecycleSpec => OneAtATime
  BY LifecycleOpensStores, MigrationsOneAtATime

-----------------------------------------------------------------------------
(* Control. While a command is applied, the thread's list is between two:    *)
(* every root of it is watched or lost, and none is there that was neither    *)
(* shown before nor asked for. The request it is of stays what it was,        *)
(* though its handler may be gone.                                          *)
InCommand == thread.pc \in {"add", "watch", "publish"}

CommandInv ==
  InCommand =>
    LET asked == request[thread.by] IN
    /\ thread.by \in Requests /\ asked.pc # "idle"
    /\ watched \subseteq roots /\ roots \subseteq watched \cup lost
    /\ thread.todo \subseteq asked.roots /\ thread.root \subseteq asked.roots
    /\ roots \subseteq (IF asked.mode = "add" THEN shared ELSE {}) \cup asked.roots
    /\ asked.mode = "add" => shared \subseteq roots
    /\ thread.pc # "publish" /\ ~thread.errors =>
         asked.roots \subseteq roots \cup thread.todo \cup thread.root
    /\ thread.pc = "publish" => asked.reply # "none"

ControlInv ==
  /\ ControlSound
  /\ CommandInv
  /\ thread.pc # "watch" => thread.root = {}
  /\ thread.root \subseteq scanned
  /\ thread.pc = "scan" => watched = {} /\ shared = roots
  /\ \A i \in DOMAIN commands : request[commands[i]].pc # "idle"

(* What the observer goes by of a request is settled when it is sent.        *)
Settled(c) ==
  /\ request'[c].roots = request[c].roots
  /\ request'[c].mode = request[c].mode
  /\ request'[c].reply = request[c].reply
  /\ request'[c].pc # "idle"

LEMMA AnsweredState ==
  ASSUME request \in [Requests -> RequestState], NEW c \in Requests,
         NEW a \in [ok : BOOLEAN, roots : SUBSET Roots]
  PROVE  \E r \in RequestState :
           /\ Answered(c, a) = [request EXCEPT ![c] = r]
           /\ r.roots = request[c].roots /\ r.mode = request[c].mode
           /\ r.reply = request[c].reply /\ r.pc = "answered"
  <1> DEFINE q == request[c]
             r == [q EXCEPT !.pc = "answered", !.answer = a]
  <1>1. q \in RequestState
    OBVIOUS
  <1>2. /\ r \in RequestState /\ r.pc = "answered"
        /\ r.roots = q.roots /\ r.mode = q.mode /\ r.reply = q.reply
    BY <1>1 DEF RequestState
  <1>3. Answered(c, a) = [request EXCEPT ![c] = r]
    BY DEF Answered
  <1> HIDE DEF r
  <1> QED
    BY <1>2, <1>3

LEMMA ServerSettled ==
  ASSUME ControlTypeOK, NEW c \in Requests, Put(c) \/ GiveUp(c) \/ HandlerStep(c)
  PROVE  /\ request' \in [Requests -> RequestState]
         /\ \A b \in Requests : request[b].pc # "idle" => Settled(b)
  <1>a. request \in [Requests -> RequestState] /\ shared \subseteq Roots
    BY DEF ControlTypeOK
  <1>1. \E r \in RequestState :
          /\ request' = [request EXCEPT ![c] = r]
          /\ request[c].pc # "idle" =>
               /\ r.roots = request[c].roots /\ r.mode = request[c].mode
               /\ r.reply = request[c].reply /\ r.pc # "idle"
    <2>1. CASE Put(c)
      <3>1. PICK mode \in {"add", "replace"}, rs \in SUBSET Roots, pc \in {"wait", "answered"} :
              LET asked == [request EXCEPT ![c] =
                              [Idle EXCEPT !.mode = mode, !.roots = rs, !.there = TRUE]]
              IN request' = [asked EXCEPT ![c].pc = pc]
        BY <2>1 DEF Put
      <3> DEFINE r == [Idle EXCEPT !.mode = mode, !.roots = rs, !.there = TRUE, !.pc = pc]
      <3>2. r \in RequestState
        BY DEF RequestState, Idle
      <3>3. request' = [request EXCEPT ![c] = r]
        BY <1>a, <3>1
      <3> HIDE DEF r
      <3> QED
        BY <2>1, <3>2, <3>3 DEF Put
    <2>2. CASE GiveUp(c)
      <3> DEFINE q == request[c]
                 r == [q EXCEPT !.there = FALSE]
      <3>1. /\ r \in RequestState /\ r.pc = q.pc
            /\ r.roots = q.roots /\ r.mode = q.mode /\ r.reply = q.reply
        BY <1>a DEF RequestState
      <3>2. request' = [request EXCEPT ![c] = r]
        BY <2>2 DEF GiveUp
      <3> HIDE DEF r
      <3> QED
        BY <3>1, <3>2
    <2>3. CASE HandlerStep(c)
      <3>1. CASE request' = [request EXCEPT ![c].pc = "read"]
        <4> DEFINE q == request[c]
                   r == [q EXCEPT !.pc = "read"]
        <4>1. /\ r \in RequestState /\ r.pc = "read"
              /\ r.roots = q.roots /\ r.mode = q.mode /\ r.reply = q.reply
          BY <1>a DEF RequestState
        <4>2. request' = [request EXCEPT ![c] = r]
          BY <3>1
        <4> HIDE DEF r
        <4> QED
          BY <4>1, <4>2
      <3>2. CASE request' = Answered(c, Refused)
        <4>1. Refused \in [ok : BOOLEAN, roots : SUBSET Roots]
          BY DEF Refused
        <4> QED
          BY <1>a, <3>2, <4>1, AnsweredState
      <3>3. CASE request' = Answered(c, [ok |-> TRUE, roots |-> shared])
        BY <1>a, <3>3, AnsweredState
      <3> QED
        BY <2>3, <3>1, <3>2, <3>3 DEF HandlerStep, ReplyArrives, ReplyTimeout, ReadRoots
    <2> QED
      BY <2>1, <2>2, <2>3
  <1> QED
    BY <1>a, <1>1 DEF Settled

LEMMA ControlInitInv == ControlInit => ControlInv
  <1> SUFFICES ASSUME ControlInit PROVE ControlInv
    OBVIOUS
  <1>1. ControlTypeOK
    BY ControlAssumption DEF ControlInit, ControlTypeOK, RequestState, ThreadState, Idle
  <1> QED
    BY <1>1 DEF ControlInit, ControlInv, ControlSound, AccountsAgree, ScannedFirst, OkIsListed,
      CommandInv, InCommand

(* The parts of the invariant, for the steps of the server.                  *)
LEMMA ServerStep ==
  ASSUME ControlInv, NEW c \in Requests, Put(c) \/ GiveUp(c) \/ HandlerStep(c)
  PROVE  ControlInv'
  <1> USE DEF ControlInv, ControlSound
  <1>a. ControlTypeOK
    OBVIOUS
  <1>1. UNCHANGED <<observer, shared, exists, faults, lost, scanned>>
    BY DEF Put, GiveUp, HandlerStep, ReplyArrives, ReplyTimeout, ReadRoots
  <1>2. /\ request' \in [Requests -> RequestState]
        /\ \A b \in Requests : request[b].pc # "idle" => Settled(b)
    BY <1>a, ServerSettled
  <1>3. commands' = commands \/ (commands' = Append(commands, c) /\ request'[c].pc = "wait")
    <2>1. CASE Put(c)
      <3>1. PICK mode \in {"add", "replace"}, rs \in SUBSET Roots :
              LET asked == [request EXCEPT ![c] =
                              [Idle EXCEPT !.mode = mode, !.roots = rs, !.there = TRUE]]
                  accepted == rs # {} /\ rs \subseteq exists /\ thread.pc # "gone"
              IN /\ request' = [asked EXCEPT ![c].pc = IF accepted THEN "wait" ELSE "answered"]
                 /\ commands' = IF accepted THEN Append(commands, c) ELSE commands
        BY <2>1 DEF Put
      <3> DEFINE row == [Idle EXCEPT !.mode = mode, !.roots = rs, !.there = TRUE]
      <3>2. [row EXCEPT !.pc = "wait"].pc = "wait"
        BY DEF Idle
      <3> QED
        BY <3>1, <3>2, <1>a DEF ControlTypeOK
    <2>2. CASE GiveUp(c) \/ HandlerStep(c)
      BY <2>2 DEF GiveUp, HandlerStep, ReplyArrives, ReplyTimeout, ReadRoots
    <2> QED
      BY <2>1, <2>2
  <1>4. commands' \in Seq(Requests) /\ \A i \in DOMAIN commands' : request'[commands'[i]].pc # "idle"
    <2>1. commands \in Seq(Requests) /\ \A i \in DOMAIN commands : request[commands[i]].pc # "idle"
      BY <1>a DEF ControlTypeOK
    <2>2. \A i \in DOMAIN commands : commands[i] \in Requests
      BY <2>1, ElementOfSeq
    <2>3. \A i \in DOMAIN commands : request'[commands[i]].pc # "idle"
      BY <1>2, <2>1, <2>2 DEF Settled
    <2>4. CASE commands' = Append(commands, c) /\ request'[c].pc = "wait"
      BY <2>1, <2>3, <2>4, AppendProperties, LenProperties
    <2> QED
      BY <1>3, <2>1, <2>3, <2>4
  <1>5. ControlTypeOK'
    BY <1>a, <1>1, <1>2, <1>4 DEF ControlTypeOK, observer
  <1>6. CommandInv'
    BY <1>1, <1>2 DEF CommandInv, InCommand, observer, Settled
  <1>7. OkIsListed'
    BY <1>1, <1>2 DEF OkIsListed, CommandInv, InCommand, observer, Settled
  <1> QED
    BY <1>1, <1>4, <1>5, <1>6, <1>7 DEF AccountsAgree, ScannedFirst, observer

(* The thread's steps: each keeps what it goes by between two commands.      *)
LEMMA ObserverStepKeeps == ControlInv /\ ObserverStep => ControlInv'
  <1> SUFFICES ASSUME ControlInv, ObserverStep PROVE ControlInv'
    OBVIOUS
  <1> USE DEF ControlInv, ControlSound
  <1>a. InitialRoots \subseteq Roots /\ MaxFaults \in Nat
    BY ControlAssumption
  <1>b. /\ request \in [Requests -> RequestState]
        /\ commands \in Seq(Requests)
        /\ thread \in ThreadState
        /\ {roots, watched, shared, exists, lost, scanned} \subseteq SUBSET Roots
        /\ faults \in 0 .. MaxFaults
    BY DEF ControlTypeOK
  <1>c. ASSUME UNCHANGED request, commands' = commands \/ commands' = <<>>
        PROVE  commands' \in Seq(Requests)
               /\ \A i \in DOMAIN commands' : request'[commands'[i]].pc # "idle"
    <2>1. <<>> \in Seq(Requests) /\ DOMAIN <<>> = {}
      BY EmptySeq
    <2> QED
      BY <1>b, <1>c, <2>1
  <1>1. CASE StartWatch
    <2>1. commands' \in Seq(Requests) /\ \A i \in DOMAIN commands' : request'[commands'[i]].pc # "idle"
      BY <1>1, <1>c DEF StartWatch
    <2>0. thread.pc = "scan" /\ UNCHANGED <<request, roots, shared, exists, lost>>
      BY <1>1 DEF StartWatch
    <2>2. CASE /\ watched' = roots /\ scanned' = roots
               /\ thread' = [thread EXCEPT !.pc = "poll", !.todo = {}]
               /\ UNCHANGED <<commands, faults>>
      <3>1. thread' \in ThreadState /\ thread'.pc = "poll" /\ thread'.root = thread.root
        BY <1>b, <2>2 DEF ThreadState
      <3> QED
        BY <1>b, <2>0, <2>1, <2>2, <3>1
        DEF ControlTypeOK, AccountsAgree, ScannedFirst, OkIsListed, CommandInv, InCommand
    <2>3. CASE /\ faults' \in 0 .. MaxFaults
               /\ thread' = [thread EXCEPT !.pc = "gone", !.todo = {}]
               /\ UNCHANGED <<watched, scanned>>
      <3>1. thread' \in ThreadState /\ thread'.pc = "gone" /\ thread'.root = thread.root
        BY <1>b, <2>3 DEF ThreadState
      <3> QED
        BY <1>b, <2>0, <2>1, <2>3, <3>1
        DEF ControlTypeOK, AccountsAgree, ScannedFirst, OkIsListed, CommandInv, InCommand
    <2> QED
      BY <1>a, <1>b, <1>1, <2>2, <2>3 DEF StartWatch, Fault
  <1>2. CASE Take
    <2> DEFINE c == Head(commands)
    <2>1. /\ c \in Requests /\ request[c].pc # "idle"
          /\ Tail(commands) \in Seq(Requests)
          /\ \A i \in DOMAIN Tail(commands) : request[Tail(commands)[i]].pc # "idle"
      BY <1>b, <1>2, HeadTailProperties, LenProperties, ElementOfSeq DEF Take
    <2>2. request[c].roots \subseteq Roots /\ request[c].mode \in {"add", "replace"}
      BY <1>b, <2>1 DEF RequestState
    <2>3. /\ thread' = [thread EXCEPT !.pc = "add", !.by = c, !.todo = request[c].roots,
                                      !.errors = FALSE]
          /\ commands' = Tail(commands)
          /\ IF request[c].mode = "replace"
             THEN roots' = {} /\ watched' = watched \ roots /\ lost' = {} /\ scanned' = {}
             ELSE UNCHANGED <<roots, watched, lost, scanned>>
          /\ thread.pc = "poll"
          /\ UNCHANGED <<request, shared, exists, faults>>
      BY <1>2 DEF Take
    <2> HIDE DEF c
    <2>4. /\ thread' \in ThreadState /\ thread'.pc = "add" /\ thread'.by = c
          /\ thread'.todo = request[c].roots /\ thread'.root = thread.root /\ thread'.errors = FALSE
      BY <1>b, <2>1, <2>2, <2>3 DEF ThreadState
    <2>5. /\ shared = roots /\ watched \subseteq roots /\ roots \subseteq watched \cup lost
          /\ thread.root = {}
      BY <2>3 DEF AccountsAgree
    <2>6. CASE request[c].mode = "replace"
      BY <1>b, <2>1, <2>2, <2>3, <2>4, <2>5, <2>6
      DEF ControlTypeOK, AccountsAgree, ScannedFirst, OkIsListed, CommandInv, InCommand
    <2>7. CASE request[c].mode = "add"
      BY <1>b, <2>1, <2>2, <2>3, <2>4, <2>5, <2>7
      DEF ControlTypeOK, AccountsAgree, ScannedFirst, OkIsListed, CommandInv, InCommand
    <2> QED
      BY <2>2, <2>6, <2>7
  <1>3. CASE WatchRoot
    <2>1. commands' \in Seq(Requests) /\ \A i \in DOMAIN commands' : request'[commands'[i]].pc # "idle"
      BY <1>3, <1>c DEF WatchRoot
    <2>2. thread.pc = "watch" /\ UNCHANGED <<request, shared, exists, lost, scanned>>
      BY <1>3 DEF WatchRoot
    <2>3. CASE /\ watched' = watched \cup thread.root
               /\ roots' = roots \cup thread.root
               /\ thread' = [thread EXCEPT !.pc = "add", !.root = {}]
               /\ UNCHANGED faults
      <3>1. /\ thread' \in ThreadState /\ thread'.pc = "add" /\ thread'.root = {}
            /\ thread'.by = thread.by /\ thread'.todo = thread.todo /\ thread'.errors = thread.errors
        BY <1>b, <2>3 DEF ThreadState
      <3>2. thread.root \subseteq Roots
        BY <1>b DEF ThreadState
      <3> QED
        BY <1>b, <2>1, <2>2, <2>3, <3>1, <3>2
        DEF ControlTypeOK, AccountsAgree, ScannedFirst, OkIsListed, CommandInv, InCommand
    <2>4. CASE thread' = Failed /\ faults' \in 0 .. MaxFaults /\ UNCHANGED <<roots, watched>>
      <3>1. /\ thread' \in ThreadState /\ thread'.pc = "add" /\ thread'.root = {}
            /\ thread'.by = thread.by /\ thread'.todo = thread.todo /\ thread'.errors
        BY <1>b, <2>4 DEF ThreadState, Failed
      <3> QED
        BY <1>b, <2>1, <2>2, <2>4, <3>1
        DEF ControlTypeOK, AccountsAgree, ScannedFirst, OkIsListed, CommandInv, InCommand
    <2> QED
      BY <1>a, <1>b, <1>3, <2>3, <2>4 DEF WatchRoot, Fault
  <1>4. CASE Reply
    <2> DEFINE b == thread.by
               q == request[b]
               r == [q EXCEPT !.reply = IF thread.errors THEN "error" ELSE "ok"]
    <2>0. thread' = [thread EXCEPT !.pc = "publish"] /\ thread.pc = "add" /\ thread.todo = {}
          /\ UNCHANGED <<commands, roots, watched, shared, exists, faults, lost, scanned>>
      BY <1>4 DEF Reply
    <2>1. b \in Requests /\ q \in RequestState
      BY <1>b, <2>0 DEF CommandInv, InCommand
    <2>2. /\ r \in RequestState /\ r.pc = q.pc /\ r.roots = q.roots /\ r.mode = q.mode
          /\ r.reply = IF thread.errors THEN "error" ELSE "ok"
      BY <2>1 DEF RequestState
    <2>3. request' = [request EXCEPT ![b] = r]
      BY <1>4 DEF Reply
    <2> HIDE DEF r
    <2>4. request' \in [Requests -> RequestState] /\ request'[b] = r
          /\ \A c \in Requests : request'[c].pc = request[c].pc
      BY <1>b, <2>1, <2>2, <2>3
    <2>5. \A i \in DOMAIN commands' : request'[commands'[i]].pc # "idle"
      BY <1>b, <2>0, <2>4, ElementOfSeq
    <2>6. /\ thread' \in ThreadState /\ thread'.pc = "publish" /\ thread'.root = thread.root
          /\ thread'.by = b /\ thread'.todo = thread.todo /\ thread'.errors = thread.errors
      BY <1>b, <2>0 DEF ThreadState
    <2> QED
      BY <1>b, <2>0, <2>1, <2>2, <2>4, <2>5, <2>6
      DEF ControlTypeOK, AccountsAgree, ScannedFirst, OkIsListed, CommandInv, InCommand
  <1>5. CASE Publish
    <2>1. thread' \in ThreadState /\ thread'.pc = "poll" /\ thread'.root = thread.root
      BY <1>b, <1>5 DEF Publish, ThreadState
    <2> QED
      BY <1>b, <1>5, <2>1
      DEF Publish, ControlTypeOK, AccountsAgree, ScannedFirst, OkIsListed, CommandInv, InCommand
  <1>6. ASSUME NEW r \in Roots, ScanRoot(r) PROVE ControlInv'
    <2>1. commands' \in Seq(Requests) /\ \A i \in DOMAIN commands' : request'[commands'[i]].pc # "idle"
      BY <1>6, <1>c DEF ScanRoot
    <2>2. CASE r \in roots /\ thread' = [thread EXCEPT !.todo = @ \ {r}]
               /\ UNCHANGED <<faults, scanned>>
      <3>1. /\ thread' \in ThreadState /\ thread'.pc = thread.pc /\ thread'.root = thread.root
            /\ thread'.by = thread.by /\ thread'.todo = thread.todo \ {r} /\ thread'.errors = thread.errors
        BY <1>b, <2>2 DEF ThreadState
      <3> QED
        BY <1>b, <1>6, <2>1, <2>2, <3>1
        DEF ScanRoot, ControlTypeOK, AccountsAgree, ScannedFirst, OkIsListed, CommandInv, InCommand
    <2>3. CASE /\ r \in exists \ roots
               /\ thread' = [thread EXCEPT !.todo = @ \ {r}, !.pc = "watch", !.root = {r}]
               /\ scanned' = scanned \cup {r}
               /\ UNCHANGED faults
      <3>1. /\ thread' \in ThreadState /\ thread'.pc = "watch" /\ thread'.root = {r}
            /\ thread'.by = thread.by /\ thread'.todo = thread.todo \ {r} /\ thread'.errors = thread.errors
        BY <1>b, <2>3 DEF ThreadState
      <3> QED
        BY <1>b, <1>6, <2>1, <2>3, <3>1
        DEF ScanRoot, ControlTypeOK, AccountsAgree, ScannedFirst, OkIsListed, CommandInv, InCommand
    <2>4. CASE /\ r \notin roots /\ faults' \in 0 .. MaxFaults
               /\ thread' = [Failed EXCEPT !.todo = @ \ {r}]
               /\ UNCHANGED scanned
      <3>1. /\ thread' \in ThreadState /\ thread'.pc = "add" /\ thread'.root = {}
            /\ thread'.by = thread.by /\ thread'.todo = thread.todo \ {r} /\ thread'.errors
        BY <1>b, <2>4 DEF ThreadState, Failed
      <3> QED
        BY <1>b, <1>6, <2>1, <2>4, <3>1
        DEF ScanRoot, ControlTypeOK, AccountsAgree, ScannedFirst, OkIsListed, CommandInv, InCommand
    <2> QED
      BY <1>a, <1>b, <1>6, <2>2, <2>3, <2>4 DEF ScanRoot, Fault
  <1> QED
    BY <1>1, <1>2, <1>3, <1>4, <1>5, <1>6 DEF ObserverStep

LEMMA ControlStep == ControlInv /\ [ControlNext]_controlVars => ControlInv'
  <1> SUFFICES ASSUME ControlInv, [ControlNext]_controlVars PROVE ControlInv'
    OBVIOUS
  <1> USE DEF ControlInv, ControlSound
  <1>1. ASSUME NEW c \in Requests, Put(c) \/ GiveUp(c) \/ HandlerStep(c) PROVE ControlInv'
    BY <1>1, ServerStep
  <1>2. CASE ObserverStep
    BY <1>2, ObserverStepKeeps
  <1>3. CASE StopThread
    <2>1. thread' \in ThreadState /\ thread'.pc = "gone" /\ thread'.root = thread.root
      BY <1>3 DEF StopThread, ControlTypeOK, ThreadState
    <2>2. <<>> \in Seq(Requests) /\ DOMAIN <<>> = {}
      BY EmptySeq
    <2> QED
      BY <1>3, <2>1, <2>2
      DEF StopThread, ControlTypeOK, AccountsAgree, ScannedFirst, OkIsListed, CommandInv, InCommand
  <1>4. ASSUME NEW r \in Roots, Vanish(r) PROVE ControlInv'
    <2>1. faults' \in 0 .. MaxFaults
      BY <1>4, ControlAssumption DEF Vanish, Fault, ControlTypeOK
    <2> QED
      BY <1>4, <2>1
      DEF Vanish, ControlTypeOK, AccountsAgree, ScannedFirst, OkIsListed, CommandInv, InCommand
  <1>5. ASSUME NEW r \in Roots, Appear(r) PROVE ControlInv'
    BY <1>5
    DEF Appear, ControlTypeOK, AccountsAgree, ScannedFirst, OkIsListed, CommandInv, InCommand, observer
  <1>6. CASE UNCHANGED controlVars
    BY <1>6
    DEF controlVars, ControlTypeOK, AccountsAgree, ScannedFirst, OkIsListed, CommandInv, InCommand, observer
  <1> QED
    BY <1>1, <1>2, <1>3, <1>4, <1>5, <1>6 DEF ControlNext

LEMMA ControlInvariant == ControlSpec => []ControlInv
  BY ControlInitInv, ControlStep, PTL DEF ControlSpec

(* Between two commands the thread's list, what readers are shown and what    *)
(* the kernel watches agree but for vanished directories, every watch was     *)
(* preceded by a scan, and a success is of roots that were listed, for any    *)
(* number of requests, clients that gave up, and failures.                  *)
THEOREM ControlIsSound == ControlSpec => []ControlSound
  BY ControlInvariant, PTL DEF ControlInv

(* What readers see changes only at the end of a command that has been        *)
(* replied to, and to what the whole of it made of the list.                 *)
LEMMA ShownWholeStep ==
  ControlInv /\ [ControlNext]_controlVars =>
    [\E c \in Requests :
       /\ shared' \ shared \subseteq request[c].roots
       /\ IF request[c].mode = "add" THEN shared \subseteq shared'
          ELSE shared' \subseteq request[c].roots
       /\ request'[c].reply # "none"]_shared
  <1> SUFFICES ASSUME ControlInv, [ControlNext]_controlVars, shared' # shared
               PROVE  \E c \in Requests :
                        /\ shared' \ shared \subseteq request[c].roots
                        /\ IF request[c].mode = "add" THEN shared \subseteq shared'
                           ELSE shared' \subseteq request[c].roots
                        /\ request'[c].reply # "none"
    OBVIOUS
  <1>1. Publish
    BY DEF ControlNext, Put, GiveUp, HandlerStep, ReplyArrives, ReplyTimeout, ReadRoots,
      ObserverStep, StartWatch, Take, ScanRoot, WatchRoot, Reply, StopThread, Vanish, Appear,
      controlVars
  <1>2. /\ thread.pc = "publish" /\ shared' = roots /\ request' = request
        /\ thread.by \in Requests /\ request[thread.by].reply # "none"
        /\ roots \subseteq (IF request[thread.by].mode = "add" THEN shared ELSE {})
                           \cup request[thread.by].roots
        /\ request[thread.by].mode = "add" => shared \subseteq roots
    BY <1>1 DEF Publish, ControlInv, CommandInv, InCommand
  <1> QED
    BY <1>2

(* The list readers see goes from one to what a whole command makes of it, and *)
(* never shows one half made (main.rs 644).                                  *)
THEOREM ControlShowsWhole == ControlSpec => ShownWhole
  BY ControlInvariant, ShownWholeStep, PTL DEF ControlSpec, ShownWhole

-----------------------------------------------------------------------------
(* PdfWorker. What the library is copied to has all of it by the time it is   *)
(* renamed, and a text is only ever answered of a PDF that did no harm before *)
(* the answer, with "exit 0" only if it did none after it.                   *)
ProcessInv(called, process) ==
  /\ process.bound # "part"
  /\ called.pc \in {"idle", "done"} => process.pc = "none"
  /\ called.result = "ok" => called.fate = "text"
  /\ process.pc = "none" => process.answer = "none"
  /\ process.pc = "start" => process.tmp = "none"
  /\ process.pc = "write" => process.tmp # "whole"
  /\ process.pc = "rename" => process.tmp = "whole"
  /\ process.answer = "text" => called.fate \in {"text", "dies after"}
  /\ process.pc = "exit 0" => called.fate # "dies after"

PdfInv ==
  /\ PdfTypeOK
  /\ library # "part"
  /\ \A d \in Daemons : ProcessInv(call[d], child[d])

LEMMA PdfInvIsSound == PdfInv => PdfSound
  BY DEF PdfInv, PdfSound, LibraryWhole, NoneLeft, OnlyUnharmed, ProcessInv

(* The fields of a call, one by one.                                         *)
LEMMA NewCall ==
  ASSUME NEW pc \in {"idle", "waiting", "done"}, NEW fate \in Fates \cup {"text"},
         NEW result \in {"none", "malformed"}, NEW count \in 0 .. MaxCalls
  PROVE  [pc |-> pc, fate |-> fate, result |-> result, count |-> count] \in CallState
  BY DEF CallState

LEMMA PdfInitInv == PdfInit => PdfInv
  <1> SUFFICES ASSUME PdfInit PROVE PdfInv
    OBVIOUS
  <1> DEFINE called == [pc |-> "idle", fate |-> "text", result |-> "none", count |-> 0]
  <1>1. called \in CallState
    <2>1. MaxCalls \in Nat
      BY PdfAssumption
    <2>2. 0 \in 0 .. MaxCalls
      BY <2>1
    <2>3. /\ "idle" \in {"idle", "waiting", "done"} /\ "text" \in Fates \cup {"text"}
          /\ "none" \in {"none", "malformed"}
      OBVIOUS
    <2> QED
      BY <2>2, <2>3, NewCall
  <1>2. NoChild \in ChildState /\ ProcessInv(called, NoChild)
    BY DEF ChildState, NoChild, ProcessInv
  <1> HIDE DEF called
  <1>3. call = [d \in Daemons |-> called] /\ child = [d \in Daemons |-> NoChild]
        /\ message = [d \in Daemons |-> "none"] /\ library = "none"
    BY DEF PdfInit, called
  <1> QED
    BY <1>1, <1>2, <1>3 DEF PdfInv, PdfTypeOK

(* A step of one daemon and its process.                                    *)
LEMMA ProcessStep ==
  ASSUME PdfInv, NEW d \in Daemons, NEW called \in CallState, NEW process \in ChildState,
         call' = [call EXCEPT ![d] = called], child' = [child EXCEPT ![d] = process],
         message' \in [Daemons -> {"none", "frame", "error"}],
         library' \in {"none", "whole"}, ProcessInv(called, process)
  PROVE  PdfInv'
  <1>1. \A e \in Daemons : call'[e] = (IF e = d THEN called ELSE call[e])
                          /\ child'[e] = (IF e = d THEN process ELSE child[e])
    BY DEF PdfInv, PdfTypeOK
  <1>2. PdfTypeOK'
    BY DEF PdfInv, PdfTypeOK
  <1> QED
    BY <1>1, <1>2 DEF PdfInv

LEMMA PdfStep == PdfInv /\ [PdfNext]_pdfVars => PdfInv'
  <1> SUFFICES ASSUME PdfInv, [PdfNext]_pdfVars PROVE PdfInv'
    OBVIOUS
  <1>a. /\ call \in [Daemons -> CallState] /\ child \in [Daemons -> ChildState]
        /\ message \in [Daemons -> {"none", "frame", "error"}]
        /\ library \in {"none", "whole"}
        /\ \A d \in Daemons : ProcessInv(call[d], child[d])
    BY DEF PdfInv, PdfTypeOK
  <1>b. NoChild \in ChildState
    BY DEF NoChild, ChildState
  <1>1. ASSUME NEW d \in Daemons, SpawnProcess(d) PROVE PdfInv'
    <2>1. PICK fate \in Fates, started \in BOOLEAN :
            /\ call' = [call EXCEPT ![d] = [pc |-> IF started THEN "waiting" ELSE "done",
                                            fate |-> fate,
                                            result |-> IF started THEN "none" ELSE "malformed",
                                            count |-> call[d].count + 1]]
            /\ child' = [child EXCEPT ![d] = IF started THEN [NoChild EXCEPT !.pc = "start"] ELSE @]
      BY <1>1 DEF SpawnProcess
    <2> DEFINE called == [pc |-> IF started THEN "waiting" ELSE "done", fate |-> fate,
                          result |-> IF started THEN "none" ELSE "malformed",
                          count |-> call[d].count + 1]
               process == IF started THEN [NoChild EXCEPT !.pc = "start"] ELSE child[d]
    <2>2. call[d] \in CallState /\ child[d] \in ChildState
      BY <1>a
    <2>3. called \in CallState
      <3>1. call[d].count + 1 \in 0 .. MaxCalls
        <4> DEFINE n == call[d].count
        <4>1. n \in 0 .. MaxCalls
          BY <2>2 DEF CallState
        <4>2. n < MaxCalls
          BY <1>1 DEF SpawnProcess
        <4> HIDE DEF n
        <4>3. MaxCalls \in Nat
          BY PdfAssumption
        <4>4. n + 1 \in 0 .. MaxCalls
          BY <4>1, <4>2, <4>3
        <4> QED
          BY <4>4 DEF n
      <3> QED
        BY <3>1, NewCall
    <2>4. process \in ChildState /\ ProcessInv(called, process)
      <3>1. CASE started
        <4>1. /\ process.pc = "start" /\ process.tmp = "none" /\ process.bound = "none"
              /\ process.answer = "none" /\ process \in ChildState
          BY <3>1 DEF NoChild, ChildState
        <4> QED
          BY <3>1, <4>1 DEF ProcessInv
      <3>2. CASE ~started
        BY <1>a, <1>1, <2>2, <3>2 DEF SpawnProcess, ProcessInv
      <3> QED
        BY <3>1, <3>2
    <2> HIDE DEF called, process
    <2>5. /\ call' = [call EXCEPT ![d] = called] /\ child' = [child EXCEPT ![d] = process]
          /\ message' = [message EXCEPT ![d] = "none"] /\ library' = library
      BY <1>1, <2>1 DEF called, process, SpawnProcess
    <2> QED
      BY <1>a, <2>3, <2>4, <2>5, ProcessStep
  <1>2. ASSUME NEW d \in Daemons, NEW process \in ChildState,
               child' = [child EXCEPT ![d] = process], UNCHANGED call,
               message' \in [Daemons -> {"none", "frame", "error"}],
               library' \in {"none", "whole"}, ProcessInv(call[d], process)
        PROVE  PdfInv'
    <2>1. call' = [call EXCEPT ![d] = call[d]] /\ call[d] \in CallState
      BY <1>a, <1>2
    <2> QED
      BY <1>2, <2>1, ProcessStep
  <1>3. ASSUME NEW d \in Daemons, Probe(d) PROVE PdfInv'
    <2>1. PICK pc \in {"write", "bind"} : child' = [child EXCEPT ![d].pc = pc]
      BY <1>3 DEF Probe, Child
    <2> DEFINE k == child[d]
               process == [k EXCEPT !.pc = pc]
    <2>2. k \in ChildState /\ k.pc = "start" /\ ProcessInv(call[d], k)
      BY <1>a, <1>3 DEF Probe
    <2>3. process \in ChildState /\ ProcessInv(call[d], process)
      BY <2>2 DEF ChildState, ProcessInv
    <2>4. child' = [child EXCEPT ![d] = process] /\ UNCHANGED <<call, message, library>>
      BY <1>3, <2>1 DEF Probe
    <2> HIDE DEF process
    <2> QED
      BY <1>a, <1>2, <2>3, <2>4
  <1>4. ASSUME NEW d \in Daemons, WriteLibrary(d) PROVE PdfInv'
    <2> DEFINE k == child[d]
               process == [k EXCEPT !.tmp = IF k.tmp = "none" THEN "part" ELSE "whole",
                                    !.pc = IF k.tmp = "none" THEN k.pc ELSE "rename"]
    <2>1. k \in ChildState /\ k.pc = "write" /\ ProcessInv(call[d], k)
      BY <1>a, <1>4 DEF WriteLibrary
    <2>2. process \in ChildState /\ ProcessInv(call[d], process)
      BY <2>1 DEF ChildState, ProcessInv
    <2>3. child' = [child EXCEPT ![d] = process] /\ UNCHANGED <<call, message, library>>
      BY <1>a, <1>4 DEF WriteLibrary
    <2> HIDE DEF process
    <2> QED
      BY <1>a, <1>2, <2>2, <2>3
  <1>5. ASSUME NEW d \in Daemons, Rename(d) PROVE PdfInv'
    <2> DEFINE k == child[d]
               process == [k EXCEPT !.tmp = "none", !.pc = "bind"]
    <2>1. k \in ChildState /\ k.pc = "rename" /\ ProcessInv(call[d], k)
      BY <1>a, <1>5 DEF Rename
    <2>2. process \in ChildState /\ ProcessInv(call[d], process)
      BY <2>1 DEF ChildState, ProcessInv
    <2>3. child' = [child EXCEPT ![d] = process] /\ library' = "whole" /\ UNCHANGED <<call, message>>
      BY <1>a, <1>5, <2>1 DEF Rename, ProcessInv
    <2> HIDE DEF process
    <2> QED
      BY <1>a, <1>2, <2>2, <2>3
  <1>6. ASSUME NEW d \in Daemons, NoLibrary(d) PROVE PdfInv'
    <2> DEFINE k == child[d]
               without == [k EXCEPT !.answer = "error", !.pc = "answered"]
               theirs == [k EXCEPT !.bound = "whole", !.pc = "extract"]
    <2>1. k \in ChildState /\ k.pc \in {"write", "rename"} /\ ProcessInv(call[d], k)
      BY <1>a, <1>6 DEF NoLibrary
    <2>2. without \in ChildState /\ ProcessInv(call[d], without)
      BY <2>1 DEF ChildState, ProcessInv
    <2>3. theirs \in ChildState /\ ProcessInv(call[d], theirs)
      BY <2>1 DEF ChildState, ProcessInv
    <2>4. /\ child' = [child EXCEPT ![d] = without] \/ child' = [child EXCEPT ![d] = theirs]
          /\ UNCHANGED <<call, message, library>>
      BY <1>a, <1>6 DEF NoLibrary
    <2> HIDE DEF without, theirs
    <2> QED
      BY <1>a, <1>2, <2>2, <2>3, <2>4
  <1>7. ASSUME NEW d \in Daemons, BindLibrary(d) PROVE PdfInv'
    <2> DEFINE k == child[d]
               process == [k EXCEPT !.bound = library, !.pc = "extract"]
    <2>1. k \in ChildState /\ k.pc = "bind" /\ ProcessInv(call[d], k)
      BY <1>a, <1>7 DEF BindLibrary
    <2>2. process \in ChildState /\ ProcessInv(call[d], process)
      BY <1>a, <2>1 DEF ChildState, ProcessInv
    <2>3. child' = [child EXCEPT ![d] = process] /\ UNCHANGED <<call, message, library>>
      BY <1>a, <1>7 DEF BindLibrary
    <2> HIDE DEF process
    <2> QED
      BY <1>a, <1>2, <2>2, <2>3
  <1>8. ASSUME NEW d \in Daemons, Extract(d) PROVE PdfInv'
    <2> DEFINE k == child[d]
               fate == call[d].fate
               place == CASE fate = "dies" -> "exit 1"
                          [] fate = "wedges" -> "wedged"
                          [] OTHER -> "answered"
               given == CASE fate = "error" -> "error"
                          [] fate \in {"dies", "wedges"} -> "none"
                          [] OTHER -> "text"
               process == [k EXCEPT !.pc = place, !.answer = given]
    <2>1. k \in ChildState /\ k.pc = "extract" /\ ProcessInv(call[d], k)
      BY <1>a, <1>8 DEF Extract
    <2>2. place \in {"exit 1", "wedged", "answered"} /\ given \in {"error", "none", "text"}
      OBVIOUS
    <2>3. given = "text" => fate \in {"text", "dies after"}
      <3>1. fate \in {"text", "error", "dies", "wedges", "dies after"}
        BY <1>a, PdfAssumption DEF CallState
      <3> QED
        BY <3>1
    <2>4. child' = [child EXCEPT ![d] = process] /\ UNCHANGED <<call, message, library>>
      BY <1>a, <1>8 DEF Extract
    <2> HIDE DEF place, given
    <2>5. process \in ChildState /\ ProcessInv(call[d], process)
      BY <2>1, <2>2, <2>3 DEF ChildState, ProcessInv
    <2> HIDE DEF process
    <2> QED
      BY <1>a, <1>2, <2>4, <2>5
  <1>9. ASSUME NEW d \in Daemons, FrameRead(d) \/ BrokenPipe(d) PROVE PdfInv'
    <2>1. child[d] \in ChildState /\ child' = [child EXCEPT ![d] = child[d]]
      BY <1>a, <1>9 DEF FrameRead, BrokenPipe
    <2> QED
      BY <1>a, <1>2, <1>9, <2>1 DEF FrameRead, BrokenPipe
  <1>10. ASSUME NEW d \in Daemons, ProcessEnds(d) PROVE PdfInv'
    <2> DEFINE k == child[d]
               place == IF call[d].fate = "dies after" THEN "exit 1" ELSE "exit 0"
               process == [k EXCEPT !.pc = place]
    <2>1. k \in ChildState /\ k.pc = "answered" /\ ProcessInv(call[d], k)
      BY <1>a, <1>10 DEF ProcessEnds
    <2>2. process \in ChildState /\ ProcessInv(call[d], process)
      BY <2>1 DEF ChildState, ProcessInv
    <2>3. child' = [child EXCEPT ![d] = process] /\ UNCHANGED <<call, message, library>>
      BY <1>a, <1>10 DEF ProcessEnds, Child
    <2> HIDE DEF process
    <2> QED
      BY <1>a, <1>2, <2>2, <2>3
  <1>11. ASSUME NEW d \in Daemons, ReceiveFrame(d) PROVE PdfInv'
    <2> DEFINE c == call[d]
               called == [c EXCEPT !.pc = "reaping"]
    <2>1. c \in CallState /\ c.pc = "waiting" /\ ProcessInv(c, child[d])
      BY <1>a, <1>11 DEF ReceiveFrame
    <2>2. called \in CallState /\ ProcessInv(called, child[d])
      BY <2>1 DEF CallState, ProcessInv
    <2>3. /\ call' = [call EXCEPT ![d] = called] /\ UNCHANGED <<message, child, library>>
          /\ child' = [child EXCEPT ![d] = child[d]] /\ child[d] \in ChildState
      BY <1>a, <1>11 DEF ReceiveFrame
    <2> HIDE DEF called
    <2> QED
      BY <1>a, <2>2, <2>3, ProcessStep
  <1>12. ASSUME NEW d \in Daemons, ReceiveError(d) \/ Deadline(d) PROVE PdfInv'
    <2>1. PICK result \in {"malformed", "timeout"} :
            /\ call' = [call EXCEPT ![d].pc = "done", ![d].result = result]
            /\ child' = [child EXCEPT ![d] = NoChild]
            /\ UNCHANGED <<message, library>>
      BY <1>12 DEF ReceiveError, Deadline, Killed
    <2> DEFINE c == call[d]
               called == [c EXCEPT !.pc = "done", !.result = result]
    <2>2. called \in CallState /\ ProcessInv(called, NoChild)
      <3>1. c \in CallState
        BY <1>a
      <3> QED
        BY <3>1 DEF CallState, ProcessInv, NoChild
    <2>3. call' = [call EXCEPT ![d] = called]
      BY <1>a, <2>1
    <2> HIDE DEF called
    <2> QED
      BY <1>a, <1>b, <2>1, <2>2, <2>3, ProcessStep
  <1>13. ASSUME NEW d \in Daemons, Reap(d) PROVE PdfInv'
    <2> DEFINE c == call[d]
               k == child[d]
               result == IF k.pc = "exit 0" /\ k.answer = "text" THEN "ok" ELSE "malformed"
               called == [c EXCEPT !.pc = "done", !.result = result]
    <2>1. c \in CallState /\ ProcessInv(c, k)
      BY <1>a
    <2>2. result \in {"ok", "malformed"} /\ (result = "ok" => c.fate = "text")
      BY <2>1 DEF ProcessInv
    <2>3. /\ call' = [call EXCEPT ![d] = called] /\ child' = [child EXCEPT ![d] = NoChild]
          /\ UNCHANGED <<message, library>>
      BY <1>a, <1>13 DEF Reap, Killed
    <2> HIDE DEF result
    <2>4. called \in CallState /\ ProcessInv(called, NoChild)
      BY <2>1, <2>2 DEF CallState, ProcessInv, NoChild
    <2> HIDE DEF called
    <2> QED
      BY <1>a, <1>b, <2>3, <2>4, ProcessStep
  <1>14. CASE UNCHANGED pdfVars
    BY <1>14 DEF pdfVars, PdfInv, PdfTypeOK
  <1> QED
    BY <1>1, <1>3, <1>4, <1>5, <1>6, <1>7, <1>8, <1>9, <1>10, <1>11, <1>12, <1>13, <1>14 DEF PdfNext

(* No process of a PDF finds half a library, outlives its call, or has a text *)
(* recorded of a PDF that killed it, for any number of daemons, of PDFs and    *)
(* of processes killed at the deadline.                                     *)
THEOREM PdfIsSound == PdfSpec => []PdfSound
  BY PdfInitInv, PdfStep, PdfInvIsSound, PTL DEF PdfSpec

-----------------------------------------------------------------------------
(* SelfUpdate. A release's assets are builds there have been; what a script   *)
(* has fetched is one of them or garbled, and not garbled once it is verified; *)
(* and what it moves to the target is whole.                                *)
Made == 1 .. builds

ScriptInv(script) ==
  /\ script.pc \in {"tarball", "checksum", "verify", "stage", "replace"} =>
       script.version \in 1 .. Len(releases)
  /\ script.pc \in {"checksum", "verify"} => script.tarball \in Made \cup {Garbled}
  /\ script.pc \in {"stage", "replace"} => script.tarball \in Made
  /\ script.pc = "replace" => script.staged = "whole"

UpdateInv ==
  /\ UpdateSound
  /\ \A v \in 1 .. Len(releases) :
       releases[v].tarball \in 0 .. builds /\ releases[v].checksum \in 0 .. builds
  /\ \A u \in Updaters : ScriptInv(update[u])

(* What a release, a tarball or a checksum is.                               *)
LEMMA ReleasesOf ==
  ASSUME UpdateInv
  PROVE  /\ MaxReleases \in Nat \ {0} /\ MaxBuilds \in Nat \ {0}
         /\ builds \in 1 .. MaxBuilds /\ Len(releases) \in 1 .. MaxReleases
         /\ DOMAIN releases = 1 .. Len(releases)
         /\ \A v \in 1 .. Len(releases) : releases[v] \in ReleaseState
         /\ Made \subseteq Builds
         /\ update \in [Updaters -> ScriptState]
  <1>1. MaxReleases \in Nat \ {0} /\ MaxBuilds \in Nat \ {0}
    BY UpdateAssumption
  <1>2. /\ builds \in Builds /\ Len(releases) \in 1 .. MaxReleases
        /\ releases \in Seq(ReleaseState) /\ update \in [Updaters -> ScriptState]
        /\ target.build \in 1 .. builds
    BY DEF UpdateInv, UpdateSound, UpdateTypeOK, InstalledWhole
  <1>3. builds \in 1 .. MaxBuilds
    BY <1>1, <1>2 DEF Builds
  <1>4. Made \subseteq Builds
    BY <1>1, <1>3 DEF Made, Builds
  <1> QED
    BY <1>1, <1>2, <1>3, <1>4, LenProperties, ElementOfSeq

LEMMA UpdateInitInv == UpdateInit => UpdateInv
  <1> SUFFICES ASSUME UpdateInit PROVE UpdateInv
    OBVIOUS
  <1>1. MaxReleases \in Nat \ {0} /\ MaxBuilds \in Nat \ {0}
    BY UpdateAssumption
  <1>2. 0 \in Builds /\ 1 \in Builds /\ 1 \in 1 .. MaxReleases /\ 0 \in 0 .. MaxReleases
    BY <1>1 DEF Builds
  <1> DEFINE first == [tarball |-> 1, checksum |-> 1]
             script == [pc |-> "idle", checkOnly |-> FALSE, current |-> 1, version |-> 0,
                        tarball |-> 0, checksum |-> 0, staged |-> "none", exit |-> "none"]
  <1>3. first \in ReleaseState /\ first.tarball = 1 /\ first.checksum = 1
    BY <1>2 DEF ReleaseState
  <1>4. script \in ScriptState /\ script.pc = "idle"
    BY <1>2 DEF ScriptState
  <1> HIDE DEF first, script
  <1>5. releases = <<first>> /\ builds = 1 /\ update = [u \in Updaters |-> script]
        /\ target = [version |-> 1, build |-> 1, whole |-> TRUE]
    BY DEF UpdateInit, first, script
  <1>6. releases \in Seq(ReleaseState) /\ Len(releases) = 1 /\ releases[1] = first
    BY <1>3, <1>5
  <1>7. UpdateTypeOK
    BY <1>2, <1>4, <1>5, <1>6 DEF UpdateTypeOK
  <1> QED
    BY <1>3, <1>4, <1>5, <1>6, <1>7 DEF UpdateInv, UpdateSound, InstalledWhole, ScriptInv

(* A step of one script, which leaves the releases alone.                    *)
LEMMA ScriptStep ==
  ASSUME UpdateInv, NEW u \in Updaters, NEW script \in ScriptState, ScriptInv(script),
         update' = [update EXCEPT ![u] = script], UNCHANGED <<releases, builds, target>>
  PROVE  UpdateInv'
  <1>1. \A v \in Updaters : update'[v] = IF v = u THEN script ELSE update[v]
    BY ReleasesOf
  <1>2. UpdateTypeOK'
    BY DEF UpdateInv, UpdateSound, UpdateTypeOK
  <1> QED
    BY <1>1, <1>2 DEF UpdateInv, UpdateSound, InstalledWhole, ScriptInv, Made

(* The end of a script, of whatever status.                                  *)
LEMMA ScriptEnd ==
  ASSUME UpdateInv, NEW u \in Updaters, NEW status \in {"0", "1", "3"}
  PROVE  \E script \in ScriptState :
           /\ ScriptInv(script)
           /\ ScriptEnds(u, status) => update' = [update EXCEPT ![u] = script]
  <1> DEFINE s == update[u]
             exit == IF status = "3" /\ ~update[u].checkOnly THEN "1" ELSE status
             script == [s EXCEPT !.pc = "exited", !.exit = exit]
  <1>1. s \in ScriptState /\ exit \in {"0", "1", "3"}
    BY ReleasesOf
  <1>2. ScriptEnds(u, status) => update' = [update EXCEPT ![u] = script]
    BY DEF ScriptEnds
  <1> HIDE DEF exit
  <1>3. script \in ScriptState /\ script.pc = "exited"
    BY <1>1 DEF ScriptState
  <1> HIDE DEF script
  <1>4. ScriptInv(script)
    BY <1>3 DEF ScriptInv
  <1> QED
    BY <1>2, <1>3, <1>4

(* A release that is made again keeps its place.                             *)
LEMMA ReleaseChanged ==
  ASSUME UpdateInv, NEW v \in DOMAIN releases, NEW r \in ReleaseState,
         builds' \in builds .. MaxBuilds,
         r.tarball \in 0 .. builds', r.checksum \in 0 .. builds',
         releases' = [releases EXCEPT ![v] = r], UNCHANGED <<target, update>>
  PROVE  UpdateInv'
  <1>1. releases \in Seq(ReleaseState)
    BY DEF UpdateInv, UpdateSound, UpdateTypeOK
  <1>2. /\ releases' \in Seq(ReleaseState) /\ Len(releases') = Len(releases)
        /\ \A w \in 1 .. Len(releases) : releases'[w] = IF w = v THEN r ELSE releases[w]
    BY <1>1, ReleasesOf, ExceptSeq
  <1>3. builds' \in 1 .. MaxBuilds /\ builds <= builds' /\ builds' \in Builds
    BY ReleasesOf DEF Builds
  <1>4. \A w \in 1 .. Len(releases') :
          releases'[w].tarball \in 0 .. builds' /\ releases'[w].checksum \in 0 .. builds'
    BY <1>2, <1>3, ReleasesOf DEF UpdateInv
  <1>5. \A u \in Updaters : ScriptInv(update[u])'
    <2>1. 1 .. builds \subseteq 1 .. builds'
      BY <1>3, ReleasesOf
    <2> QED
      BY <1>2, <2>1, ReleasesOf DEF UpdateInv, ScriptInv, Made
  <1>6. InstalledWhole'
    BY <1>3, ReleasesOf DEF UpdateInv, UpdateSound, InstalledWhole
  <1>7. UpdateTypeOK'
    BY <1>2, <1>3, ReleasesOf DEF UpdateInv, UpdateSound, UpdateTypeOK
  <1> QED
    BY <1>4, <1>5, <1>6, <1>7 DEF UpdateInv, UpdateSound

LEMMA UpdateStep == UpdateInv /\ [UpdateNext]_updateVars => UpdateInv'
  <1> SUFFICES ASSUME UpdateInv, [UpdateNext]_updateVars PROVE UpdateInv'
    OBVIOUS
  <1>a. releases \in Seq(ReleaseState)
    BY DEF UpdateInv, UpdateSound, UpdateTypeOK
  <1>1. CASE Release
    <2> DEFINE r == [tarball |-> 0, checksum |-> 0]
    <2>1. r \in ReleaseState /\ r.tarball = 0 /\ r.checksum = 0
      BY ReleasesOf DEF ReleaseState, Builds
    <2> HIDE DEF r
    <2>2. releases' = Append(releases, r) /\ Len(releases) < MaxReleases
          /\ UNCHANGED <<builds, target, update>>
      BY <1>1 DEF Release, r
    <2>3. /\ releases' \in Seq(ReleaseState) /\ Len(releases') = Len(releases) + 1
          /\ \A w \in 1 .. Len(releases) : releases'[w] = releases[w]
          /\ releases'[Len(releases) + 1] = r
      BY <1>a, <2>1, <2>2, AppendProperties, ReleasesOf
    <2>4. \A w \in 1 .. Len(releases') :
            releases'[w].tarball \in 0 .. builds' /\ releases'[w].checksum \in 0 .. builds'
      <3>1. \A w \in 1 .. Len(releases') : w \in 1 .. Len(releases) \/ w = Len(releases) + 1
        BY <2>3, ReleasesOf
      <3>2. 0 \in 0 .. builds
        BY ReleasesOf
      <3> QED
        BY <2>1, <2>2, <2>3, <3>1, <3>2 DEF UpdateInv
    <2>5. Len(releases') \in 1 .. MaxReleases /\ 1 .. Len(releases) \subseteq 1 .. Len(releases')
      BY <2>2, <2>3, ReleasesOf
    <2>6. \A u \in Updaters : ScriptInv(update[u])'
      BY <2>2, <2>5 DEF UpdateInv, ScriptInv, Made
    <2> QED
      BY <2>2, <2>3, <2>4, <2>5, <2>6 DEF UpdateInv, UpdateSound, InstalledWhole, UpdateTypeOK
  <1>2. CASE UploadTarball
    <2>1. PICK v \in DOMAIN releases : releases' = [releases EXCEPT ![v].tarball = builds + 1]
      BY <1>2 DEF UploadTarball
    <2> DEFINE q == releases[v]
               r == [q EXCEPT !.tarball = builds + 1]
    <2>2. /\ q \in ReleaseState /\ q.checksum \in 0 .. builds
          /\ builds < MaxBuilds /\ builds' = builds + 1 /\ UNCHANGED <<target, update>>
      BY <1>2, ReleasesOf DEF UploadTarball, UpdateInv
    <2>3. builds + 1 \in Builds /\ builds + 1 \in builds .. MaxBuilds
      BY <2>2, ReleasesOf DEF Builds
    <2>4. r \in ReleaseState /\ r.tarball = builds + 1 /\ r.checksum = q.checksum
      BY <2>2, <2>3 DEF ReleaseState
    <2>5. releases' = [releases EXCEPT ![v] = r]
      BY <2>1
    <2> HIDE DEF q, r
    <2>6. r.tarball \in 0 .. builds' /\ r.checksum \in 0 .. builds'
      BY <2>2, <2>4, ReleasesOf
    <2> QED
      BY <2>2, <2>3, <2>4, <2>5, <2>6, ReleaseChanged
  <1>3. CASE UploadChecksum
    <2>1. PICK v \in DOMAIN releases :
            releases' = [releases EXCEPT ![v].checksum = releases[v].tarball]
      BY <1>3 DEF UploadChecksum
    <2> DEFINE q == releases[v]
               r == [q EXCEPT !.checksum = q.tarball]
    <2>2. /\ q \in ReleaseState /\ q.tarball \in 0 .. builds
          /\ UNCHANGED <<builds, target, update>>
      BY <1>3, ReleasesOf DEF UploadChecksum, UpdateInv
    <2>3. r \in ReleaseState /\ r.tarball = q.tarball /\ r.checksum = q.tarball
      BY <2>2 DEF ReleaseState
    <2>4. releases' = [releases EXCEPT ![v] = r]
      BY <2>1
    <2> HIDE DEF q, r
    <2>5. builds' \in builds .. MaxBuilds
      BY <2>2, ReleasesOf
    <2> QED
      BY <2>2, <2>3, <2>4, <2>5, ReleaseChanged
  <1>4. ASSUME NEW u \in Updaters, RunScript(u) PROVE UpdateInv'
    <2>1. PICK checkOnly \in BOOLEAN :
            update' = [update EXCEPT ![u].pc = "resolve", ![u].checkOnly = checkOnly,
                                     ![u].current = target.version]
      BY <1>4 DEF RunScript
    <2> DEFINE s == update[u]
               script == [s EXCEPT !.pc = "resolve", !.checkOnly = checkOnly,
                                   !.current = target.version]
    <2>2. s \in ScriptState /\ target.version \in 1 .. MaxReleases
      BY ReleasesOf DEF UpdateInv, UpdateSound, UpdateTypeOK
    <2>3. script \in ScriptState /\ script.pc = "resolve"
      BY <2>2 DEF ScriptState
    <2>4. update' = [update EXCEPT ![u] = script] /\ UNCHANGED <<releases, builds, target>>
      BY <1>4, <2>1 DEF RunScript
    <2> HIDE DEF script
    <2>5. ScriptInv(script)
      BY <2>3 DEF ScriptInv
    <2> QED
      BY <2>3, <2>4, <2>5, ScriptStep
  <1>5. ASSUME NEW u \in Updaters, NEW status \in {"0", "1", "3"}, ScriptEnds(u, status),
               UNCHANGED <<releases, builds, target>>
        PROVE  UpdateInv'
    BY <1>5, ScriptEnd, ScriptStep
  <1>6. ASSUME NEW u \in Updaters, ResolveLatest(u) PROVE UpdateInv'
    <2>1. CASE update' = [update EXCEPT ![u].pc = "tarball", ![u].version = Len(releases)]
      <3> DEFINE s == update[u]
                 script == [s EXCEPT !.pc = "tarball", !.version = Len(releases)]
      <3>1. /\ s \in ScriptState /\ Len(releases) \in 0 .. MaxReleases
            /\ Len(releases) \in 1 .. Len(releases)
        BY ReleasesOf
      <3>2. script \in ScriptState /\ script.pc = "tarball" /\ script.version = Len(releases)
        BY <3>1 DEF ScriptState
      <3>3. update' = [update EXCEPT ![u] = script] /\ UNCHANGED <<releases, builds, target>>
        BY <1>6, <2>1 DEF ResolveLatest
      <3> HIDE DEF script
      <3>4. ScriptInv(script)
        BY <3>1, <3>2 DEF ScriptInv
      <3> QED
        BY <3>2, <3>3, <3>4, ScriptStep
    <2> QED
      BY <1>5, <1>6, <2>1 DEF ResolveLatest
  <1>7. ASSUME NEW u \in Updaters, CheckOnly(u) PROVE UpdateInv'
    <2>1. PICK status \in {"0", "3"} : ScriptEnds(u, status)
      BY <1>7 DEF CheckOnly
    <2> QED
      BY <1>5, <1>7, <2>1 DEF CheckOnly
  <1>8. ASSUME NEW u \in Updaters, Fetch(u, "tarball", "checksum") PROVE UpdateInv'
    <2>1. CASE ScriptEnds(u, "1")
      BY <1>5, <1>8, <2>1 DEF Fetch
    <2>2. CASE \E got \in {releases[update[u].version].tarball, Garbled} \ {0} :
                 update' = [update EXCEPT ![u].pc = "checksum", ![u].tarball = got]
      <3> DEFINE s == update[u]
                 v == s.version
      <3>1. PICK got \in {releases[v].tarball, Garbled} \ {0} :
                 update' = [update EXCEPT ![u].pc = "checksum", ![u].tarball = got]
        BY <2>2
      <3>2. s \in ScriptState /\ s.pc = "tarball" /\ ScriptInv(s)
        BY <1>8, ReleasesOf DEF Fetch, UpdateInv
      <3>3. v \in 1 .. Len(releases) /\ releases[v].tarball \in 0 .. builds
        BY <3>2 DEF ScriptInv, UpdateInv
      <3>4. got \in Made \cup {Garbled} /\ got \in Builds \cup {Garbled}
        <4> DEFINE x == releases[v].tarball
        <4>1. x \in 0 .. builds
          BY <3>3
        <4> HIDE DEF x
        <4>2. x = 0 \/ x \in Made
          BY <4>1, ReleasesOf DEF Made
        <4> QED
          BY <3>1, <4>2, ReleasesOf DEF x
      <3> DEFINE script == [s EXCEPT !.pc = "checksum", !.tarball = got]
      <3>5. /\ script \in ScriptState /\ script.pc = "checksum" /\ script.tarball = got
            /\ script.version = v
        BY <3>2, <3>4 DEF ScriptState
      <3>6. update' = [update EXCEPT ![u] = script] /\ UNCHANGED <<releases, builds, target>>
        BY <1>8, <3>1 DEF Fetch
      <3> HIDE DEF script
      <3>7. ScriptInv(script)
        BY <3>3, <3>4, <3>5 DEF ScriptInv
      <3> QED
        BY <3>5, <3>6, <3>7, ScriptStep
    <2> QED
      BY <1>8, <2>1, <2>2 DEF Fetch
  <1>9. ASSUME NEW u \in Updaters, Fetch(u, "checksum", "verify") PROVE UpdateInv'
    <2>1. CASE ScriptEnds(u, "1")
      BY <1>5, <1>9, <2>1 DEF Fetch
    <2>2. CASE \E got \in {releases[update[u].version].checksum, Garbled} \ {0} :
                 update' = [update EXCEPT ![u].pc = "verify", ![u].checksum = got]
      <3> DEFINE s == update[u]
                 v == s.version
      <3>1. PICK got \in {releases[v].checksum, Garbled} \ {0} :
                 update' = [update EXCEPT ![u].pc = "verify", ![u].checksum = got]
        BY <2>2
      <3>2. s \in ScriptState /\ s.pc = "checksum" /\ ScriptInv(s)
        BY <1>9, ReleasesOf DEF Fetch, UpdateInv
      <3>3. v \in 1 .. Len(releases) /\ releases[v] \in ReleaseState
        BY <3>2, ReleasesOf DEF ScriptInv
      <3>4. got \in Builds \cup {Garbled}
        BY <3>1, <3>3 DEF ReleaseState
      <3> DEFINE script == [s EXCEPT !.pc = "verify", !.checksum = got]
      <3>5. /\ script \in ScriptState /\ script.pc = "verify" /\ script.tarball = s.tarball
            /\ script.version = v
        BY <3>2, <3>4 DEF ScriptState
      <3>6. update' = [update EXCEPT ![u] = script] /\ UNCHANGED <<releases, builds, target>>
        BY <1>9, <3>1 DEF Fetch
      <3> HIDE DEF script
      <3>7. ScriptInv(script)
        BY <3>2, <3>3, <3>5 DEF ScriptInv
      <3> QED
        BY <3>5, <3>6, <3>7, ScriptStep
    <2> QED
      BY <1>9, <2>1, <2>2 DEF Fetch
  <1>10. ASSUME NEW u \in Updaters, Verify(u) PROVE UpdateInv'
    <2>1. CASE update[u].tarball # Garbled /\ update' = [update EXCEPT ![u].pc = "stage"]
      <3> DEFINE s == update[u]
                 script == [s EXCEPT !.pc = "stage"]
      <3>1. s \in ScriptState /\ s.pc = "verify" /\ ScriptInv(s)
        BY <1>10, ReleasesOf DEF Verify, UpdateInv
      <3>2. /\ script \in ScriptState /\ script.pc = "stage" /\ script.tarball = s.tarball
            /\ script.version = s.version
        BY <3>1 DEF ScriptState
      <3>3. update' = [update EXCEPT ![u] = script] /\ UNCHANGED <<releases, builds, target>>
        BY <1>10, <2>1 DEF Verify
      <3> HIDE DEF script
      <3>4. ScriptInv(script)
        BY <2>1, <3>1, <3>2 DEF ScriptInv
      <3> QED
        BY <3>2, <3>3, <3>4, ScriptStep
    <2> QED
      BY <1>5, <1>10, <2>1 DEF Verify
  <1>11. ASSUME NEW u \in Updaters, Stage(u) PROVE UpdateInv'
    <2> DEFINE s == update[u]
               script == [s EXCEPT !.staged = IF s.staged = "none" THEN "part" ELSE "whole",
                                   !.pc = IF s.staged = "none" THEN s.pc ELSE "replace"]
    <2>1. s \in ScriptState /\ s.pc = "stage" /\ ScriptInv(s)
      BY <1>11, ReleasesOf DEF Stage, UpdateInv
    <2>2. /\ script \in ScriptState /\ script.tarball = s.tarball /\ script.version = s.version
          /\ script.pc \in {"stage", "replace"}
          /\ script.pc = "replace" => script.staged = "whole"
      BY <2>1 DEF ScriptState
    <2>3. UNCHANGED <<releases, builds, target>>
          /\ (update' = [update EXCEPT ![u] = script] \/ ScriptEnds(u, "1"))
      BY <1>11 DEF Stage
    <2> HIDE DEF script
    <2>4. ScriptInv(script)
      BY <2>1, <2>2 DEF ScriptInv
    <2> QED
      BY <1>5, <2>2, <2>3, <2>4, ScriptStep
  <1>12. ASSUME NEW u \in Updaters, Replace(u) PROVE UpdateInv'
    <2> DEFINE s == update[u]
    <2>1. s \in ScriptState /\ s.pc = "replace" /\ ScriptInv(s)
      BY <1>12, ReleasesOf DEF Replace, UpdateInv
    <2>2. /\ target' = [version |-> s.version, build |-> s.tarball, whole |-> s.staged = "whole"]
          /\ ScriptEnds(u, "0") /\ UNCHANGED <<releases, builds>>
      BY <1>12 DEF Replace
    <2>3. s.version \in 1 .. Len(releases) /\ s.tarball \in Made /\ s.staged = "whole"
      BY <2>1 DEF ScriptInv
    <2>4. s.version \in 1 .. MaxReleases /\ s.tarball \in Builds \cup {Garbled}
      BY <2>3, ReleasesOf
    <2>5. PICK script \in ScriptState :
            ScriptInv(script) /\ update' = [update EXCEPT ![u] = script]
      BY <2>2, ScriptEnd
    <2>6. \A v \in Updaters : update'[v] = IF v = u THEN script ELSE update[v]
      BY <2>5, ReleasesOf
    <2>7. /\ target'.build \in Made /\ target'.whole
          /\ target' \in [version : 1 .. MaxReleases, build : Builds \cup {Garbled}, whole : BOOLEAN]
      BY <2>2, <2>3, <2>4
    <2> HIDE DEF s
    <2>8. \A v \in Updaters : ScriptInv(update[v])'
      BY <2>2, <2>5, <2>6 DEF UpdateInv, ScriptInv, Made
    <2>9. update' \in [Updaters -> ScriptState]
      BY <2>5, ReleasesOf
    <2> QED
      BY <2>2, <2>7, <2>8, <2>9 DEF UpdateInv, UpdateSound, InstalledWhole, UpdateTypeOK, Made
  <1>13. ASSUME NEW u \in Updaters, KillScript(u) PROVE UpdateInv'
    <2> DEFINE s == update[u]
               script == [s EXCEPT !.pc = "exited", !.exit = "1"]
    <2>1. s \in ScriptState
      BY ReleasesOf
    <2>2. script \in ScriptState /\ script.pc = "exited"
      BY <2>1 DEF ScriptState
    <2>3. update' = [update EXCEPT ![u] = script] /\ UNCHANGED <<releases, builds, target>>
      BY <1>13 DEF KillScript
    <2> HIDE DEF script
    <2>4. ScriptInv(script)
      BY <2>2 DEF ScriptInv
    <2> QED
      BY <2>2, <2>3, <2>4, ScriptStep
  <1>14. CASE UNCHANGED updateVars
    BY <1>14 DEF updateVars, UpdateInv, UpdateSound, InstalledWhole, UpdateTypeOK, ScriptInv, Made
  <1> QED
    BY <1>1, <1>2, <1>3, <1>4, <1>6, <1>7, <1>8, <1>9, <1>10, <1>11, <1>12, <1>13, <1>14
    DEF UpdateNext

(* What is installed is whole, and a build that was made and whose checksum   *)
(* was there, for any number of updaters, releases made and made again while   *)
(* they are fetched, garbled downloads and kills.                           *)
THEOREM UpdateIsSound == UpdateSpec => []UpdateSound
  BY UpdateInitInv, UpdateStep, PTL DEF UpdateSpec, UpdateInv

-----------------------------------------------------------------------------
(* Sequences of sequences, flattened.                                        *)
(* A set of numbers has a least one.                                         *)
LEMMA LeastOf ==
  ASSUME NEW S \in SUBSET Nat, S # {}
  PROVE  \E i \in S : \A j \in S : i <= j
  <1> DEFINE R == {s \in Nat \X Nat : s[1] < s[2]}
  <1>1. OpToRel(<, Nat) = R
    BY DEF OpToRel
  <1>2. IsWellFoundedOn(R, Nat)
    BY <1>1, NatLessThanWellFounded, Zenon
  <1>3. PICK i \in S : \A j \in S : ~ (<<j, i>> \in R)
    <2> HIDE DEF R
    <2> QED
      BY <1>2, WFMin, Zenon
  <1>4. \A j \in S : i <= j
    <2> SUFFICES ASSUME NEW j \in S PROVE i <= j
      OBVIOUS
    <2>1. i \in Nat /\ j \in Nat /\ ~ (j < i)
      BY <1>3
    <2> QED
      BY <2>1
  <1> QED
    BY <1>4

(* Flattening a sequence joins its pieces one after the other.               *)
Glued(x, y) == x \o y

Joins(f, s) == f = [i \in 1 .. Len(s) |-> IF i = 1 THEN s[i] ELSE Glued(f[i - 1], s[i])]

LEMMA JoinExists ==
  ASSUME NEW S, NEW s \in Seq(Seq(S)), Len(s) # 0
  PROVE  \E f : Joins(f, s)
  <1> DEFINE n == Len(s)
             Leads(f, k) == f = [i \in 1 .. k |-> IF i = 1 THEN s[i] ELSE Glued(f[i - 1], s[i])]
             Wrong == {k \in 1 .. n : ~ \E f : Leads(f, k)}
  <1>0. n \in Nat /\ n >= 1
    BY LenProperties
  <1> HIDE DEF n
  <1>1. 1 \notin Wrong
    <2> DEFINE g == [i \in 1 .. 1 |-> s[i]]
    <2>1. Leads(g, 1)
      OBVIOUS
    <2> QED
      BY <2>1
  <1>2. ASSUME NEW k \in Nat, k >= 1, k + 1 <= n, k \notin Wrong
        PROVE  k + 1 \notin Wrong
    <2>1. PICK f : Leads(f, k)
      <3>1. k \in 1 .. n
        BY <1>0, <1>2
      <3> HIDE DEF Leads
      <3> QED
        BY <1>2, <3>1
    <2> DEFINE g == [i \in 1 .. k + 1 |-> IF i <= k THEN f[i] ELSE Glued(f[k], s[k + 1])]
    <2>2. f = [i \in 1 .. k |-> IF i = 1 THEN s[i] ELSE Glued(f[i - 1], s[i])]
      BY <2>1
    <2>3. ASSUME NEW i \in 1 .. k + 1
          PROVE  g[i] = (IF i = 1 THEN s[i] ELSE Glued(g[i - 1], s[i]))
      <3>1. CASE i <= k
        <4>1. i \in 1 .. k
          BY <1>2, <3>1
        <4>2. g[i] = f[i] /\ (i # 1 => g[i - 1] = f[i - 1])
          BY <1>2, <4>1
        <4>3. f[i] = IF i = 1 THEN s[i] ELSE Glued(f[i - 1], s[i])
          BY <2>2, <4>1
        <4> HIDE DEF g
        <4> QED
          BY <4>2, <4>3
      <3>2. CASE i = k + 1
        <4>1. g[i] = Glued(f[k], s[i]) /\ g[i - 1] = f[k] /\ i # 1
          BY <1>2, <3>2
        <4> HIDE DEF g
        <4> QED
          BY <4>1
      <3> QED
        BY <1>2, <3>1, <3>2
    <2>4. g = [i \in 1 .. k + 1 |-> IF i = 1 THEN s[i] ELSE Glued(g[i - 1], s[i])]
      <3>1. g = [i \in 1 .. k + 1 |-> g[i]]
        OBVIOUS
      <3> HIDE DEF g
      <3> QED
        BY <2>3, <3>1
    <2> QED
      BY <2>4
  <1>3. Wrong = {}
    <2> SUFFICES ASSUME Wrong # {} PROVE FALSE
      OBVIOUS
    <2>1. Wrong \in SUBSET Nat
      <3> HIDE DEF Leads
      <3> QED
        BY <1>0
    <2>2. PICK k \in Wrong : \A j \in Wrong : k <= j
      <3> HIDE DEF Wrong
      <3> QED
        BY <2>1, LeastOf
    <2>3. k \in 1 .. n /\ k # 1
      BY <1>1, <2>2
    <2>4. k - 1 \in Nat /\ k - 1 >= 1 /\ k - 1 + 1 = k /\ k - 1 + 1 <= n /\ ~ (k <= k - 1)
      BY <1>0, <2>3
    <2>5. k - 1 \notin Wrong
      BY <2>2, <2>4
    <2> HIDE DEF Wrong
    <2> QED
      BY <1>2, <2>2, <2>4, <2>5
  <1>4. n \in 1 .. n
    BY <1>0
  <1>5. \E f : Leads(f, n)
    <2> HIDE DEF Leads
    <2> QED
      BY <1>3, <1>4
  <1> QED
    BY <1>5 DEF Joins, n

LEMMA FlattenJoins ==
  ASSUME NEW S, NEW s \in Seq(Seq(S)), Len(s) # 0
  PROVE  \E f : Joins(f, s) /\ FlattenSeq(s) = f[Len(s)]
  <1> DEFINE chosen == CHOOSE f : f = [i \in 1 .. Len(s) |-> IF i = 1 THEN s[i] ELSE f[i - 1] \o s[i]]
  <1>1. Joins(chosen, s)
    BY JoinExists DEF Joins, Glued
  <1>2. FlattenSeq(s) = chosen[Len(s)]
    BY DEF FlattenSeq
  <1> HIDE DEF chosen
  <1> QED
    BY <1>1, <1>2

(* Whatever holds of the first piece, and of what a piece is joined to, holds of *)
(* all that is joined.                                                      *)
LEMMA JoinedAre ==
  ASSUME NEW S, NEW s \in Seq(Seq(S)), NEW f, Joins(f, s), NEW X,
         1 \in DOMAIN s => f[1] \in X[1],
         \A i \in 2 .. Len(s) : f[i - 1] \in X[i - 1] => f[i - 1] \o s[i] \in X[i]
  PROVE  \A i \in 1 .. Len(s) : f[i] \in X[i]
  <1> DEFINE Wrong == {i \in 1 .. Len(s) : f[i] \notin X[i]}
  <1>0. Len(s) \in Nat /\ DOMAIN s = 1 .. Len(s)
    BY LenProperties
  <1> SUFFICES ASSUME Wrong # {} PROVE FALSE
    OBVIOUS
  <1>1. PICK k \in Wrong : \A j \in Wrong : k <= j
    <2>1. Wrong \in SUBSET Nat
      BY <1>0
    <2> HIDE DEF Wrong
    <2> QED
      BY <2>1, LeastOf
  <1>2. k \in 1 .. Len(s) /\ k # 1
    BY <1>0, <1>1
  <1>3. k - 1 \in 1 .. Len(s) /\ ~ (k <= k - 1) /\ k \in 2 .. Len(s)
    BY <1>0, <1>2
  <1>4. f[k - 1] \in X[k - 1]
    BY <1>1, <1>3
  <1>5. f[k] = f[k - 1] \o s[k]
    BY <1>2 DEF Joins, Glued
  <1> QED
    BY <1>1, <1>3, <1>4, <1>5

(* The same with nothing as its beginning.                                   *)
Pieced(F, s, S) ==
  /\ F \in [0 .. Len(s) -> Seq(S)] /\ F[0] = <<>>
  /\ \A i \in 1 .. Len(s) : F[i] = Glued(F[i - 1], s[i])

LEMMA GluedProperties ==
  ASSUME NEW S, NEW x \in Seq(S), NEW y \in Seq(S)
  PROVE  Glued(x, y) \in Seq(S) /\ Glued(<<>>, y) = y /\ Glued(x, <<>>) = x
  BY ConcatProperties, ConcatEmptySeq DEF Glued

LEMMA GluedAssociates ==
  ASSUME NEW S, NEW x \in Seq(S), NEW y \in Seq(S), NEW z \in Seq(S)
  PROVE  Glued(x, Glued(y, z)) = Glued(Glued(x, y), z)
  BY ConcatAssociative DEF Glued

LEMMA PiecedIs ==
  ASSUME NEW S, NEW s \in Seq(Seq(S))
  PROVE  \E F : Pieced(F, s, S) /\ F[Len(s)] = FlattenSeq(s)
  <1> DEFINE n == Len(s)
  <1>1. n \in Nat /\ DOMAIN s = 1 .. n /\ \A i \in 1 .. n : s[i] \in Seq(S)
    BY LenProperties, ElementOfSeq
  <1>e. <<>> \in Seq(S)
    OBVIOUS
  <1>2. CASE n = 0
    <2> DEFINE F == [i \in 0 .. 0 |-> <<>>]
    <2>1. s = <<>> /\ FlattenSeq(s) = <<>>
      BY <1>2, EmptySeq DEF FlattenSeq
    <2>2. Pieced(F, s, S) /\ F[n] = <<>>
      <3>1. 0 .. n = 0 .. 0 /\ 1 .. n = {}
        BY <1>2
      <3>2. F \in [0 .. n -> Seq(S)] /\ F[0] = <<>>
        BY <1>e, <3>1
      <3> HIDE DEF F
      <3> QED
        BY <1>2, <3>1, <3>2 DEF Pieced
    <2> QED
      BY <2>1, <2>2
  <1>3. CASE n # 0
    <2>1. PICK f : Joins(f, s) /\ FlattenSeq(s) = f[n]
      BY <1>3, FlattenJoins
    <2> DEFINE X == [i \in 1 .. n |-> Seq(S)]
               F == [i \in 0 .. n |-> IF i = 0 THEN <<>> ELSE f[i]]
    <2> HIDE DEF n
    <2>2. f = [i \in 1 .. n |-> IF i = 1 THEN s[i] ELSE Glued(f[i - 1], s[i])]
      BY <2>1 DEF Joins, n
    <2>3. f[1] = s[1] /\ \A i \in 2 .. n : f[i] = Glued(f[i - 1], s[i])
      <3>1. 1 \in 1 .. n /\ \A i \in 2 .. n : i \in 1 .. n /\ i # 1
        BY <1>1, <1>3
      <3> QED
        BY <2>2, <3>1
    <2>4. \A i \in 1 .. n : f[i] \in Seq(S)
      <3>1. f[1] \in X[1]
        BY <1>1, <1>3, <2>3
      <3>2. ASSUME NEW i \in 2 .. n, f[i - 1] \in X[i - 1] PROVE f[i - 1] \o s[i] \in X[i]
        <4>1. i \in 1 .. n /\ i - 1 \in 1 .. n
          BY <1>1
        <4>2. f[i - 1] \in Seq(S) /\ s[i] \in Seq(S)
          BY <1>1, <3>2, <4>1
        <4>3. f[i - 1] \o s[i] \in Seq(S)
          BY <4>2, ConcatProperties
        <4> QED
          BY <4>1, <4>3
      <3>3. \A i \in 1 .. n : f[i] \in X[i]
        <4> HIDE DEF X
        <4> QED
          BY <2>1, <3>1, <3>2, JoinedAre DEF n
      <3> QED
        BY <3>3
    <2>5. F \in [0 .. n -> Seq(S)] /\ F[0] = <<>>
      <3>1. 0 \in 0 .. n
        BY <1>1
      <3>2. ASSUME NEW i \in 0 .. n PROVE F[i] \in Seq(S)
        <4>1. i = 0 \/ i \in 1 .. n
          BY <1>1
        <4> QED
          BY <1>e, <2>4, <4>1
      <3> QED
        BY <3>1, <3>2
    <2>6. ASSUME NEW i \in 1 .. n PROVE F[i] = Glued(F[i - 1], s[i])
      <3>1. i \in 0 .. n /\ i - 1 \in 0 .. n /\ i # 0 /\ s[i] \in Seq(S)
        BY <1>1
      <3>2. F[i] = f[i]
        BY <3>1
      <3>3. CASE i = 1
        <4>1. F[i - 1] = <<>> /\ f[i] = s[i]
          BY <2>3, <3>1, <3>3
        <4> QED
          BY <3>1, <3>2, <4>1, <1>e, GluedProperties
      <3>4. CASE i # 1
        <4>1. i \in 2 .. n /\ i - 1 # 0
          BY <1>1, <3>4
        <4>2. F[i - 1] = f[i - 1]
          BY <3>1, <4>1
        <4> HIDE DEF F
        <4> QED
          BY <2>3, <3>2, <4>1, <4>2
      <3> QED
        BY <3>3, <3>4
    <2>7. F[n] = f[n]
      BY <1>1, <1>3
    <2> HIDE DEF F
    <2>8. Pieced(F, s, S)
      BY <2>5, <2>6 DEF Pieced, n
    <2> QED
      BY <2>1, <2>7, <2>8 DEF n
  <1> QED
    BY <1>2, <1>3

(* There is one way to join them.                                            *)
LEMMA PiecedAgree ==
  ASSUME NEW S, NEW T, NEW s \in Seq(Seq(S)), NEW t \in Seq(Seq(T)),
         NEW F, Pieced(F, s, S), NEW G, Pieced(G, t, T), Len(s) <= Len(t),
         \A i \in 1 .. Len(s) : s[i] = t[i]
  PROVE  F[Len(s)] = G[Len(s)]
  <1> DEFINE Wrong == {i \in 0 .. Len(s) : F[i] # G[i]}
  <1>0. Len(s) \in Nat /\ Len(t) \in Nat
    BY LenProperties
  <1>1. Wrong = {}
    <2> SUFFICES ASSUME Wrong # {} PROVE FALSE
      OBVIOUS
    <2>1. PICK k \in Wrong : \A j \in Wrong : k <= j
      <3>1. Wrong \in SUBSET Nat
        BY <1>0
      <3> HIDE DEF Wrong
      <3> QED
        BY <3>1, LeastOf
    <2>2. k \in 0 .. Len(s) /\ k # 0
      BY <2>1 DEF Pieced
    <2>3. k - 1 \in 0 .. Len(s) /\ ~ (k <= k - 1) /\ k \in 1 .. Len(s) /\ k \in 1 .. Len(t)
      BY <1>0, <2>2
    <2>4. F[k - 1] = G[k - 1]
      BY <2>1, <2>3
    <2>5. F[k] = Glued(F[k - 1], s[k]) /\ G[k] = Glued(G[k - 1], t[k])
      BY <2>3 DEF Pieced
    <2>6. F[k] # G[k]
      BY <2>1
    <2> QED
      BY <2>3, <2>4, <2>5, <2>6
  <1>2. Len(s) \in 0 .. Len(s)
    BY <1>0
  <1> QED
    BY <1>1, <1>2

LEMMA FlattenIs ==
  ASSUME NEW S, NEW s \in Seq(Seq(S)), NEW F, Pieced(F, s, S)
  PROVE  FlattenSeq(s) = F[Len(s)]
  <1>1. PICK G : Pieced(G, s, S) /\ G[Len(s)] = FlattenSeq(s)
    BY PiecedIs
  <1>2. Len(s) <= Len(s)
    BY LenProperties
  <1>3. F[Len(s)] = G[Len(s)]
    BY <1>1, <1>2, PiecedAgree
  <1> QED
    BY <1>1, <1>3

LEMMA FlattenType ==
  ASSUME NEW S, NEW s \in Seq(Seq(S))
  PROVE  FlattenSeq(s) \in Seq(S)
  <1>1. PICK F : Pieced(F, s, S) /\ F[Len(s)] = FlattenSeq(s)
    BY PiecedIs
  <1>2. Len(s) \in 0 .. Len(s)
    BY LenProperties
  <1> QED
    BY <1>1, <1>2 DEF Pieced

LEMMA FlattenEmpty == FlattenSeq(<<>>) = <<>>
  BY EmptySeq DEF FlattenSeq

(* What is flattened may be flattened in two.                                *)
LEMMA FlattenConcat ==
  ASSUME NEW S, NEW s \in Seq(Seq(S)), NEW t \in Seq(Seq(S))
  PROVE  FlattenSeq(s \o t) = FlattenSeq(s) \o FlattenSeq(t)
  <1> DEFINE m == Len(s)
             n == Len(t)
             all == s \o t
  <1>1. /\ m \in Nat /\ n \in Nat /\ all \in Seq(Seq(S)) /\ Len(all) = m + n
        /\ \A i \in 1 .. m + n : all[i] = IF i <= m THEN s[i] ELSE t[i - m]
    BY ConcatProperties, LenProperties
  <1>2. PICK F : Pieced(F, s, S) /\ F[m] = FlattenSeq(s)
    BY PiecedIs
  <1>3. PICK G : Pieced(G, t, S) /\ G[n] = FlattenSeq(t)
    BY PiecedIs
  <1> DEFINE H == [i \in 0 .. m + n |-> IF i <= m THEN F[i] ELSE Glued(F[m], G[i - m])]
  <1>4. /\ \A i \in 0 .. m : F[i] \in Seq(S)
        /\ \A i \in 1 .. m : F[i] = Glued(F[i - 1], s[i])
        /\ \A i \in 0 .. n : G[i] \in Seq(S)
        /\ \A i \in 1 .. n : G[i] = Glued(G[i - 1], t[i])
        /\ F[0] = <<>> /\ G[0] = <<>>
    BY <1>2, <1>3 DEF Pieced
  <1>5. \A i \in 1 .. n : t[i] \in Seq(S)
    BY LenProperties, ElementOfSeq
  <1> HIDE DEF m, n, all
  <1>6. m \in 0 .. m /\ F[m] \in Seq(S)
    BY <1>1, <1>4
  <1>7. ASSUME NEW i \in 0 .. m + n PROVE H[i] \in Seq(S)
    <2>1. CASE i <= m
      <3>1. i \in 0 .. m
        BY <1>1, <2>1
      <3> QED
        BY <1>4, <2>1, <3>1
    <2>2. CASE ~ (i <= m)
      <3> DEFINE j == i - m
      <3>1. j \in 0 .. n
        BY <1>1, <2>2
      <3>2. H[i] = Glued(F[m], G[j])
        BY <2>2
      <3> HIDE DEF j, H
      <3> QED
        BY <1>4, <1>6, <3>1, <3>2, GluedProperties
    <2> QED
      BY <2>1, <2>2
  <1>8. ASSUME NEW i \in 1 .. m + n PROVE H[i] = Glued(H[i - 1], all[i])
    <2>0. i \in 0 .. m + n /\ i - 1 \in 0 .. m + n /\ i \in Nat
      BY <1>1
    <2>1. CASE i <= m
      <3>1. i \in 1 .. m /\ i - 1 <= m
        BY <1>1, <2>0, <2>1
      <3>2. H[i] = F[i] /\ H[i - 1] = F[i - 1] /\ all[i] = s[i]
        BY <1>1, <2>0, <2>1, <3>1
      <3> HIDE DEF H
      <3> QED
        BY <1>4, <3>1, <3>2
    <2>2. CASE ~ (i <= m)
      <3> DEFINE j == i - m
                 k == i - 1
      <3>1. j \in 1 .. n /\ j - 1 \in 0 .. n /\ k - m = j - 1 /\ k \in 0 .. m + n
            /\ (k <= m => k = m /\ j - 1 = 0)
        BY <1>1, <2>0, <2>2
      <3>2. H[i] = Glued(F[m], G[j]) /\ all[i] = t[j]
        BY <1>1, <2>0, <2>2
      <3>3. H[k] = IF k <= m THEN F[k] ELSE Glued(F[m], G[k - m])
        BY <3>1
      <3> HIDE DEF j, k, H
      <3>4. H[k] = Glued(F[m], G[j - 1])
        <4>1. CASE k <= m
          <5>1. H[k] = F[m] /\ G[j - 1] = <<>>
            BY <1>4, <3>1, <3>3, <4>1
          <5>2. Glued(F[m], <<>>) = F[m]
            BY <1>6, GluedProperties
          <5> QED
            BY <5>1, <5>2
        <4>2. CASE ~ (k <= m)
          BY <3>1, <3>3, <4>2
        <4> QED
          BY <4>1, <4>2
      <3>5. G[j] = Glued(G[j - 1], t[j]) /\ G[j - 1] \in Seq(S) /\ t[j] \in Seq(S)
        BY <1>4, <1>5, <3>1
      <3>6. Glued(F[m], G[j]) = Glued(Glued(F[m], G[j - 1]), t[j])
        <4> DEFINE x == F[m]
                   y == G[j - 1]
                   z == t[j]
        <4>1. x \in Seq(S) /\ y \in Seq(S) /\ z \in Seq(S) /\ G[j] = Glued(y, z)
          BY <1>6, <3>5
        <4> HIDE DEF x, y, z
        <4>2. Glued(x, G[j]) = Glued(Glued(x, y), z)
          BY <4>1, GluedAssociates
        <4> QED
          BY <4>2 DEF x, y, z
      <3>7. H[i] = Glued(H[k], all[i])
        BY <3>2, <3>4, <3>6
      <3> QED
        BY <3>7 DEF k
    <2> QED
      BY <2>1, <2>2
  <1>9. H[0] = <<>>
    BY <1>1, <1>4
  <1>10. H[m + n] = Glued(F[m], G[n])
    <2>1. m + n \in 0 .. m + n /\ (m + n <= m => n = 0) /\ m + n - m = n
      BY <1>1
    <2>2. CASE n = 0
      <3>1. H[m + n] = F[m] /\ G[n] = <<>>
        BY <1>1, <1>4, <2>1, <2>2
      <3>2. Glued(F[m], <<>>) = F[m]
        BY <1>6, GluedProperties
      <3> QED
        BY <3>1, <3>2
    <2>3. CASE n # 0
      <3> DEFINE k == m + n
      <3>1. k \in 0 .. m + n /\ ~ (k <= m) /\ k - m = n
        BY <1>1, <2>3
      <3> HIDE DEF k
      <3>2. H[k] = Glued(F[m], G[n])
        BY <3>1
      <3> QED
        BY <3>2 DEF k
    <2> QED
      BY <2>2, <2>3
  <1>11. Pieced(H, all, S)
    <2>1. H \in [0 .. m + n -> Seq(S)]
      BY <1>7
    <2> HIDE DEF H
    <2> QED
      BY <1>1, <1>8, <1>9, <2>1 DEF Pieced
  <1> HIDE DEF H
  <1>12. FlattenSeq(all) = H[m + n]
    BY <1>1, <1>11, FlattenIs
  <1> QED
    BY <1>2, <1>3, <1>10, <1>12 DEF Glued, all

(* One more piece is joined to the end.                                      *)
LEMMA FlattenOne ==
  ASSUME NEW S, NEW piece \in Seq(S)
  PROVE  FlattenSeq(<<piece>>) = piece
  <1>1. <<piece>> \in Seq(Seq(S)) /\ Len(<<piece>>) = 1 /\ <<piece>>[1] = piece
    OBVIOUS
  <1> DEFINE s == <<piece>>
  <1>2. PICK f : Joins(f, s) /\ FlattenSeq(s) = f[1]
    <2> HIDE DEF s
    <2>1. Len(s) # 0 /\ s \in Seq(Seq(S)) /\ Len(s) = 1
      BY <1>1 DEF s
    <2> QED
      BY <2>1, FlattenJoins
  <1>3. f[1] = piece
    BY <1>1, <1>2 DEF Joins
  <1> QED
    BY <1>2, <1>3

LEMMA FlattenAppend ==
  ASSUME NEW S, NEW s \in Seq(Seq(S)), NEW piece \in Seq(S)
  PROVE  FlattenSeq(Append(s, piece)) = FlattenSeq(s) \o piece
  <1>1. <<piece>> \in Seq(Seq(S))
    OBVIOUS
  <1>2. Append(s, piece) = s \o <<piece>>
    BY AppendIsConcat
  <1>3. FlattenSeq(s \o <<piece>>) = FlattenSeq(s) \o FlattenSeq(<<piece>>)
    <2> DEFINE t == <<piece>>
    <2>1. t \in Seq(Seq(S))
      BY <1>1
    <2> HIDE DEF t
    <2>2. FlattenSeq(s \o t) = FlattenSeq(s) \o FlattenSeq(t)
      BY <2>1, FlattenConcat
    <2> QED
      BY <2>2 DEF t
  <1>4. FlattenSeq(<<piece>>) = piece
    BY FlattenOne
  <1> QED
    BY <1>2, <1>3, <1>4

-----------------------------------------------------------------------------
(* The log. The ring is the end of all that was pushed.                      *)
RingInv ==
  /\ Len(ring) = IF Len(pushed) < Capacity THEN Len(pushed) ELSE Capacity
  /\ \A i \in 1 .. Len(ring) : ring[i] = pushed[Len(pushed) - Len(ring) + i]

LogInv == LogTypeOK /\ RingInv

(* A buffer with an end of line has a first one.                             *)
LEMMA UntilIsFirst ==
  ASSUME NEW buffer \in Seq(STRING), Ends(buffer) # {}
  PROVE  /\ Until(buffer) \in 1 .. Len(buffer) /\ buffer[Until(buffer)] = "\n"
         /\ \A i \in 1 .. Until(buffer) - 1 : buffer[i] # "\n"
  <1>0. DOMAIN buffer = 1 .. Len(buffer) /\ Len(buffer) \in Nat
    BY LenProperties
  <1>1. Ends(buffer) \in SUBSET Nat
    BY <1>0 DEF Ends
  <1>2. PICK x \in Ends(buffer) : \A y \in Ends(buffer) : x <= y
    BY <1>1, LeastOf
  <1>3. Until(buffer) \in Ends(buffer) /\ \A y \in Ends(buffer) : Until(buffer) <= y
    BY <1>2 DEF Until
  <1>4. Until(buffer) \in 1 .. Len(buffer) /\ buffer[Until(buffer)] = "\n"
    BY <1>0, <1>3 DEF Ends
  <1>5. ASSUME NEW i \in 1 .. Until(buffer) - 1 PROVE buffer[i] # "\n"
    <2>1. i \in DOMAIN buffer /\ ~ (Until(buffer) <= i)
      BY <1>0, <1>4
    <2> QED
      BY <1>3, <2>1 DEF Ends
  <1> QED
    BY <1>4, <1>5

(* A line that is pushed is the last of both.                                *)
LEMMA PushKeeps ==
  ASSUME LogInv, NEW e \in LogEvents, NEW line \in Seq(STRING), PushLine(e, line)
  PROVE  ring' \in Seq(Line) /\ pushed' \in Seq(Line) /\ RingInv'
  <1>1. CASE line = <<>>
    BY <1>1 DEF LogInv, LogTypeOK, RingInv, PushLine
  <1>2. CASE line # <<>>
    <2> DEFINE new == [of |-> e, line |-> line]
               all == Append(ring, new)
               k == Len(ring)
               n == Len(pushed)
    <2>1. new \in Line
      BY DEF Line
    <2>2. ring' = (IF Len(all) > Capacity THEN Tail(all) ELSE all) /\ pushed' = Append(pushed, new)
      BY <1>2 DEF PushLine, Newest
    <2>3. Capacity \in Nat \ {0} /\ ring \in Seq(Line) /\ pushed \in Seq(Line)
      BY LogAssumption DEF LogInv, LogTypeOK
    <2> HIDE DEF new
    <2>4. /\ k \in Nat /\ n \in Nat /\ k = (IF n < Capacity THEN n ELSE Capacity)
          /\ \A i \in 1 .. k : ring[i] = pushed[n - k + i]
      BY <2>3, LenProperties DEF LogInv, RingInv
    <2>5. /\ all \in Seq(Line) /\ Len(all) = k + 1 /\ all # <<>>
          /\ \A i \in 1 .. k : all[i] = ring[i]
          /\ all[k + 1] = new
      BY <2>1, <2>3, AppendProperties
    <2>6. /\ pushed' \in Seq(Line) /\ Len(pushed') = n + 1
          /\ \A i \in 1 .. n : pushed'[i] = pushed[i]
          /\ pushed'[n + 1] = new
      BY <2>1, <2>2, <2>3, AppendProperties
    <2>7. /\ Tail(all) \in Seq(Line) /\ Len(Tail(all)) = k
          /\ \A i \in 1 .. k : Tail(all)[i] = all[i + 1]
      <3> HIDE DEF all
      <3>1. /\ Tail(all) \in Seq(Line) /\ Len(Tail(all)) = Len(all) - 1
            /\ \A i \in 1 .. Len(Tail(all)) : Tail(all)[i] = all[i + 1]
        BY <2>5, HeadTailProperties
      <3> QED
        BY <2>4, <2>5, <3>1
    <2> HIDE DEF all, k, n
    <2>8. CASE k + 1 > Capacity
      <3>1. ring' = Tail(all) /\ k = Capacity /\ Len(ring') = k /\ n >= Capacity
        BY <2>2, <2>3, <2>4, <2>5, <2>7, <2>8
      <3>2. ASSUME NEW i \in 1 .. k PROVE ring'[i] = pushed'[n + 1 - k + i]
        <4>1. ring'[i] = all[i + 1]
          BY <2>7, <3>1
        <4>2. CASE i = k
          <5>1. n + 1 - k + i = n + 1 /\ i + 1 = k + 1
            BY <2>4, <4>2
          <5> QED
            BY <2>5, <2>6, <4>1, <5>1
        <4>3. CASE i # k
          <5>0. i \in Nat /\ i < k /\ k <= n /\ k \in Nat /\ n \in Nat
            BY <2>3, <2>4, <3>1, <4>3
          <5>1. i + 1 \in 1 .. k /\ n - k + (i + 1) = n + 1 - k + i /\ n + 1 - k + i \in 1 .. n
            BY <5>0
          <5>2. all[i + 1] = ring[i + 1] /\ ring[i + 1] = pushed[n - k + (i + 1)]
            BY <2>4, <2>5, <5>1
          <5> QED
            BY <2>6, <4>1, <5>1, <5>2
        <4> QED
          BY <4>2, <4>3
      <3>3. Len(ring') = IF Len(pushed') < Capacity THEN Len(pushed') ELSE Capacity
        BY <2>3, <2>4, <2>6, <3>1
      <3>4. \A i \in 1 .. Len(ring') : ring'[i] = pushed'[Len(pushed') - Len(ring') + i]
        <4>1. Len(pushed') = n + 1 /\ Len(ring') = k
          BY <2>6, <3>1
        <4> SUFFICES ASSUME NEW i \in 1 .. k PROVE ring'[i] = pushed'[Len(pushed') - Len(ring') + i]
          BY <4>1
        <4>2. Len(pushed') - Len(ring') + i = n + 1 - k + i
          <5>1. n \in Nat /\ k \in Nat
            BY <2>4
          <5> QED
            BY <4>1, <5>1
        <4>3. ring'[i] = pushed'[n + 1 - k + i]
          BY <3>2
        <4> QED
          BY <4>2, <4>3
      <3>5. ring' \in Seq(Line)
        BY <2>7, <3>1
      <3> QED
        BY <2>6, <3>3, <3>4, <3>5 DEF RingInv
    <2>9. CASE ~ (k + 1 > Capacity)
      <3>1. ring' = all /\ k = n /\ Len(ring') = k + 1
        BY <2>2, <2>3, <2>4, <2>5, <2>9
      <3>2. ASSUME NEW i \in 1 .. k + 1 PROVE ring'[i] = pushed'[i]
        <4>1. CASE i = k + 1
          BY <2>5, <2>6, <3>1, <4>1
        <4>2. CASE i # k + 1
          <5>1. i \in 1 .. k /\ n - k + i = i
            BY <2>4, <3>1, <4>2
          <5> QED
            BY <2>4, <2>5, <2>6, <3>1, <5>1
        <4> QED
          BY <4>1, <4>2
      <3>3. \A i \in 1 .. k + 1 : Len(pushed') - Len(ring') + i = i
        BY <2>4, <2>6, <3>1
      <3>4. Len(ring') = IF Len(pushed') < Capacity THEN Len(pushed') ELSE Capacity
        BY <2>3, <2>4, <2>6, <2>9, <3>1
      <3> QED
        BY <2>5, <2>6, <3>1, <3>2, <3>3, <3>4 DEF RingInv
    <2> QED
      BY <2>8, <2>9
  <1> QED
    BY <1>1, <1>2

LEMMA LogStep == LogInv /\ [LogNext]_logVars => LogInv'
  <1> SUFFICES ASSUME LogInv, [LogNext]_logVars PROVE LogInv'
    OBVIOUS
  <1>1. CASE UNCHANGED logVars
    BY <1>1 DEF logVars, LogInv, LogTypeOK, RingInv
  <1>2. ASSUME NEW e \in LogEvents, NEW w \in Writer, writer' = [writer EXCEPT ![e] = w],
               w.next \in 1 .. Len(w.text) + 1,
               \/ UNCHANGED <<ring, pushed>>
               \/ \E line \in Seq(STRING) : PushLine(e, line)
        PROVE  LogInv'
    <2>1. /\ writer' \in [LogEvents -> Writer]
          /\ \A d \in LogEvents : writer'[d].next \in 1 .. Len(writer'[d].text) + 1
      BY <1>2 DEF LogInv, LogTypeOK
    <2>2. CASE UNCHANGED <<ring, pushed>>
      <3>1. RingInv'
        BY <2>2 DEF LogInv, RingInv
      <3> QED
        BY <2>1, <2>2, <3>1 DEF LogInv, LogTypeOK
    <2>3. CASE \E line \in Seq(STRING) : PushLine(e, line)
      <3>1. ring' \in Seq(Line) /\ pushed' \in Seq(Line) /\ RingInv'
        BY <2>3, PushKeeps
      <3>2. LogTypeOK'
        BY <2>1, <3>1 DEF LogTypeOK
      <3> QED
        BY <3>1, <3>2 DEF LogInv
    <2> QED
      BY <1>2, <2>2, <2>3
  <1>3. ASSUME NEW e \in LogEvents PROVE writer[e] \in Writer /\ writer[e].next \in 1 .. Len(writer[e].text) + 1
    BY DEF LogInv, LogTypeOK
  <1>4. ASSUME NEW e \in LogEvents, Write(e) PROVE LogInv'
    <2> DEFINE q == writer[e]
               b == IF "bad" \in Range(q.text[q.next]) THEN q.buffer ELSE q.buffer \o q.text[q.next]
               w == [q EXCEPT !.next = @ + 1, !.buffer = b]
    <2>1. q \in Writer /\ q.next \in Nat \ {0} /\ q.next <= Len(q.text) /\ q.text \in Seq(Seq(STRING))
      BY <1>3, <1>4 DEF Write, Writer
    <2>2. q.text[q.next] \in Seq(STRING) /\ q.buffer \in Seq(STRING)
      <3>1. q.next \in 1 .. Len(q.text)
        BY <2>1, LenProperties
      <3> QED
        BY <2>1, <3>1, ElementOfSeq DEF Writer
    <2>3. b \in Seq(STRING)
      BY <2>2, ConcatProperties
    <2>4. writer' = [writer EXCEPT ![e] = w] /\ UNCHANGED <<ring, pushed>>
      BY <1>4 DEF Write
    <2> HIDE DEF q, b
    <2>5. w \in Writer /\ w.next = q.next + 1 /\ w.text = q.text
      <3>1. q.next + 1 \in Nat \ {0}
        BY <2>1
      <3> QED
        BY <2>1, <2>3, <3>1 DEF Writer
    <2> HIDE DEF w
    <2>6. w.next \in 1 .. Len(w.text) + 1
      BY <2>1, <2>5, LenProperties
    <2> QED
      BY <1>2, <2>4, <2>5, <2>6
  <1>5. ASSUME NEW e \in LogEvents, Split(e) PROVE LogInv'
    <2> DEFINE q == writer[e]
               b == SubSeq(q.buffer, Until(q.buffer) + 1, Len(q.buffer))
               w == [q EXCEPT !.buffer = b]
               line == SubSeq(q.buffer, 1, Until(q.buffer) - 1)
    <2>1. q \in Writer /\ q.next \in 1 .. Len(q.text) + 1 /\ q.buffer \in Seq(STRING)
      BY <1>3 DEF Writer
    <2>2. Until(q.buffer) \in 1 .. Len(q.buffer) /\ Len(q.buffer) \in Nat
      BY <1>5, <2>1, UntilIsFirst, LenProperties DEF Split
    <2>3. PushLine(e, line) /\ writer' = [writer EXCEPT ![e] = w]
      BY <1>5 DEF Split
    <2> HIDE DEF q
    <2>4. \A i \in 1 .. Len(q.buffer) : q.buffer[i] \in STRING
      BY <2>1, ElementOfSeq
    <2>5. b \in Seq(STRING) /\ line \in Seq(STRING)
      <3> DEFINE u == Until(q.buffer)
                 l == Len(q.buffer)
      <3>1. /\ u + 1 \in Int /\ l \in Int /\ 1 \in Int /\ u - 1 \in Int
            /\ \A i \in u + 1 .. l : q.buffer[i] \in STRING
            /\ \A i \in 1 .. u - 1 : q.buffer[i] \in STRING
        BY <2>2, <2>4
      <3> HIDE DEF u, l
      <3> QED
        BY <3>1, SubSeqProperties DEF u, l
    <2> HIDE DEF b, line
    <2>6. w \in Writer /\ w.next = q.next /\ w.text = q.text
      BY <2>1, <2>5 DEF Writer
    <2> HIDE DEF w
    <2> QED
      BY <1>2, <2>1, <2>3, <2>5, <2>6
  <1>6. ASSUME NEW e \in LogEvents, Flush(e) PROVE LogInv'
    <2> DEFINE q == writer[e]
               w == [q EXCEPT !.open = FALSE, !.buffer = <<>>]
    <2>1. q \in Writer /\ q.next \in 1 .. Len(q.text) + 1 /\ q.buffer \in Seq(STRING)
      BY <1>3 DEF Writer
    <2>2. PushLine(e, q.buffer) /\ writer' = [writer EXCEPT ![e] = w]
      BY <1>6 DEF Flush
    <2> HIDE DEF q
    <2>3. <<>> \in Seq(STRING)
      OBVIOUS
    <2>4. w \in Writer /\ w.next = q.next /\ w.text = q.text
      BY <2>1, <2>3 DEF Writer
    <2> HIDE DEF w
    <2> QED
      BY <1>2, <2>1, <2>2, <2>4
  <1> QED
    BY <1>1, <1>4, <1>5, <1>6 DEF LogNext

(* Letters of two texts are those of one and of the other.                    *)
EndOfLine == "\n"

LEMMA OneAsSeq ==
  ASSUME NEW S, NEW c \in S
  PROVE  <<c>> \in Seq(S) /\ Len(<<c>>) = 1 /\ <<c>>[1] = c
  OBVIOUS

LetterAt(c) == IF c = EndOfLine THEN <<>> ELSE <<c>>

LetterPieces(text) == [i \in 1 .. Len(text) |-> LetterAt(text[i])]

LEMMA LetterPiecesOf ==
  ASSUME NEW text \in Seq(STRING)
  PROVE  /\ LetterPieces(text) \in Seq(Seq(STRING)) /\ Len(LetterPieces(text)) = Len(text)
         /\ Letters(text) = FlattenSeq(LetterPieces(text))
  <1>1. Len(text) \in Nat /\ DOMAIN text = 1 .. Len(text) /\ \A i \in 1 .. Len(text) : text[i] \in STRING
    BY LenProperties, ElementOfSeq
  <1>2. ASSUME NEW c \in STRING PROVE LetterAt(c) \in Seq(STRING)
    <2>1. <<c>> \in Seq(STRING) /\ <<>> \in Seq(STRING)
      BY OneAsSeq, EmptySeq
    <2> QED
      BY <2>1 DEF LetterAt
  <1>3. \A i \in 1 .. Len(text) : LetterAt(text[i]) \in Seq(STRING)
    BY <1>1, <1>2
  <1>4. LetterPieces(text) \in Seq(Seq(STRING)) /\ Len(LetterPieces(text)) = Len(text)
    BY <1>1, <1>3, IsASeq DEF LetterPieces
  <1>5. Letters(text) = FlattenSeq(LetterPieces(text))
    BY <1>1, Zenon DEF Letters, LetterPieces, LetterAt, EndOfLine
  <1> QED
    BY <1>4, <1>5

LEMMA LettersType ==
  ASSUME NEW text \in Seq(STRING)
  PROVE  Letters(text) \in Seq(STRING)
  BY LetterPiecesOf, FlattenType

LEMMA LettersOfTwo ==
  ASSUME NEW a \in Seq(STRING), NEW b \in Seq(STRING)
  PROVE  Letters(Glued(a, b)) = Glued(Letters(a), Letters(b))
  <1> DEFINE m == Len(a)
             n == Len(b)
             all == a \o b
             s == LetterPieces(a)
             t == LetterPieces(b)
  <1>1. /\ m \in Nat /\ n \in Nat /\ all \in Seq(STRING) /\ Len(all) = m + n
        /\ \A i \in 1 .. m + n : all[i] = IF i <= m THEN a[i] ELSE b[i - m]
    BY ConcatProperties, LenProperties
  <1>2. /\ s \in Seq(Seq(STRING)) /\ Len(s) = m /\ Letters(a) = FlattenSeq(s)
        /\ t \in Seq(Seq(STRING)) /\ Len(t) = n /\ Letters(b) = FlattenSeq(t)
        /\ Letters(all) = FlattenSeq(LetterPieces(all))
        /\ LetterPieces(all) \in Seq(Seq(STRING)) /\ Len(LetterPieces(all)) = m + n
    BY <1>1, LetterPiecesOf
  <1>3. /\ s \o t \in Seq(Seq(STRING)) /\ Len(s \o t) = m + n
        /\ \A i \in 1 .. m + n : (s \o t)[i] = IF i <= m THEN s[i] ELSE t[i - m]
    <2> HIDE DEF s, t, m, n
    <2> QED
      BY <1>1, <1>2, ConcatProperties
  <1>4. ASSUME NEW i \in 1 .. m + n PROVE LetterPieces(all)[i] = (s \o t)[i]
    <2>1. LetterPieces(all)[i] = LetterAt(all[i])
      BY <1>1 DEF LetterPieces
    <2>2. CASE i <= m
      <3>1. i \in 1 .. m
        BY <1>1, <2>2
      <3>2. s[i] = LetterAt(a[i])
        BY <3>1 DEF LetterPieces
      <3>3. all[i] = a[i] /\ (s \o t)[i] = s[i]
        BY <1>1, <1>3, <2>2
      <3> QED
        BY <2>1, <3>2, <3>3
    <2>3. CASE ~ (i <= m)
      <3> DEFINE j == i - m
      <3>1. j \in 1 .. n
        BY <1>1, <2>3
      <3>2. t[j] = LetterAt(b[j])
        BY <3>1 DEF LetterPieces
      <3>3. all[i] = b[j] /\ (s \o t)[i] = t[j]
        BY <1>1, <1>3, <2>3
      <3> QED
        BY <2>1, <3>2, <3>3
    <2> QED
      BY <2>2, <2>3
  <1> HIDE DEF all, s, t, m, n
  <1>5. LetterPieces(all) = s \o t
    <2> DEFINE x == LetterPieces(all)
               y == s \o t
    <2>1. x \in Seq(Seq(STRING)) /\ y \in Seq(Seq(STRING)) /\ Len(x) = Len(y)
          /\ \A i \in 1 .. Len(x) : x[i] = y[i]
      BY <1>2, <1>3, <1>4
    <2> HIDE DEF x, y
    <2>2. x = y
      BY <2>1, SeqEqual
    <2> QED
      BY <2>2 DEF x, y
  <1>6. FlattenSeq(s \o t) = FlattenSeq(s) \o FlattenSeq(t)
    BY <1>2, FlattenConcat
  <1> QED
    BY <1>2, <1>5, <1>6 DEF Glued, all

LEMMA NoLetter ==
  ASSUME EndOfLine \in STRING
  PROVE  Letters(<<EndOfLine>>) = <<>>
  <1> DEFINE c == EndOfLine
             s == <<c>>
             none == <<>>
  <1>c. c \in STRING
    OBVIOUS
  <1>2. LetterAt(c) = <<>>
    BY DEF LetterAt
  <1> HIDE DEF c
  <1>1. s \in Seq(STRING) /\ Len(s) = 1 /\ s[1] = c
    BY <1>c, OneAsSeq
  <1> HIDE DEF s
  <1>3. LetterPieces(s) = <<none>>
    <2>1. LetterPieces(s) = [i \in 1 .. 1 |-> LetterAt(s[i])]
      BY <1>1 DEF LetterPieces
    <2>2. \A i \in 1 .. 1 : LetterAt(s[i]) = none
      BY <1>1, <1>2
    <2> QED
      BY <2>1, <2>2
  <1>4. FlattenSeq(<<none>>) = none
    BY FlattenOne, EmptySeq
  <1> QED
    BY <1>1, <1>3, <1>4, LetterPiecesOf DEF s, c

LEMMA NoLetters == Letters(<<>>) = <<>>
  <1> DEFINE s == <<>>
  <1>1. s \in Seq(STRING) /\ Len(s) = 0
    BY EmptySeq
  <1>2. LetterPieces(s) \in Seq(Seq(STRING)) /\ Len(LetterPieces(s)) = 0
        /\ Letters(s) = FlattenSeq(LetterPieces(s))
    BY <1>1, LetterPiecesOf
  <1>3. LetterPieces(s) = <<>>
    BY <1>2, EmptySeq
  <1> QED
    BY <1>2, <1>3, FlattenEmpty

(* A line that is pushed is one more of its event's, and none of another's.    *)
LinePieces(lines, e) == [i \in 1 .. Len(lines) |-> IF lines[i].of = e THEN lines[i].line ELSE <<>>]

LEMMA LinePiecesOf ==
  ASSUME NEW lines \in Seq(Line), NEW e
  PROVE  /\ LinePieces(lines, e) \in Seq(Seq(STRING)) /\ Len(LinePieces(lines, e)) = Len(lines)
         /\ PushedFor(lines, e) = FlattenSeq(LinePieces(lines, e))
         /\ PushedFor(lines, e) \in Seq(STRING)
  <1>1. Len(lines) \in Nat /\ DOMAIN lines = 1 .. Len(lines) /\ \A i \in 1 .. Len(lines) : lines[i] \in Line
    BY LenProperties, ElementOfSeq
  <1>e. <<>> \in Seq(STRING)
    OBVIOUS
  <1>2. \A i \in 1 .. Len(lines) : (IF lines[i].of = e THEN lines[i].line ELSE <<>>) \in Seq(STRING)
    BY <1>1, <1>e DEF Line
  <1>3. LinePieces(lines, e) \in Seq(Seq(STRING)) /\ Len(LinePieces(lines, e)) = Len(lines)
    BY <1>1, <1>2, IsASeq DEF LinePieces
  <1>4. PushedFor(lines, e) = FlattenSeq(LinePieces(lines, e))
    BY <1>1, Zenon DEF PushedFor, LinePieces
  <1> QED
    BY <1>3, <1>4, FlattenType

LEMMA PushedOneMore ==
  ASSUME NEW lines \in Seq(Line), NEW p \in Line, NEW e
  PROVE  PushedFor(Append(lines, p), e)
           = IF p.of = e THEN Glued(PushedFor(lines, e), p.line) ELSE PushedFor(lines, e)
  <1> DEFINE n == Len(lines)
             all == Append(lines, p)
             s == LinePieces(lines, e)
             piece == IF p.of = e THEN p.line ELSE <<>>
  <1>1. /\ n \in Nat /\ all \in Seq(Line) /\ Len(all) = n + 1
        /\ \A i \in 1 .. n : all[i] = lines[i]
        /\ all[n + 1] = p
    BY AppendProperties, LenProperties
  <1>2. /\ s \in Seq(Seq(STRING)) /\ Len(s) = n /\ PushedFor(lines, e) = FlattenSeq(s)
        /\ LinePieces(all, e) \in Seq(Seq(STRING)) /\ Len(LinePieces(all, e)) = n + 1
        /\ PushedFor(all, e) = FlattenSeq(LinePieces(all, e))
        /\ PushedFor(lines, e) \in Seq(STRING)
    BY <1>1, LinePiecesOf
  <1>3. piece \in Seq(STRING)
    <2>1. <<>> \in Seq(STRING)
      OBVIOUS
    <2> QED
      BY <2>1 DEF Line
  <1>4. \A i \in 1 .. n : LinePieces(all, e)[i] = s[i]
    <2> SUFFICES ASSUME NEW i \in 1 .. n PROVE LinePieces(all, e)[i] = s[i]
      OBVIOUS
    <2>1. i \in 1 .. n + 1
      BY <1>1
    <2> QED
      BY <1>1, <2>1 DEF LinePieces
  <1>5. LinePieces(all, e)[n + 1] = piece
    <2>1. n + 1 \in 1 .. n + 1
      BY <1>1
    <2> QED
      BY <1>1, <2>1 DEF LinePieces
  <1> HIDE DEF piece, s, all, n
  <1>6. LinePieces(all, e) = Append(s, piece)
    <2> DEFINE x == LinePieces(all, e)
               y == Append(s, piece)
    <2>1. /\ y \in Seq(Seq(STRING)) /\ Len(y) = n + 1
          /\ \A i \in 1 .. n : y[i] = s[i]
          /\ y[n + 1] = piece
      BY <1>2, <1>3, AppendProperties
    <2>2. x \in Seq(Seq(STRING)) /\ Len(x) = Len(y)
      BY <1>2, <2>1
    <2>3. ASSUME NEW i \in 1 .. Len(x) PROVE x[i] = y[i]
      <3>1. i \in 1 .. n \/ i = n + 1
        BY <1>1, <1>2
      <3> QED
        BY <1>4, <1>5, <2>1, <3>1
    <2> HIDE DEF x, y
    <2>4. x = y
      BY <2>1, <2>2, <2>3, SeqEqual
    <2> QED
      BY <2>4 DEF x, y
  <1>7. FlattenSeq(Append(s, piece)) = Glued(FlattenSeq(s), piece)
    BY <1>2, <1>3, FlattenAppend DEF Glued
  <1>8. PushedFor(all, e) = Glued(PushedFor(lines, e), piece)
    BY <1>2, <1>6, <1>7
  <1>9. CASE p.of = e
    BY <1>8, <1>9 DEF piece, all
  <1>10. CASE p.of # e
    <2>1. Glued(PushedFor(lines, e), <<>>) = PushedFor(lines, e)
      BY <1>2, GluedProperties
    <2> QED
      BY <1>8, <1>10, <2>1 DEF piece, all
  <1> QED
    BY <1>9, <1>10

(* A chunk that is written is one more of what was, or none.                  *)
ChunkOf(w, i) == IF "bad" \in Range(w.text[i]) THEN <<>> ELSE w.text[i]

Chunks(w) == [i \in 1 .. w.next - 1 |-> ChunkOf(w, i)]

LEMMA ChunksOf ==
  ASSUME NEW w \in Writer, w.next \in 1 .. Len(w.text) + 1
  PROVE  /\ Chunks(w) \in Seq(Seq(STRING)) /\ Len(Chunks(w)) = w.next - 1
         /\ \A i \in 1 .. Len(w.text) : ChunkOf(w, i) \in Seq(STRING)
         /\ WrittenOf(w) = FlattenSeq(Chunks(w)) /\ WrittenOf(w) \in Seq(STRING)
  <1>1. w.text \in Seq(Seq(STRING)) /\ w.next \in Nat /\ w.next - 1 \in Nat
        /\ 1 .. w.next - 1 \subseteq 1 .. Len(w.text)
    BY LenProperties DEF Writer
  <1>2. \A i \in 1 .. Len(w.text) : w.text[i] \in Seq(STRING)
    BY <1>1, ElementOfSeq
  <1>3. \A i \in 1 .. Len(w.text) : ChunkOf(w, i) \in Seq(STRING)
    <2>1. <<>> \in Seq(STRING)
      OBVIOUS
    <2> QED
      BY <1>2, <2>1 DEF ChunkOf
  <1>4. Chunks(w) \in Seq(Seq(STRING)) /\ Len(Chunks(w)) = w.next - 1
    <2> DEFINE n == w.next - 1
    <2>1. n \in Nat /\ \A i \in 1 .. n : ChunkOf(w, i) \in Seq(STRING)
      BY <1>1, <1>3
    <2>2. Chunks(w) = [i \in 1 .. n |-> ChunkOf(w, i)]
      BY DEF Chunks
    <2> HIDE DEF n
    <2>3. Chunks(w) \in Seq(Seq(STRING)) /\ Len(Chunks(w)) = n
      BY <2>1, <2>2, IsASeq
    <2> QED
      BY <2>3 DEF n
  <1>5. WrittenOf(w) = FlattenSeq(Chunks(w))
    BY Zenon DEF WrittenOf, Chunks, ChunkOf
  <1> QED
    BY <1>3, <1>4, <1>5, FlattenType

LEMMA WrittenOneMore ==
  ASSUME NEW w \in Writer, w.next \in 1 .. Len(w.text), NEW v \in Writer,
         v.next = w.next + 1, v.text = w.text
  PROVE  WrittenOf(v) = Glued(WrittenOf(w), ChunkOf(w, w.next))
  <1> DEFINE n == w.next - 1
             s == Chunks(w)
             piece == ChunkOf(w, w.next)
  <1>0. Len(w.text) \in Nat /\ w.next \in Nat
    BY LenProperties DEF Writer
  <1>1. /\ n \in Nat /\ w.next \in 1 .. Len(w.text) + 1 /\ v.next \in 1 .. Len(v.text) + 1
        /\ v.next - 1 = n + 1 /\ w.next = n + 1
    BY <1>0
  <1>2. /\ s \in Seq(Seq(STRING)) /\ Len(s) = n /\ WrittenOf(w) = FlattenSeq(s)
        /\ Chunks(v) \in Seq(Seq(STRING)) /\ Len(Chunks(v)) = n + 1
        /\ WrittenOf(v) = FlattenSeq(Chunks(v)) /\ piece \in Seq(STRING)
    BY <1>1, ChunksOf
  <1>3. \A i : ChunkOf(v, i) = ChunkOf(w, i)
    BY DEF ChunkOf
  <1>4. Chunks(v)[n + 1] = piece /\ \A i \in 1 .. n : Chunks(v)[i] = s[i]
    <2>1. 1 .. v.next - 1 = 1 .. n + 1 /\ n + 1 \in 1 .. n + 1 /\ 1 .. n \subseteq 1 .. n + 1
      BY <1>1
    <2>2. Chunks(v) = [i \in 1 .. n + 1 |-> ChunkOf(v, i)] /\ s = [i \in 1 .. n |-> ChunkOf(w, i)]
      BY <1>1 DEF Chunks
    <2> HIDE DEF s, n, piece
    <2>3. ChunkOf(w, n + 1) = piece
      BY <1>1 DEF piece
    <2> QED
      BY <1>3, <2>1, <2>2, <2>3
  <1> HIDE DEF piece, s, n
  <1>6. Chunks(v) = Append(s, piece)
    <2> DEFINE x == Chunks(v)
               y == Append(s, piece)
    <2>1. /\ y \in Seq(Seq(STRING)) /\ Len(y) = n + 1
          /\ \A i \in 1 .. n : y[i] = s[i]
          /\ y[n + 1] = piece
      BY <1>2, AppendProperties
    <2>2. x \in Seq(Seq(STRING)) /\ Len(x) = Len(y)
      BY <1>2, <2>1
    <2>3. ASSUME NEW i \in 1 .. Len(x) PROVE x[i] = y[i]
      <3>1. i \in 1 .. n \/ i = n + 1
        BY <1>1, <1>2
      <3> QED
        BY <1>4, <2>1, <3>1
    <2> HIDE DEF x, y
    <2>4. x = y
      BY <2>1, <2>2, <2>3, SeqEqual
    <2> QED
      BY <2>4 DEF x, y
  <1> QED
    BY <1>2, <1>6, FlattenAppend DEF Glued, piece

(* What a writer holds is the end of what was written, from an end of line on;   *)
(* and a line that was pushed is a line of it. Only when the writer is closed   *)
(* may it be the last, without an end of line after it.                       *)
AtStart(before) == before = <<>> \/ before[Len(before)] = EndOfLine

HeldAtEnd(buffer, text) ==
  \E before \in Seq(STRING) : text = Glued(before, buffer) /\ AtStart(before)

LineWithin(line, text, open) ==
  /\ "\n" \notin Range(line)
  /\ \E before \in Seq(STRING), after \in Seq(STRING) :
       /\ text = Glued(Glued(before, line), after) /\ AtStart(before)
       /\ IF after = <<>> THEN ~open ELSE after[1] = EndOfLine

EventInv(w, lines, e) ==
  /\ Letters(Glued(PushedFor(lines, e), w.buffer)) = Letters(WrittenOf(w))
  /\ w.open => HeldAtEnd(w.buffer, WrittenOf(w))
  /\ \A i \in 1 .. Len(lines) : lines[i].of = e => LineWithin(lines[i].line, WrittenOf(w), w.open)

WholeInv == \A e \in LogEvents : EventInv(writer[e], pushed, e)

(* The places of a text that is put together.                                 *)
Spans(x, y, z) ==
  /\ Len(x) \in Nat /\ Len(y) \in Nat /\ Len(z) = Len(x) + Len(y)
  /\ \A i \in 1 .. Len(x) : z[i] = x[i]
  /\ \A i \in 1 .. Len(y) : z[Len(x) + i] = y[i]

LEMMA GluedAt ==
  ASSUME NEW S, NEW x \in Seq(S), NEW y \in Seq(S)
  PROVE  Spans(x, y, Glued(x, y))
  <1> DEFINE m == Len(x)
             n == Len(y)
             z == x \o y
  <1>1. m \in Nat /\ n \in Nat /\ Len(z) = m + n
        /\ \A i \in 1 .. Len(z) : z[i] = IF i <= m THEN x[i] ELSE y[i - m]
    BY ConcatProperties, LenProperties
  <1> HIDE DEF m, n, z
  <1>2. ASSUME NEW i \in 1 .. m PROVE z[i] = x[i]
    BY <1>1
  <1>3. ASSUME NEW i \in 1 .. n PROVE z[m + i] = y[i]
    <2> DEFINE j == m + i
    <2>1. j \in 1 .. Len(z) /\ ~ (j <= m) /\ j - m = i
      BY <1>1
    <2> HIDE DEF j
    <2>2. z[j] = y[i]
      BY <1>1, <2>1
    <2> QED
      BY <2>2 DEF j
  <1> QED
    BY <1>1, <1>2, <1>3 DEF Spans, Glued, m, n, z

LEMMA LineWithinIs ==
  ASSUME NEW line \in Seq(STRING), NEW text \in Seq(STRING), NEW open \in BOOLEAN,
         LineWithin(line, text, open)
  PROVE  IsLineOf(line, text)
  <1>1. PICK before \in Seq(STRING), after \in Seq(STRING) :
          /\ text = Glued(Glued(before, line), after) /\ AtStart(before)
          /\ (after # <<>> => after[1] = EndOfLine)
    BY DEF LineWithin
  <1>2. PICK head \in Seq(STRING) : head = Glued(before, line)
    BY GluedProperties
  <1> DEFINE i == Len(before)
             j == Len(head)
  <1>3. /\ i \in Nat /\ Len(line) \in Nat /\ j = i + Len(line)
        /\ \A k \in 1 .. i : head[k] = before[k]
        /\ \A k \in 1 .. Len(line) : head[i + k] = line[k]
    <2>1. Spans(before, line, head)
      BY <1>2, GluedAt
    <2> QED
      BY ONLY <2>1 DEF Spans, i, j
  <1>4. /\ j \in Nat /\ Len(after) \in Nat /\ Len(text) = j + Len(after)
        /\ \A k \in 1 .. j : text[k] = head[k]
        /\ \A k \in 1 .. Len(after) : text[j + k] = after[k]
    <2>1. text = Glued(head, after)
      BY <1>1, <1>2
    <2>2. Spans(head, after, text)
      BY <2>1, GluedAt
    <2> QED
      BY ONLY <2>2 DEF Spans, j
  <1>5. i \in 0 .. Len(text) /\ j \in 0 .. Len(text)
    BY <1>3, <1>4
  <1> HIDE DEF i, j
  <1>6. SubSeq(text, i + 1, j) = line
    <2> DEFINE s == SubSeq(text, i + 1, j)
    <2>1. \A k \in i + 1 .. j : text[k] \in STRING
      <3>1. \A k \in i + 1 .. j : k \in 1 .. Len(text)
        BY <1>3, <1>4
      <3> QED
        BY <3>1, ElementOfSeq
    <2>2. i + 1 \in Int /\ j \in Int
      BY <1>3, <1>4
    <2>3. /\ s \in Seq(STRING)
          /\ Len(s) = IF i + 1 <= j THEN j - (i + 1) + 1 ELSE 0
          /\ \A k \in 1 .. j - (i + 1) + 1 : s[k] = text[i + 1 + k - 1]
      BY <2>1, <2>2, SubSeqProperties
    <2> HIDE DEF s
    <2>4. Len(s) = Len(line)
      BY <1>3, <2>3
    <2>5. ASSUME NEW k \in 1 .. Len(s) PROVE s[k] = line[k]
      <3>1. k \in 1 .. Len(line) /\ k \in 1 .. j - (i + 1) + 1 /\ i + 1 + k - 1 = i + k /\ i + k \in 1 .. j
        BY <1>3, <2>4
      <3>2. s[k] = text[i + k]
        BY <2>3, <3>1
      <3>3. text[i + k] = head[i + k]
        BY <1>4, <3>1
      <3>4. head[i + k] = line[k]
        BY <1>3, <3>1
      <3> QED
        BY <3>2, <3>3, <3>4
    <2>6. s = line
      BY <2>3, <2>4, <2>5, SeqEqual
    <2> QED
      BY <2>6 DEF s
  <1>7. ASSUME i > 0 PROVE text[i] = EndOfLine
    <2>1. i \in 1 .. i /\ i \in 1 .. j
      BY <1>3, <1>7
    <2>2. before[i] = EndOfLine
      <3>1. before # <<>>
        BY <1>7, EmptySeq DEF i
      <3> QED
        BY <1>1, <3>1 DEF AtStart, i
    <2>3. text[i] = head[i] /\ head[i] = before[i]
      BY <1>3, <1>4, <2>1
    <2> QED
      BY <2>2, <2>3
  <1>8. ASSUME j < Len(text) PROVE text[j + 1] = EndOfLine
    <2>1. 1 \in 1 .. Len(after) /\ after # <<>>
      <3>1. Len(after) # 0
        BY <1>4, <1>8
      <3> QED
        BY <1>4, <3>1, EmptySeq
    <2> QED
      BY <1>1, <1>4, <2>1
  <1>9. "\n" \notin Range(line) /\ EndOfLine = "\n"
    BY Zenon DEF LineWithin, EndOfLine
  <1>10. \E k, l \in 0 .. Len(text) :
           /\ SubSeq(text, k + 1, l) = line
           /\ k > 0 => text[k] = EndOfLine
           /\ l < Len(text) => text[l + 1] = EndOfLine
    BY <1>5, <1>6, <1>7, <1>8
  <1> QED
    BY <1>9, <1>10, Zenon DEF IsLineOf

LEMMA WholeShown == LogTypeOK /\ WholeInv => EventsWhole
  <1> SUFFICES ASSUME LogTypeOK, WholeInv, NEW e \in LogEvents
               PROVE  /\ Letters(PushedFor(pushed, e) \o writer[e].buffer) = Letters(Written(e))
                      /\ \A i \in DOMAIN pushed :
                           pushed[i].of = e => IsLineOf(pushed[i].line, Written(e))
    BY DEF EventsWhole
  <1> DEFINE w == writer[e]
  <1>1. w \in Writer /\ w.next \in 1 .. Len(w.text) + 1 /\ pushed \in Seq(Line) /\ w.open \in BOOLEAN
    BY DEF LogTypeOK, Writer
  <1>2. EventInv(w, pushed, e) /\ Written(e) = WrittenOf(w)
    BY DEF WholeInv, Written
  <1> HIDE DEF w
  <1>3. WrittenOf(w) \in Seq(STRING)
    BY <1>1, ChunksOf
  <1>4. ASSUME NEW i \in DOMAIN pushed, pushed[i].of = e PROVE IsLineOf(pushed[i].line, Written(e))
    <2>1. i \in 1 .. Len(pushed) /\ pushed[i] \in Line
      BY <1>1, LenProperties, ElementOfSeq
    <2>2. pushed[i].line \in Seq(STRING)
      BY <2>1 DEF Line
    <2>3. LineWithin(pushed[i].line, WrittenOf(w), w.open)
      BY <1>2, <1>4, <2>1 DEF EventInv
    <2> QED
      BY <1>1, <1>2, <1>3, <2>2, <2>3, LineWithinIs
  <1>5. Letters(PushedFor(pushed, e) \o w.buffer) = Letters(Written(e))
    BY <1>2 DEF EventInv, Glued
  <1> QED
    BY <1>4, <1>5 DEF w

(* A writer that has not begun.                                              *)
LEMMA FreshIsWhole ==
  ASSUME NEW w \in Writer, w.next = 1, w.buffer = <<>>, NEW e
  PROVE  EventInv(w, <<>>, e)
  <1> DEFINE none == <<>>
  <1>1. w.next = 1 /\ w.buffer = none /\ w \in Writer
    OBVIOUS
  <1>2. none \in Seq(STRING) /\ Len(none) = 0 /\ none \in Seq(Line)
    OBVIOUS
  <1>3. WrittenOf(w) = none
    <2>1. 1 \in 1 .. Len(w.text) + 1
      BY <1>1, LenProperties DEF Writer
    <2>2. Chunks(w) \in Seq(Seq(STRING)) /\ Len(Chunks(w)) = 0 /\ WrittenOf(w) = FlattenSeq(Chunks(w))
      BY <1>1, <2>1, ChunksOf
    <2>3. Chunks(w) = none
      BY <2>2, EmptySeq
    <2> QED
      BY <2>2, <2>3, FlattenEmpty
  <1>4. PushedFor(none, e) = none
    <2>1. LinePieces(none, e) \in Seq(Seq(STRING)) /\ Len(LinePieces(none, e)) = 0
          /\ PushedFor(none, e) = FlattenSeq(LinePieces(none, e))
      BY <1>2, LinePiecesOf
    <2>2. LinePieces(none, e) = none
      BY <2>1, EmptySeq
    <2> QED
      BY <2>1, <2>2, FlattenEmpty
  <1>5. Glued(none, none) = none
    BY <1>2, GluedProperties
  <1>6. HeldAtEnd(none, none)
    BY <1>2, <1>5 DEF HeldAtEnd, AtStart
  <1>7. 1 .. Len(none) = {}
    BY <1>2
  <1> QED
    BY <1>1, <1>3, <1>4, <1>5, <1>6, <1>7 DEF EventInv

(* Nothing changes for an event whose writer does not, when another's line is   *)
(* pushed.                                                                  *)
LEMMA OtherLine ==
  ASSUME NEW lines \in Seq(Line), NEW p \in Line, NEW w \in Writer, NEW e, p.of # e,
         EventInv(w, lines, e)
  PROVE  EventInv(w, Append(lines, p), e)
  <1> DEFINE all == Append(lines, p)
  <1>1. PushedFor(all, e) = PushedFor(lines, e)
    BY PushedOneMore
  <1>2. Len(lines) \in Nat /\ Len(all) = Len(lines) + 1 /\ all[Len(lines) + 1] = p
        /\ \A i \in 1 .. Len(lines) : all[i] = lines[i]
    BY AppendProperties, LenProperties
  <1> HIDE DEF all
  <1>3. ASSUME NEW i \in 1 .. Len(all), all[i].of = e PROVE LineWithin(all[i].line, WrittenOf(w), w.open)
    <2>1. i \in 1 .. Len(lines)
      BY <1>2, <1>3
    <2> QED
      BY <1>2, <1>3, <2>1 DEF EventInv
  <1> QED
    BY <1>1, <1>3 DEF EventInv, all

(* One more chunk.                                                          *)
LEMMA WriteKeeps ==
  ASSUME NEW w \in Writer, NEW v \in Writer, NEW lines \in Seq(Line), NEW e,
         w.open, w.next \in 1 .. Len(w.text), v.text = w.text, v.next = w.next + 1, v.open = w.open,
         v.buffer = Glued(w.buffer, ChunkOf(w, w.next)), EventInv(w, lines, e)
  PROVE  EventInv(v, lines, e)
  <1> DEFINE chunk == ChunkOf(w, w.next)
             text == WrittenOf(w)
             p == PushedFor(lines, e)
             b == w.buffer
  <1>1. WrittenOf(v) = Glued(text, chunk)
    BY WrittenOneMore
  <1>2. chunk \in Seq(STRING) /\ text \in Seq(STRING) /\ p \in Seq(STRING) /\ b \in Seq(STRING)
    <2>1. w.next \in 1 .. Len(w.text) + 1
      BY LenProperties DEF Writer
    <2> QED
      BY <2>1, ChunksOf, LinePiecesOf DEF Writer
  <1>3. Letters(Glued(p, b)) = Letters(text) /\ HeldAtEnd(b, text)
        /\ \A i \in 1 .. Len(lines) : lines[i].of = e => LineWithin(lines[i].line, text, TRUE)
    BY DEF EventInv
  <1>4. v.buffer = Glued(b, chunk)
    OBVIOUS
  <1> HIDE DEF chunk, text, p, b
  <1>5. Glued(p, b) \in Seq(STRING)
    BY <1>2, GluedProperties
  <1>6. Letters(Glued(p, Glued(b, chunk))) = Letters(Glued(text, chunk))
    <2>1. Glued(p, Glued(b, chunk)) = Glued(Glued(p, b), chunk)
      BY <1>2, GluedAssociates
    <2>2. Letters(Glued(Glued(p, b), chunk)) = Glued(Letters(Glued(p, b)), Letters(chunk))
      BY <1>2, <1>5, LettersOfTwo
    <2>3. Letters(Glued(text, chunk)) = Glued(Letters(text), Letters(chunk))
      BY <1>2, LettersOfTwo
    <2> QED
      BY <1>3, <2>1, <2>2, <2>3
  <1>7. HeldAtEnd(Glued(b, chunk), Glued(text, chunk))
    <2>1. PICK before \in Seq(STRING) : text = Glued(before, b) /\ AtStart(before)
      BY <1>3 DEF HeldAtEnd
    <2>2. Glued(before, Glued(b, chunk)) = Glued(text, chunk)
      BY <1>2, <2>1, GluedAssociates
    <2> QED
      BY <2>1, <2>2 DEF HeldAtEnd
  <1>8. ASSUME NEW i \in 1 .. Len(lines), lines[i].of = e
        PROVE  LineWithin(lines[i].line, Glued(text, chunk), TRUE)
    <2> DEFINE line == lines[i].line
    <2>0. line \in Seq(STRING)
      <3>1. lines[i] \in Line
        BY ElementOfSeq
      <3> QED
        BY <3>1 DEF Line
    <2>1. LineWithin(line, text, TRUE)
      BY <1>3, <1>8
    <2> HIDE DEF line
    <2>2. PICK before \in Seq(STRING), after \in Seq(STRING) :
            /\ text = Glued(Glued(before, line), after) /\ AtStart(before)
            /\ after # <<>> /\ after[1] = EndOfLine
      BY <2>1 DEF LineWithin
    <2> DEFINE longer == Glued(after, chunk)
               head == Glued(before, line)
    <2>3. longer \in Seq(STRING) /\ head \in Seq(STRING)
      BY <1>2, <2>0, GluedProperties
    <2>4. Glued(text, chunk) = Glued(head, longer)
      <3>1. text = Glued(head, after)
        BY <2>2
      <3> HIDE DEF head
      <3> QED
        BY <1>2, <2>3, <3>1, GluedAssociates
    <2>5. longer # <<>> /\ longer[1] = EndOfLine
      <3>1. Len(after) \in Nat /\ Len(after) # 0 /\ Len(chunk) \in Nat
        BY <1>2, <2>2, EmptySeq, LenProperties
      <3>l. Spans(after, chunk, longer)
        BY <1>2, GluedAt
      <3>2. 1 \in 1 .. Len(after) /\ Len(longer) # 0
        BY <3>1, <3>l DEF Spans
      <3>3. longer[1] = after[1]
        BY <3>2, <3>l DEF Spans
      <3> QED
        BY <2>2, <3>2, <3>3, EmptySeq
    <2> HIDE DEF longer
    <2>6. LineWithin(line, Glued(text, chunk), TRUE)
      BY <2>1, <2>2, <2>3, <2>4, <2>5 DEF LineWithin
    <2> QED
      BY <2>6 DEF line
  <1> QED
    BY <1>1, <1>4, <1>6, <1>7, <1>8 DEF EventInv, chunk, text, p, b

(* A line of what is held is pushed, with what follows it (`rest`) still held,   *)
(* or all that is held, when the writer is closed.                           *)
LEMMA LineIsKept ==
  ASSUME NEW w \in Writer, NEW v \in Writer, NEW lines \in Seq(Line), NEW e \in LogEvents,
         w.open, w.next \in 1 .. Len(w.text) + 1, v.text = w.text, v.next = w.next,
         EventInv(w, lines, e),
         NEW line \in Seq(STRING), NEW end \in Seq(STRING), Letters(end) = <<>>,
         w.buffer = Glued(line, Glued(end, v.buffer)),
         "\n" \notin Range(line),
         IF v.open THEN end = <<EndOfLine>> ELSE end = <<>> /\ v.buffer = <<>>
  PROVE  /\ EventInv(v, Append(lines, [of |-> e, line |-> line]), e)
         /\ line = <<>> => EventInv(v, lines, e)
  <1> DEFINE p == PushedFor(lines, e)
             b == w.buffer
             rest == v.buffer
             text == WrittenOf(w)
             new == [of |-> e, line |-> line]
             all == Append(lines, new)
             n == Len(lines)
  <1>1. WrittenOf(v) = text
    BY DEF WrittenOf
  <1>2. text \in Seq(STRING) /\ p \in Seq(STRING) /\ b \in Seq(STRING) /\ rest \in Seq(STRING)
        /\ <<>> \in Seq(STRING)
    BY ChunksOf, LinePiecesOf, EmptySeq DEF Writer
  <1>3. Letters(Glued(p, b)) = Letters(text) /\ HeldAtEnd(b, text)
        /\ \A i \in 1 .. n : lines[i].of = e => LineWithin(lines[i].line, text, TRUE)
    BY DEF EventInv
  <1>4. b = Glued(line, Glued(end, rest))
        /\ IF v.open THEN end = <<EndOfLine>> ELSE end = <<>> /\ rest = <<>>
    OBVIOUS
  <1>5. new \in Line /\ new.of = e /\ new.line = line
    BY DEF Line
  <1>6. PushedFor(all, e) = Glued(p, line)
    BY <1>5, PushedOneMore
  <1>7. all \in Seq(Line) /\ n \in Nat /\ Len(all) = n + 1 /\ all[n + 1] = new
        /\ \A i \in 1 .. n : all[i] = lines[i]
    BY <1>5, AppendProperties, LenProperties
  <1> HIDE DEF p, b, rest, text, new, all, n
  <1> DEFINE tail == Glued(end, rest)
             head == Glued(p, line)
  <1>8. tail \in Seq(STRING) /\ head \in Seq(STRING) /\ Glued(head, tail) \in Seq(STRING)
    BY <1>2, GluedProperties
  <1>9. Letters(Glued(head, rest)) = Letters(text)
    <2>1. Glued(p, b) = Glued(head, tail)
      <3> HIDE DEF tail
      <3> QED
        BY <1>2, <1>4, <1>8, GluedAssociates DEF tail
    <2>2. Letters(tail) = Glued(<<>>, Letters(rest))
      BY <1>2, LettersOfTwo
    <2>3. Glued(<<>>, Letters(rest)) = Letters(rest)
      BY <1>2, LettersType, GluedProperties
    <2> HIDE DEF tail, head
    <2>4. Letters(Glued(head, tail)) = Glued(Letters(head), Letters(tail))
      BY <1>8, LettersOfTwo
    <2>5. Letters(Glued(head, rest)) = Glued(Letters(head), Letters(rest))
      BY <1>2, <1>8, LettersOfTwo
    <2> QED
      BY <1>3, <2>1, <2>2, <2>3, <2>4, <2>5
  <1>10. PICK before \in Seq(STRING) : text = Glued(before, b) /\ AtStart(before)
    BY <1>3 DEF HeldAtEnd
  <1> DEFINE upto == Glued(before, line)
  <1>11. upto \in Seq(STRING) /\ text = Glued(upto, tail)
    <2>1. upto \in Seq(STRING)
      BY GluedProperties
    <2>2. b = Glued(line, tail)
      BY <1>4
    <2> HIDE DEF tail
    <2>3. Glued(before, Glued(line, tail)) = Glued(Glued(before, line), tail)
      BY <1>8, GluedAssociates
    <2> QED
      BY <1>10, <2>1, <2>2, <2>3
  <1>12. ASSUME v.open PROVE HeldAtEnd(rest, text) /\ tail # <<>> /\ tail[1] = EndOfLine
    <2> DEFINE after == Glued(upto, end)
    <2>1. end = <<EndOfLine>> /\ Len(end) = 1 /\ end[1] = EndOfLine
      BY <1>4, <1>12
    <2>2. after \in Seq(STRING) /\ text = Glued(after, rest)
      <3> HIDE DEF upto
      <3> QED
        BY <1>2, <1>11, GluedProperties, GluedAssociates
    <2>3. Spans(end, rest, tail)
      BY <1>2, GluedAt
    <2>4. Spans(upto, end, after)
      <3> HIDE DEF upto
      <3> QED
        BY <1>11, GluedAt
    <2> HIDE DEF tail, after, upto
    <2>5. tail[1] = EndOfLine /\ Len(tail) # 0
      BY <2>1, <2>3 DEF Spans
    <2>6. after[Len(after)] = EndOfLine
      BY <2>1, <2>4 DEF Spans
    <2>7. tail # <<>>
      BY <2>5, EmptySeq
    <2> QED
      BY <2>2, <2>5, <2>6, <2>7 DEF HeldAtEnd, AtStart
  <1>13. LineWithin(line, text, v.open)
    <2>1. v.open \/ tail = <<>>
      <3>1. Glued(<<>>, <<>>) = <<>>
        BY <1>2, GluedProperties
      <3> QED
        BY <1>4, <3>1
    <2>2. IF tail = <<>> THEN ~v.open ELSE tail[1] = EndOfLine
      BY <1>12, <2>1
    <2> HIDE DEF tail
    <2> QED
      BY <1>8, <1>10, <1>11, <2>2 DEF LineWithin
  <1>14. ASSUME NEW i \in 1 .. n, lines[i].of = e PROVE LineWithin(lines[i].line, text, v.open)
    <2> DEFINE old == lines[i].line
    <2>1. LineWithin(old, text, TRUE)
      BY <1>3, <1>14
    <2> HIDE DEF old
    <2>2. LineWithin(old, text, v.open)
      BY <2>1 DEF LineWithin
    <2> QED
      BY <2>2 DEF old
  <1>15. ASSUME NEW i \in 1 .. Len(all), all[i].of = e PROVE LineWithin(all[i].line, text, v.open)
    <2>1. CASE i = n + 1
      BY <1>5, <1>7, <1>13, <2>1
    <2>2. CASE i # n + 1
      <3>1. i \in 1 .. n
        BY <1>7, <2>2
      <3> QED
        BY <1>7, <1>14, <1>15, <3>1
    <2> QED
      BY <2>1, <2>2
  <1>16. EventInv(v, all, e)
    BY <1>1, <1>6, <1>9, <1>12, <1>15 DEF EventInv, rest
  <1>17. ASSUME line = <<>> PROVE EventInv(v, lines, e)
    <2>1. Glued(p, line) = p
      BY <1>2, <1>17, GluedProperties
    <2> QED
      BY <1>1, <1>9, <1>12, <1>14, <2>1 DEF EventInv, rest, p, n
  <1> QED
    BY <1>16, <1>17 DEF all, new

(* One line from the front of a buffer.                                      *)
LEMMA BufferSplits ==
  ASSUME NEW buffer \in Seq(STRING), Ends(buffer) # {}
  PROVE  \E line \in Seq(STRING), rest \in Seq(STRING) :
           /\ line = SubSeq(buffer, 1, Until(buffer) - 1)
           /\ rest = SubSeq(buffer, Until(buffer) + 1, Len(buffer))
           /\ buffer = Glued(line, Glued(<<EndOfLine>>, rest))
           /\ "\n" \notin Range(line)
           /\ EndOfLine \in STRING
  <1> DEFINE u == Until(buffer)
             l == Len(buffer)
             line == SubSeq(buffer, 1, u - 1)
             rest == SubSeq(buffer, u + 1, l)
             c == buffer[u]
             end == <<c>>
  <1>1. u \in 1 .. l /\ c = "\n" /\ (\A i \in 1 .. u - 1 : buffer[i] # "\n")
    BY UntilIsFirst
  <1>c. c = EndOfLine
    BY <1>1 DEF EndOfLine
  <1>2. l \in Nat /\ \A i \in 1 .. l : buffer[i] \in STRING
    BY LenProperties, ElementOfSeq
  <1> HIDE DEF u, l
  <1>3. c \in STRING /\ end \in Seq(STRING) /\ Len(end) = 1 /\ end[1] = c
    BY <1>1, <1>2, OneAsSeq
  <1> HIDE DEF c, end
  <1>4. /\ line \in Seq(STRING) /\ Len(line) = u - 1
        /\ \A i \in 1 .. u - 1 : line[i] = buffer[i]
    <2>1. 1 \in Int /\ u - 1 \in Int /\ \A i \in 1 .. u - 1 : buffer[i] \in STRING
      BY <1>1, <1>2
    <2>2. /\ line \in Seq(STRING)
          /\ Len(line) = IF 1 <= u - 1 THEN u - 1 - 1 + 1 ELSE 0
          /\ \A i \in 1 .. u - 1 - 1 + 1 : line[i] = buffer[1 + i - 1]
      BY <2>1, SubSeqProperties
    <2>3. u - 1 - 1 + 1 = u - 1 /\ \A i \in 1 .. u - 1 : 1 + i - 1 = i
      BY <1>1, <1>2
    <2> HIDE DEF line
    <2> QED
      BY <1>1, <1>2, <2>2, <2>3
  <1>5. /\ rest \in Seq(STRING) /\ Len(rest) = l - u
        /\ \A i \in 1 .. l - u : rest[i] = buffer[u + i]
    <2>1. u + 1 \in Int /\ l \in Int /\ \A i \in u + 1 .. l : buffer[i] \in STRING
      BY <1>1, <1>2
    <2>2. /\ rest \in Seq(STRING)
          /\ Len(rest) = IF u + 1 <= l THEN l - (u + 1) + 1 ELSE 0
          /\ \A i \in 1 .. l - (u + 1) + 1 : rest[i] = buffer[u + 1 + i - 1]
      BY <2>1, SubSeqProperties
    <2>3. l - (u + 1) + 1 = l - u /\ \A i \in 1 .. l - u : u + 1 + i - 1 = u + i
      BY <1>1, <1>2
    <2> HIDE DEF rest
    <2> QED
      BY <1>1, <1>2, <2>2, <2>3
  <1> HIDE DEF line, rest
  <1> DEFINE tail == Glued(end, rest)
             whole == Glued(line, tail)
  <1>6. Spans(end, rest, tail) /\ tail \in Seq(STRING)
    BY <1>3, <1>5, GluedAt, GluedProperties
  <1> HIDE DEF tail
  <1>7. Spans(line, tail, whole) /\ whole \in Seq(STRING)
    BY <1>4, <1>6, GluedAt, GluedProperties
  <1> HIDE DEF whole
  <1>8. Len(tail) = 1 + (l - u) /\ Len(whole) = l
    BY <1>1, <1>2, <1>3, <1>4, <1>5, <1>6, <1>7 DEF Spans
  <1>9. ASSUME NEW i \in 1 .. l PROVE whole[i] = buffer[i]
    <2>1. CASE i < u
      <3>1. i \in 1 .. u - 1
        BY <1>1, <1>2, <2>1
      <3> QED
        BY <1>4, <1>7, <3>1 DEF Spans
    <2>2. CASE i = u
      <3>1. 1 \in 1 .. Len(tail) /\ Len(line) + 1 = i /\ 1 \in 1 .. Len(end)
        BY <1>1, <1>2, <1>3, <1>4, <1>8, <2>2
      <3>2. whole[i] = tail[1]
        BY <1>7, <3>1 DEF Spans
      <3>3. tail[1] = end[1]
        BY <1>6, <3>1 DEF Spans
      <3> QED
        BY <1>3, <2>2, <3>2, <3>3 DEF c
    <2>3. CASE i > u
      <3> DEFINE j == i - u
                 k == j + 1
      <3>1. j \in 1 .. l - u /\ k \in 1 .. Len(tail) /\ Len(line) + k = i /\ Len(end) + j = k /\ u + j = i
        BY <1>1, <1>2, <1>3, <1>4, <1>8, <2>3
      <3> HIDE DEF j, k
      <3>2. whole[i] = tail[k]
        BY <1>7, <3>1 DEF Spans
      <3>3. tail[k] = rest[j]
        BY <1>5, <1>6, <3>1 DEF Spans
      <3>4. rest[j] = buffer[i]
        BY <1>5, <3>1
      <3> QED
        BY <3>2, <3>3, <3>4
    <2> QED
      BY <1>1, <1>2, <2>1, <2>2, <2>3
  <1>10. whole = buffer
    BY <1>7, <1>8, <1>9, SeqEqual DEF l
  <1>11. "\n" \notin Range(line)
    <2>1. DOMAIN line = 1 .. u - 1
      BY <1>4, LenProperties
    <2>2. \A i \in DOMAIN line : line[i] # "\n"
      BY <1>1, <1>4, <2>1
    <2> QED
      BY <2>2, Zenon DEF Range
  <1>12. buffer = Glued(line, Glued(<<EndOfLine>>, rest)) /\ EndOfLine \in STRING
    BY <1>3, <1>10, <1>c DEF whole, tail, end
  <1> QED
    BY <1>4, <1>5, <1>11, <1>12 DEF line, rest, u, l

LEMMA EventsApart ==
  ASSUME LogInv, WholeInv, NEW e \in LogEvents, NEW v \in Writer, NEW line \in Seq(STRING),
         writer' = [writer EXCEPT ![e] = v], PushLine(e, line),
         EventInv(v, Append(pushed, [of |-> e, line |-> line]), e),
         line = <<>> => EventInv(v, pushed, e)
  PROVE  WholeInv'
  <1> DEFINE new == [of |-> e, line |-> line]
  <1>1. writer \in [LogEvents -> Writer] /\ pushed \in Seq(Line)
    BY DEF LogInv, LogTypeOK
  <1>2. new \in Line /\ new.of = e
    BY DEF Line
  <1>3. pushed' = IF line = <<>> THEN pushed ELSE Append(pushed, new)
    BY DEF PushLine
  <1>4. \A d \in LogEvents : writer'[d] = IF d = e THEN v ELSE writer[d]
    BY <1>1
  <1> HIDE DEF new
  <1>5. ASSUME NEW d \in LogEvents PROVE EventInv(writer'[d], pushed', d)
    <2>1. CASE d = e
      BY <1>3, <1>4, <2>1 DEF new
    <2>2. CASE d # e
      <3>1. EventInv(writer[d], pushed, d) /\ writer[d] \in Writer /\ writer'[d] = writer[d]
        BY <1>1, <1>4, <2>2 DEF WholeInv
      <3>2. EventInv(writer[d], Append(pushed, new), d)
        BY <1>1, <1>2, <2>2, <3>1, OtherLine
      <3> QED
        BY <1>3, <3>1, <3>2
    <2> QED
      BY <2>1, <2>2
  <1> QED
    BY <1>5 DEF WholeInv

LEMMA WholeStays == UNCHANGED logVars /\ WholeInv => WholeInv'
  BY DEF logVars, WholeInv

LEMMA WholeStep == LogInv /\ WholeInv /\ LogNext => WholeInv'
  <1> SUFFICES ASSUME LogInv, WholeInv, NEW e \in LogEvents, Write(e) \/ Split(e) \/ Flush(e)
               PROVE  WholeInv'
    BY DEF LogNext
  <1> DEFINE w == writer[e]
  <1>1. /\ w \in Writer /\ w.next \in 1 .. Len(w.text) + 1 /\ pushed \in Seq(Line)
        /\ w.text \in Seq(Seq(STRING)) /\ w.next \in Nat /\ Len(w.text) \in Nat
        /\ w.buffer \in Seq(STRING) /\ w.open \in BOOLEAN /\ EventInv(w, pushed, e)
        /\ writer \in [LogEvents -> Writer]
    BY LenProperties DEF LogInv, LogTypeOK, Writer, WholeInv
  <1>2. CASE Write(e)
    <2> DEFINE b == IF "bad" \in Range(w.text[w.next]) THEN w.buffer ELSE w.buffer \o w.text[w.next]
               v == [w EXCEPT !.next = @ + 1, !.buffer = b]
    <2>1. w.open /\ w.next \in 1 .. Len(w.text)
      BY <1>1, <1>2 DEF Write
    <2>2. writer' = [writer EXCEPT ![e] = v] /\ UNCHANGED <<ring, pushed>>
      BY <1>2 DEF Write
    <2>3. w.text[w.next] \in Seq(STRING) /\ ChunkOf(w, w.next) \in Seq(STRING)
      BY <1>1, <2>1, ChunksOf, ElementOfSeq
    <2>4. b = Glued(w.buffer, ChunkOf(w, w.next)) /\ b \in Seq(STRING)
      <3>1. CASE "bad" \in Range(w.text[w.next])
        <4>1. ChunkOf(w, w.next) = <<>> /\ b = w.buffer
          BY <3>1 DEF ChunkOf
        <4>2. Glued(w.buffer, <<>>) = w.buffer
          BY <1>1, GluedProperties
        <4> QED
          BY <1>1, <4>1, <4>2
      <3>2. CASE "bad" \notin Range(w.text[w.next])
        <4>1. ChunkOf(w, w.next) = w.text[w.next] /\ b = w.buffer \o w.text[w.next]
          BY <3>2 DEF ChunkOf
        <4>2. w.buffer \o w.text[w.next] = Glued(w.buffer, w.text[w.next])
          BY DEF Glued
        <4>3. Glued(w.buffer, w.text[w.next]) \in Seq(STRING)
          BY <1>1, <2>3, GluedProperties
        <4> QED
          BY <4>1, <4>2, <4>3
      <3> QED
        BY <3>1, <3>2
    <2> HIDE DEF w, b
    <2>5. v \in Writer /\ v.text = w.text /\ v.next = w.next + 1 /\ v.open = w.open /\ v.buffer = b
      <3>1. w.next + 1 \in Nat \ {0}
        BY <1>1
      <3> QED
        BY <1>1, <2>4, <3>1 DEF Writer
    <2> HIDE DEF v
    <2>6. EventInv(v, pushed, e)
      BY <1>1, <2>1, <2>4, <2>5, WriteKeeps
    <2>7. ASSUME NEW d \in LogEvents PROVE EventInv(writer'[d], pushed', d)
      BY <1>1, <2>2, <2>6 DEF WholeInv
    <2> QED
      BY <2>7 DEF WholeInv
  <1>3. CASE Split(e)
    <2>1. w.open /\ Ends(w.buffer) # {}
      BY <1>3 DEF Split
    <2>2. PICK line \in Seq(STRING), rest \in Seq(STRING) :
            /\ line = SubSeq(w.buffer, 1, Until(w.buffer) - 1)
            /\ rest = SubSeq(w.buffer, Until(w.buffer) + 1, Len(w.buffer))
            /\ w.buffer = Glued(line, Glued(<<EndOfLine>>, rest))
            /\ "\n" \notin Range(line)
            /\ EndOfLine \in STRING
      BY <1>1, <2>1, BufferSplits
    <2> DEFINE v == [w EXCEPT !.buffer = rest]
               end == <<EndOfLine>>
    <2>3. PushLine(e, line) /\ writer' = [writer EXCEPT ![e] = v]
      BY <1>3, <2>2 DEF Split
    <2> HIDE DEF w
    <2>4. v \in Writer /\ v.text = w.text /\ v.next = w.next /\ v.open = w.open /\ v.buffer = rest
      BY <1>1, <2>2 DEF Writer
    <2>5. end \in Seq(STRING) /\ Letters(end) = <<>>
      BY <2>2, OneAsSeq, NoLetter
    <2>6. w.buffer = Glued(line, Glued(end, v.buffer)) /\ end = <<EndOfLine>>
      BY <2>2, <2>4
    <2>8. "\n" \notin Range(line)
      BY <2>2, Zenon
    <2> HIDE DEF v, end
    <2>7. /\ EventInv(v, Append(pushed, [of |-> e, line |-> line]), e)
          /\ line = <<>> => EventInv(v, pushed, e)
      <3>1. IF v.open THEN end = <<EndOfLine>> ELSE end = <<>> /\ v.buffer = <<>>
        BY <2>1, <2>4, <2>6
      <3> QED
        BY <1>1, <2>1, <2>4, <2>5, <2>6, <2>8, <3>1, LineIsKept
    <2> QED
      BY <2>3, <2>4, <2>7, EventsApart
  <1>4. CASE Flush(e)
    <2> DEFINE none == <<>>
               v == [w EXCEPT !.open = FALSE, !.buffer = none]
               line == w.buffer
    <2>1. w.open /\ Ends(line) = {}
      BY <1>4 DEF Flush
    <2>2. PushLine(e, line) /\ writer' = [writer EXCEPT ![e] = v]
      BY <1>4 DEF Flush
    <2>3. none \in Seq(STRING) /\ Letters(none) = none
      BY EmptySeq, NoLetters
    <2> HIDE DEF w
    <2>4. v \in Writer /\ v.text = w.text /\ v.next = w.next /\ v.buffer = none
      BY <1>1, <2>3 DEF Writer
    <2>5. ~v.open
      BY <1>1 DEF Writer
    <2>6. line = Glued(line, Glued(none, v.buffer)) /\ line \in Seq(STRING)
      <3>1. Glued(none, none) = none /\ Glued(line, none) = line
        BY <1>1, <2>3, GluedProperties
      <3> QED
        BY <1>1, <2>4, <3>1
    <2>7. "\n" \notin Range(line)
      BY <2>1, Zenon DEF Ends, Range
    <2> HIDE DEF v
    <2>8. /\ EventInv(v, Append(pushed, [of |-> e, line |-> line]), e)
          /\ line = <<>> => EventInv(v, pushed, e)
      <3>1. IF v.open THEN none = <<EndOfLine>> ELSE none = <<>> /\ v.buffer = <<>>
        BY <2>4, <2>5
      <3>2. w.buffer = Glued(line, Glued(none, v.buffer))
        BY <2>6
      <3> HIDE DEF line, none
      <3> QED
        BY <1>1, <2>1, <2>3, <2>4, <2>6, <2>7, <3>1, <3>2, LineIsKept DEF none
    <2> QED
      BY <2>2, <2>4, <2>6, <2>8, EventsApart
  <1> QED
    BY <1>2, <1>3, <1>4

(* What is asked for of the ring, whatever its length.                       *)
LEMMA RecentIs ==
  ASSUME LogInv, NEW limit \in Nat
  PROVE  /\ Recent(limit) \in Seq(Line)
         /\ Len(Recent(limit)) = IF limit < Len(ring) THEN limit ELSE Len(ring)
         /\ \A i \in 1 .. Len(Recent(limit)) :
              Recent(limit)[i] = pushed[Len(pushed) - Len(Recent(limit)) + i]
  <1> DEFINE k == Len(ring)
             n == Len(pushed)
             m == IF limit < k THEN k - limit ELSE 0
             r == SubSeq(ring, m + 1, k)
  <1>1. /\ ring \in Seq(Line) /\ k \in Nat /\ n \in Nat
        /\ \A i \in 1 .. k : ring[i] \in Line /\ ring[i] = pushed[n - k + i]
    BY LenProperties, ElementOfSeq DEF LogInv, LogTypeOK, RingInv
  <1>2. Recent(limit) = r
    BY DEF Recent
  <1> HIDE DEF k, n
  <1>3. m + 1 \in Int /\ k \in Int /\ m \in 0 .. k /\ \A i \in m + 1 .. k : ring[i] \in Line
    BY <1>1
  <1>4. /\ r \in Seq(Line) /\ Len(r) = (IF m + 1 <= k THEN k - (m + 1) + 1 ELSE 0)
        /\ \A i \in 1 .. k - (m + 1) + 1 : r[i] = ring[m + 1 + i - 1]
    <2> HIDE DEF m
    <2> QED
      BY <1>3, SubSeqProperties
  <1> HIDE DEF r
  <1>5. Len(r) = k - m /\ \A i \in 1 .. k - m : r[i] = ring[m + i]
    <2> HIDE DEF m
    <2>1. Len(r) = k - m /\ k - (m + 1) + 1 = k - m
      BY <1>1, <1>3, <1>4
    <2>2. \A i \in 1 .. k - m : m + 1 + i - 1 = m + i
      BY <1>1, <1>3
    <2> QED
      BY <1>4, <2>1, <2>2
  <1>6. Len(r) = IF limit < k THEN limit ELSE k
    BY <1>1, <1>5
  <1>7. ASSUME NEW i \in 1 .. k - m PROVE r[i] = pushed[n - (k - m) + i]
    <2> HIDE DEF m
    <2>1. m + i \in 1 .. k /\ n - k + (m + i) = n - (k - m) + i
      BY <1>1, <1>3
    <2>2. ring[m + i] = pushed[n - k + (m + i)]
      BY <1>1, <2>1
    <2> QED
      BY <1>5, <2>1, <2>2
  <1> HIDE DEF m
  <1>8. \A i \in 1 .. Len(r) : r[i] = pushed[n - Len(r) + i]
    BY <1>5, <1>7
  <1> QED
    BY <1>2, <1>4, <1>6, <1>8 DEF k, n

(* What a monitor is shown is the newest lines there were, none skipped.     *)
LEMMA NewestAreShown == LogInv => ShownNewest
  <1> SUFFICES ASSUME LogInv, NEW limit \in 0 .. Capacity + 1
               PROVE  LET n == CHOOSE n \in {limit, Capacity, Len(pushed)} :
                                 \A m \in {limit, Capacity, Len(pushed)} : n <= m
                      IN Recent(limit) = SubSeq(pushed, Len(pushed) - n + 1, Len(pushed))
    BY DEF ShownNewest
  <1> DEFINE all == Len(pushed)
             T == {limit, Capacity, all}
             n == CHOOSE n \in T : \A m \in T : n <= m
             r == Recent(limit)
             s == SubSeq(pushed, all - n + 1, all)
  <1>1. all \in Nat /\ limit \in Nat /\ Capacity \in Nat /\ pushed \in Seq(Line)
        /\ Len(ring) = IF all < Capacity THEN all ELSE Capacity
    BY LogAssumption, LenProperties DEF LogInv, LogTypeOK, RingInv
  <1>2. /\ r \in Seq(Line) /\ Len(r) = IF limit < Len(ring) THEN limit ELSE Len(ring)
        /\ \A i \in 1 .. Len(r) : r[i] = pushed[all - Len(r) + i]
    BY <1>1, RecentIs
  <1> HIDE DEF all, r
  <1>3. \E k \in T : \A m \in T : k <= m
    BY <1>1
  <1>4. n \in T /\ \A m \in T : n <= m
    <2> HIDE DEF T
    <2> QED
      BY <1>3
  <1> HIDE DEF n
  <1>5. n \in 0 .. all /\ Len(r) = n
    BY <1>1, <1>2, <1>4
  <1>6. \A i \in all - n + 1 .. all : pushed[i] \in Line
    <2>1. \A i \in 1 .. all : pushed[i] \in Line
      BY <1>1, ElementOfSeq DEF all
    <2> QED
      BY <1>1, <1>5, <2>1
  <1>7. /\ s \in Seq(Line) /\ Len(s) = (IF all - n + 1 <= all THEN all - (all - n + 1) + 1 ELSE 0)
        /\ \A i \in 1 .. all - (all - n + 1) + 1 : s[i] = pushed[all - n + 1 + i - 1]
    <2>1. all - n + 1 \in Int /\ all \in Int
      BY <1>1, <1>5
    <2> QED
      BY <1>6, <2>1, SubSeqProperties
  <1> HIDE DEF s
  <1>8. Len(s) = n /\ \A i \in 1 .. n : s[i] = pushed[all - n + i]
    <2>1. Len(s) = n /\ all - (all - n + 1) + 1 = n
      BY <1>1, <1>5, <1>7
    <2>2. \A i \in 1 .. n : all - n + 1 + i - 1 = all - n + i
      BY <1>1, <1>5
    <2> QED
      BY <1>7, <2>1, <2>2
  <1>9. r = s
    <2>1. Len(r) = Len(s) /\ \A i \in 1 .. Len(r) : r[i] = s[i]
      BY <1>2, <1>5, <1>8
    <2> QED
      BY <1>2, <1>7, <2>1, SeqEqual
  <1> QED
    BY <1>9 DEF r, s, n, all

-----------------------------------------------------------------------------
(* The terminal. A panel held still has the line the user left on top; the    *)
(* answers got so far fit together; the samples are of different polls, the   *)
(* one being asked for of this one.                                         *)
Polling == {"readyz", "metrics", "events", "logs"}

Fitting(s) == Unknown \notin {s.total, s.newest} => s.newest >= s.total

HeldInv ==
  monitor.scroll # Following /\ ~moved /\ held # Unknown =>
    /\ monitor.scroll < Len(monitor.status.lines)
    /\ monitor.status.lines[monitor.scroll + 1] = held

AskedInv ==
  LET a == monitor.asked IN
  /\ monitor.pc \notin {"metrics", "events", "logs"} => a = Silent
  /\ monitor.pc \in {"metrics", "events", "logs"} => a.connected
  /\ a.lines = <<>>
  /\ monitor.pc \in {"metrics", "events"} => a.newest = Unknown
  /\ monitor.pc = "metrics" => a.total = Unknown
  /\ monitor.pc = "events" /\ a.total # Unknown => a.total <= served.events
  /\ Fitting(a)
  /\ a.rss \in {Unknown, monitor.polls}

SamplesInv ==
  \A i \in DOMAIN monitor.rss :
    monitor.rss[i] <= monitor.polls /\ (monitor.pc \in Polling => monitor.rss[i] < monitor.polls)

ScreenInv ==
  /\ MonitorTypeOK
  /\ HeldInv
  /\ AskedInv
  /\ SnapshotTrue
  /\ TrendTrue
  /\ SamplesInv

LEMMA SilentStatus == Silent \in Status /\ Fitting(Silent) /\ Silent.lines = <<>> /\ Silent.rss = Unknown
                      /\ Silent.newest = Unknown /\ Silent.total = Unknown
  BY DEF Silent, Status, Fitting

LEMMA ScreenTypes ==
  ASSUME MonitorTypeOK
  PROVE  /\ monitor \in MonitorState /\ monitor.status \in Status /\ monitor.asked \in Status
         /\ monitor.status.lines \in Seq(Line) /\ Len(monitor.status.lines) \in Nat
         /\ monitor.polls \in Nat /\ monitor.rss \in Seq(Nat)
         /\ monitor.pc \in Polling \cup {"shown", "exited"}
         /\ served.events \in Nat
  <1>1. monitor \in MonitorState /\ served \in [up : BOOLEAN, events : 0 .. MaxRecorded]
    BY DEF MonitorTypeOK
  <1>2. MaxRefreshes \in Nat /\ MaxRecorded \in Nat
    BY MonitorAssumption
  <1>3. monitor.status \in Status
    BY <1>1 DEF MonitorState
  <1> QED
    BY <1>1, <1>2, <1>3, LenProperties DEF MonitorState, Status, Polling

(* The poll has one answer more.                                             *)
LEMMA AskStep ==
  ASSUME ScreenInv, NEW pc \in {"metrics", "events", "logs"}, NEW a \in Status,
         monitor' = [monitor EXCEPT !.pc = pc, !.asked = a], monitor.pc \in Polling,
         UNCHANGED <<served, panelVars>>, troubles' \in 0 .. MaxTroubles,
         a.connected, a.lines = <<>>,
         pc \in {"metrics", "events"} => a.newest = Unknown,
         pc = "metrics" => a.total = Unknown,
         pc = "events" /\ a.total # Unknown => a.total <= served.events,
         Fitting(a), a.rss \in {Unknown, monitor.polls}
  PROVE  ScreenInv'
  <1>1. monitor \in MonitorState
    BY DEF ScreenInv, MonitorTypeOK
  <1>2. /\ monitor' \in MonitorState /\ monitor'.pc = pc /\ monitor'.asked = a
        /\ monitor'.status = monitor.status /\ monitor'.scroll = monitor.scroll
        /\ monitor'.rss = monitor.rss /\ monitor'.polls = monitor.polls
    BY <1>1 DEF MonitorState
  <1>3. MonitorTypeOK'
    BY <1>2 DEF ScreenInv, MonitorTypeOK, panelVars
  <1>4. HeldInv'
    BY <1>2 DEF ScreenInv, HeldInv, panelVars
  <1>5. AskedInv'
    BY <1>2 DEF AskedInv, Fitting
  <1>6. SnapshotTrue' /\ TrendTrue'
    BY <1>2 DEF ScreenInv, SnapshotTrue, TrendTrue
  <1>7. SamplesInv'
    BY <1>2 DEF ScreenInv, SamplesInv, Polling
  <1> QED
    BY <1>3, <1>4, <1>5, <1>6, <1>7 DEF ScreenInv

(* The samples after one more.                                               *)
LEMMA Sampled ==
  ASSUME ScreenInv, monitor.pc \in Polling, NEW sample \in {Unknown, monitor.polls}
  PROVE  /\ PushSample(sample) \in Seq(Nat)
         /\ Len(PushSample(sample)) <= Window
         /\ \A i, j \in DOMAIN PushSample(sample) :
              i < j => PushSample(sample)[i] < PushSample(sample)[j]
         /\ \A i \in DOMAIN PushSample(sample) : PushSample(sample)[i] <= monitor.polls
         /\ sample # Unknown => PushSample(sample) # <<>> /\ Last(PushSample(sample)) = sample
  <1> DEFINE rss == monitor.rss
             l == Len(rss)
             t == PushSample(sample)
             all == Append(rss, sample)
  <1>1. /\ rss \in Seq(Nat) /\ l \in Nat /\ DOMAIN rss = 1 .. l /\ l <= Window
        /\ monitor.polls \in Nat /\ Window \in Nat \ {0}
        /\ \A i, j \in 1 .. l : i < j => rss[i] < rss[j]
        /\ \A i \in 1 .. l : rss[i] < monitor.polls /\ rss[i] \in Nat
    BY ScreenTypes, LenProperties, ElementOfSeq, MonitorAssumption
    DEF ScreenInv, TrendTrue, SamplesInv
  <1>2. CASE sample = Unknown
    <2>1. t = rss
      BY <1>2 DEF PushSample
    <2> HIDE DEF rss, t
    <2> QED
      BY <1>1, <1>2, <2>1 DEF t
  <1>3. CASE sample # Unknown
    <2>1. sample \in Nat /\ sample = monitor.polls
      BY <1>1, <1>3
    <2>2. t = IF Len(all) > Window THEN Tail(all) ELSE all
      BY <1>3 DEF PushSample
    <2>3. /\ all \in Seq(Nat) /\ Len(all) = l + 1 /\ all # <<>>
          /\ all[l + 1] = sample /\ \A i \in 1 .. l : all[i] = rss[i]
      BY <1>1, <2>1, AppendProperties
    <2>4. /\ Tail(all) \in Seq(Nat) /\ Len(Tail(all)) = Len(all) - 1
          /\ \A i \in 1 .. Len(Tail(all)) : Tail(all)[i] = all[i + 1]
      <3> HIDE DEF all
      <3> QED
        BY <2>3, HeadTailProperties
    <2> HIDE DEF rss, l, all, t
    <2>5. \A i, j \in 1 .. l + 1 : i < j => all[i] < all[j]
      <3> SUFFICES ASSUME NEW i \in 1 .. l + 1, NEW j \in 1 .. l + 1, i < j PROVE all[i] < all[j]
        OBVIOUS
      <3>1. i \in 1 .. l /\ all[i] = rss[i] /\ rss[i] < sample
        BY <1>1, <2>1, <2>3
      <3>2. CASE j = l + 1
        BY <2>3, <3>1, <3>2
      <3>3. CASE j # l + 1
        <4>1. j \in 1 .. l /\ all[j] = rss[j]
          BY <1>1, <2>3, <3>3
        <4> QED
          BY <1>1, <3>1, <4>1
      <3> QED
        BY <3>2, <3>3
    <2>6. \A i \in 1 .. l + 1 : all[i] <= monitor.polls
      BY <1>1, <2>1, <2>3
    <2>7. CASE l + 1 > Window
      <3>1. t = Tail(all) /\ Len(t) = l /\ l = Window /\ \A i \in 1 .. l : t[i] = all[i + 1]
        BY <1>1, <2>2, <2>3, <2>4, <2>7
      <3>2. t \in Seq(Nat) /\ DOMAIN t = 1 .. l
        BY <2>4, <3>1, LenProperties
      <3>3. \A i \in 1 .. l : i + 1 \in 1 .. l + 1
        BY <1>1
      <3>4. \A i, j \in 1 .. l : i < j => t[i] < t[j]
        BY <1>1, <2>5, <3>1, <3>3
      <3>5. \A i \in 1 .. l : t[i] <= monitor.polls
        BY <2>6, <3>1, <3>3
      <3>6. t # <<>> /\ t[l] = sample
        BY <1>1, <2>3, <3>1, <3>2, EmptySeq
      <3> QED
        BY <1>1, <3>1, <3>2, <3>4, <3>5, <3>6 DEF Last, t
    <2>8. CASE ~ (l + 1 > Window)
      <3>1. t = all /\ DOMAIN t = 1 .. l + 1 /\ Len(t) = l + 1
        BY <1>1, <2>2, <2>3, <2>8, LenProperties
      <3>2. Len(t) <= Window
        BY <1>1, <2>8, <3>1
      <3> QED
        BY <2>3, <2>5, <2>6, <3>1, <3>2 DEF Last, t
    <2> QED
      BY <2>7, <2>8
  <1> QED
    BY <1>2, <1>3

(* A poll is over. What was fetched begins as what was there, or is said to   *)
(* have moved.                                                              *)
LEMMA PolledStep ==
  ASSUME ScreenInv, NEW s \in Status, Polled(s), monitor.pc \in Polling,
         UNCHANGED served, troubles' \in 0 .. MaxTroubles,
         Len(s.lines) <= Fetched, Fitting(s), s.connected \/ s = Silent,
         s.rss \in {Unknown, monitor.polls}
  PROVE  ScreenInv'
  <1> DEFINE t == PushSample(s.rss)
             old == monitor.status.lines
             new == s.lines
             pc == IF monitor.polls = 1 /\ ~s.connected THEN "exited" ELSE "shown"
  <1>1. monitor \in MonitorState
    BY DEF ScreenInv, MonitorTypeOK
  <1>2. /\ t \in Seq(Nat) /\ Len(t) <= Window
        /\ \A i, j \in DOMAIN t : i < j => t[i] < t[j]
        /\ \A i \in DOMAIN t : t[i] <= monitor.polls
        /\ s.rss # Unknown => t # <<>> /\ Last(t) = s.rss
    BY Sampled
  <1>3. /\ monitor' = [monitor EXCEPT !.pc = pc, !.status = s, !.asked = Silent, !.rss = t]
        /\ moved' = (moved \/ ~IsPrefix(old, new)) /\ held' = held
    BY DEF Polled
  <1> HIDE DEF t, pc
  <1>4. pc \in {"exited", "shown"}
    BY DEF pc
  <1>5. /\ monitor' \in MonitorState /\ monitor'.pc = pc /\ monitor'.asked = Silent
        /\ monitor'.status = s /\ monitor'.scroll = monitor.scroll
        /\ monitor'.rss = t /\ monitor'.polls = monitor.polls
    BY <1>1, <1>2, <1>3, <1>4, SilentStatus DEF MonitorState
  <1>6. MonitorTypeOK'
    BY <1>3, <1>5 DEF ScreenInv, MonitorTypeOK
  <1>7. HeldInv'
    <2> SUFFICES ASSUME monitor.scroll # Following, ~moved', held # Unknown
                 PROVE  monitor.scroll < Len(new) /\ new[monitor.scroll + 1] = held
      BY <1>3, <1>5 DEF HeldInv
    <2>1. ~moved /\ IsPrefix(old, new)
      BY <1>3
    <2>2. monitor.scroll < Len(old) /\ old[monitor.scroll + 1] = held /\ monitor.scroll \in Nat
      BY <1>1, <2>1 DEF ScreenInv, HeldInv, MonitorState
    <2>3. old \in Seq(Line) /\ new \in Seq(Line) /\ Len(old) \in Nat /\ Len(new) \in Nat
      BY ScreenTypes, LenProperties DEF ScreenInv, Status
    <2> HIDE DEF old, new
    <2>4. Len(old) <= Len(new) /\ SubSeq(old, 1, Len(old)) = SubSeq(new, 1, Len(old))
      BY <2>1 DEF IsPrefix
    <2>5. \A i \in 1 .. Len(old) : old[i] \in Line /\ new[i] \in Line
      BY <2>3, <2>4, ElementOfSeq
    <2>6. \A i \in 1 .. Len(old) - 1 + 1 : SubSeq(old, 1, Len(old))[i] = old[1 + i - 1]
      BY <2>3, <2>5, SubSeqProperties
    <2>7. \A i \in 1 .. Len(old) - 1 + 1 : SubSeq(new, 1, Len(old))[i] = new[1 + i - 1]
      BY <2>3, <2>5, SubSeqProperties
    <2>8. PICK i \in 1 .. Len(old) : i = monitor.scroll + 1
      BY <2>2, <2>3
    <2>9. i \in 1 .. Len(old) - 1 + 1 /\ 1 + i - 1 = i
      BY <2>3
    <2>10. old[i] = new[i]
      BY <2>4, <2>6, <2>7, <2>9
    <2> QED
      BY <2>2, <2>3, <2>4, <2>8, <2>10
  <1>8. AskedInv'
    BY <1>4, <1>5, SilentStatus DEF AskedInv, Fitting
  <1>9. SnapshotTrue'
    BY <1>5 DEF SnapshotTrue, Fitting
  <1>10. TrendTrue' /\ SamplesInv'
    BY <1>2, <1>4, <1>5 DEF TrendTrue, SamplesInv, Polling
  <1> QED
    BY <1>6, <1>7, <1>8, <1>9, <1>10 DEF ScreenInv

LEMMA OffsetType ==
  ASSUME MonitorTypeOK
  PROVE  /\ Offset \in Nat /\ MaxOffset(monitor.status.lines) \in Nat
         /\ monitor.scroll # Following => Offset = monitor.scroll
  <1>1. Len(monitor.status.lines) \in Nat /\ VisibleLines \in Nat \ {0}
        /\ monitor.scroll \in Nat \cup {Following}
    BY ScreenTypes, MonitorAssumption DEF MonitorState
  <1> QED
    BY <1>1 DEF Offset, MaxOffset

(* A key.                                                                   *)
LEMMA PressStep ==
  ASSUME ScreenInv, Press
  PROVE  ScreenInv'
  <1>1. PICK scroll \in {Up(by) : by \in Strides} \cup {Down(by) : by \in Strides} \cup {0, Following} :
          monitor' = [monitor EXCEPT !.scroll = scroll] /\ Hold(scroll)
    BY DEF Press
  <1>2. UNCHANGED <<served, troubles>> /\ monitor \in MonitorState
    BY DEF Press, ScreenInv, MonitorTypeOK
  <1>3. scroll \in Nat \cup {Following}
    <2>1. Offset \in Nat /\ \A by \in Strides : by \in Nat
      BY OffsetType, MonitorAssumption DEF ScreenInv
    <2>2. \A by \in Strides : Up(by) \in Nat /\ Down(by) \in Nat \cup {Following}
      BY <2>1 DEF Up, Down
    <2> QED
      BY <1>1, <2>2
  <1>4. /\ monitor' \in MonitorState /\ monitor'.pc = monitor.pc /\ monitor'.asked = monitor.asked
        /\ monitor'.status = monitor.status /\ monitor'.scroll = scroll
        /\ monitor'.rss = monitor.rss /\ monitor'.polls = monitor.polls
    BY <1>1, <1>2, <1>3 DEF MonitorState
  <1> DEFINE lines == monitor.status.lines
  <1>5. /\ held' = (IF scroll = Following \/ scroll >= Len(lines) THEN Unknown ELSE lines[scroll + 1])
        /\ moved' \in BOOLEAN
    BY <1>1 DEF Hold
  <1>6. lines \in Seq(Line) /\ Len(lines) \in Nat
    BY ScreenTypes DEF ScreenInv
  <1> HIDE DEF lines
  <1>7. held' # Unknown =>
          held' \in Line /\ scroll # Following /\ scroll < Len(lines) /\ lines[scroll + 1] = held'
    <2> SUFFICES ASSUME held' # Unknown
                 PROVE  held' \in Line /\ scroll # Following /\ scroll < Len(lines) /\ lines[scroll + 1] = held'
      OBVIOUS
    <2>1. scroll # Following /\ ~(scroll >= Len(lines)) /\ held' = lines[scroll + 1]
      BY <1>5
    <2>2. scroll \in Nat /\ scroll < Len(lines) /\ scroll + 1 \in 1 .. Len(lines)
      BY <1>3, <1>6, <2>1
    <2> QED
      BY <1>6, <2>1, <2>2, ElementOfSeq
  <1>8. MonitorTypeOK'
    BY <1>2, <1>4, <1>5, <1>7 DEF ScreenInv, MonitorTypeOK
  <1>9. HeldInv'
    BY <1>4, <1>7 DEF HeldInv, lines
  <1>10. AskedInv' /\ SnapshotTrue' /\ TrendTrue' /\ SamplesInv'
    BY <1>2, <1>4 DEF ScreenInv, AskedInv, SnapshotTrue, TrendTrue, SamplesInv
  <1> QED
    BY <1>8, <1>9, <1>10 DEF ScreenInv

(* A step of the daemon's, not of the terminal's.                            *)
LEMMA AwayStep ==
  ASSUME ScreenInv, UNCHANGED <<monitor, panelVars>>, served' \in [up : BOOLEAN, events : 0 .. MaxRecorded],
         served.events <= served'.events, troubles' \in 0 .. MaxTroubles
  PROVE  ScreenInv'
  <1>1. MonitorTypeOK'
    BY DEF ScreenInv, MonitorTypeOK, panelVars
  <1>2. AskedInv'
    <2>1. served.events \in Nat /\ served'.events \in Nat /\ monitor.asked.total \in Nat \cup {Unknown}
      BY ScreenTypes, MonitorAssumption DEF ScreenInv, Status
    <2> QED
      BY <2>1 DEF ScreenInv, AskedInv, Fitting
  <1> QED
    BY <1>1, <1>2 DEF ScreenInv, HeldInv, SnapshotTrue, TrendTrue, SamplesInv, panelVars

LEMMA TroubleType ==
  ASSUME MonitorTypeOK, Trouble \/ UNCHANGED troubles
  PROVE  troubles' \in 0 .. MaxTroubles
  BY MonitorAssumption DEF MonitorTypeOK, Trouble

LEMMA ScreenStep ==
  ASSUME LogInv, ScreenInv, MonitorNext \/ (LogNext /\ UNCHANGED terminalVars)
  PROVE  LogInv' /\ ScreenInv'
  <1>a. LogNext => LogInv'
    BY LogStep
  <1>b. UNCHANGED logVars => LogInv'
    BY LogStep
  <1>c. MonitorTypeOK /\ monitor \in MonitorState /\ monitor.asked \in Status
    BY ScreenTypes DEF ScreenInv
  <1>d. /\ Responds => troubles' \in 0 .. MaxTroubles
        /\ Unanswered => troubles' \in 0 .. MaxTroubles
        /\ Trouble => troubles' \in 0 .. MaxTroubles
        /\ UNCHANGED troubles => troubles' \in 0 .. MaxTroubles
    BY <1>c, TroubleType DEF Responds, Unanswered
  <1>e. served \in [up : BOOLEAN, events : 0 .. MaxRecorded] /\ served.events \in Nat
        /\ MaxRecorded \in Nat
    BY <1>c, ScreenTypes, MonitorAssumption DEF MonitorTypeOK
  <1>1. CASE Press
    BY <1>1, <1>b, PressStep DEF Press
  <1>2. CASE Quit
    <2>1. /\ monitor' \in MonitorState /\ monitor'.pc = "exited" /\ monitor'.asked = monitor.asked
          /\ monitor'.status = monitor.status /\ monitor'.scroll = monitor.scroll
          /\ monitor'.rss = monitor.rss /\ monitor'.polls = monitor.polls
          /\ UNCHANGED <<logVars, served, troubles, held, moved>> /\ monitor.pc = "shown"
      BY <1>2, <1>c DEF Quit, MonitorState, panelVars
    <2> QED
      BY <1>b, <2>1
      DEF ScreenInv, MonitorTypeOK, HeldInv, AskedInv, SnapshotTrue, TrendTrue, SamplesInv, Polling
  <1>3. CASE Refresh
    <2>1. monitor.polls \in 1 .. MaxRefreshes /\ monitor.polls < MaxRefreshes /\ MaxRefreshes \in Nat
      BY <1>3, <1>c, MonitorAssumption DEF Refresh, MonitorState
    <2>2. monitor.polls + 1 \in 1 .. MaxRefreshes /\ monitor.polls \in Nat
      BY <2>1
    <2>3. /\ monitor' \in MonitorState /\ monitor'.pc = "readyz" /\ monitor'.asked = Silent
          /\ monitor'.status = monitor.status /\ monitor'.scroll = monitor.scroll
          /\ monitor'.rss = monitor.rss /\ monitor'.polls = monitor.polls + 1
          /\ UNCHANGED <<logVars, served, troubles, held, moved>>
      BY <1>3, <1>c, <2>2, SilentStatus DEF Refresh, MonitorState, panelVars
    <2>4. MonitorTypeOK' /\ HeldInv' /\ SnapshotTrue' /\ TrendTrue'
      BY <2>3 DEF ScreenInv, MonitorTypeOK, HeldInv, SnapshotTrue, TrendTrue
    <2>5. AskedInv'
      BY <2>3, SilentStatus DEF AskedInv, Fitting
    <2>6. SamplesInv'
      <3>1. \A i \in DOMAIN monitor.rss : monitor.rss[i] <= monitor.polls /\ monitor.rss[i] \in Nat
        BY ScreenTypes, LenProperties, ElementOfSeq DEF ScreenInv, SamplesInv
      <3>2. \A i \in DOMAIN monitor.rss : monitor.rss[i] < monitor.polls + 1
        BY <2>2, <3>1
      <3>3. \A i \in DOMAIN monitor.rss : monitor.rss[i] <= monitor.polls + 1
        BY <2>2, <3>1
      <3> QED
        BY <2>3, <3>2, <3>3 DEF SamplesInv
    <2> QED
      BY <1>b, <2>3, <2>4, <2>5, <2>6 DEF ScreenInv
  <1>4. CASE AskReadyz
    <2>1. monitor.pc = "readyz" /\ UNCHANGED <<logVars, served>> /\ monitor.asked = Silent
      BY <1>4 DEF AskReadyz, ScreenInv, AskedInv
    <2>2. CASE Responds /\ monitor' = [monitor EXCEPT !.pc = "metrics", !.asked.connected = TRUE]
               /\ UNCHANGED panelVars
      <3> DEFINE a == [monitor.asked EXCEPT !.connected = TRUE]
      <3>1. /\ a \in Status /\ a.connected /\ a.lines = <<>> /\ a.newest = Unknown
            /\ a.total = Unknown /\ a.rss = Unknown
        BY <1>c, <2>1, SilentStatus DEF Status
      <3>2. monitor' = [monitor EXCEPT !.pc = "metrics", !.asked = a]
        BY <2>2
      <3> HIDE DEF a
      <3>3. Fitting(a) /\ monitor.pc \in Polling
        BY <2>1, <3>1 DEF Fitting, Polling
      <3> QED
        BY <1>b, <1>d, <2>1, <2>2, <3>1, <3>2, <3>3, AskStep
    <2>3. CASE Unanswered /\ Polled(Silent)
      <3>1. Len(Silent.lines) <= Fetched /\ monitor.pc \in Polling
        BY <2>1, SilentStatus, EmptySeq, MonitorAssumption DEF Polling
      <3> QED
        BY <1>b, <1>d, <2>1, <2>3, <3>1, SilentStatus, PolledStep
    <2> QED
      BY <1>4, <2>2, <2>3 DEF AskReadyz
  <1>5. CASE AskMetrics
    <2>1. monitor.pc = "metrics" /\ UNCHANGED <<logVars, served, panelVars>> /\ monitor.pc \in Polling
          /\ troubles' \in 0 .. MaxTroubles
      BY <1>5, <1>d DEF AskMetrics, Polling
    <2>2. /\ monitor.asked.connected /\ monitor.asked.lines = <<>>
          /\ monitor.asked.newest = Unknown /\ monitor.asked.total = Unknown
          /\ monitor.asked.rss \in {Unknown, monitor.polls} /\ monitor.polls \in Nat
      BY <2>1, ScreenTypes DEF ScreenInv, AskedInv
    <2>3. ASSUME NEW a \in Status, a.connected, a.lines = <<>>, a.newest = Unknown,
                 a.total \in {Unknown, served.events}, a.rss \in {Unknown, monitor.polls},
                 monitor' = [monitor EXCEPT !.pc = "events", !.asked = a]
          PROVE  ScreenInv'
      <3>1. Fitting(a) /\ (a.total # Unknown => a.total <= served.events)
        BY <1>e, <2>3 DEF Fitting
      <3> QED
        BY <2>1, <2>3, <3>1, AskStep
    <2>4. CASE monitor' = [monitor EXCEPT !.pc = "events", !.asked.rss = monitor.polls,
                                          !.asked.total = served.events]
      <3> DEFINE a == [monitor.asked EXCEPT !.rss = monitor.polls, !.total = served.events]
      <3>1. /\ a \in Status /\ a.connected /\ a.lines = <<>> /\ a.newest = Unknown
            /\ a.total = served.events /\ a.rss = monitor.polls
        BY <1>c, <1>e, <2>2 DEF Status
      <3>2. monitor' = [monitor EXCEPT !.pc = "events", !.asked = a]
        BY <2>4
      <3> HIDE DEF a
      <3> QED
        BY <1>b, <2>1, <2>3, <3>1, <3>2
    <2>5. CASE monitor' = [monitor EXCEPT !.pc = "events", !.asked.rss = monitor.polls]
      <3> DEFINE a == [monitor.asked EXCEPT !.rss = monitor.polls]
      <3>1. /\ a \in Status /\ a.connected /\ a.lines = <<>> /\ a.newest = Unknown
            /\ a.total = Unknown /\ a.rss = monitor.polls
        BY <1>c, <2>2 DEF Status
      <3>2. monitor' = [monitor EXCEPT !.pc = "events", !.asked = a]
        BY <2>5
      <3> HIDE DEF a
      <3> QED
        BY <1>b, <2>1, <2>3, <3>1, <3>2
    <2>6. CASE monitor' = [monitor EXCEPT !.pc = "events"]
      <3>1. monitor' = [monitor EXCEPT !.pc = "events", !.asked = monitor.asked]
        BY <1>c, <2>6 DEF MonitorState
      <3>2. monitor.asked.total \in {Unknown, served.events}
        BY <2>2
      <3> QED
        BY <1>b, <1>c, <2>1, <2>2, <2>3, <3>1, <3>2
    <2> QED
      BY <1>5, <1>b, <2>1, <2>4, <2>5, <2>6 DEF AskMetrics
  <1>6. CASE AskEvents
    <2>1. monitor.pc = "events" /\ UNCHANGED <<logVars, served, panelVars>> /\ monitor.pc \in Polling
          /\ troubles' \in 0 .. MaxTroubles
      BY <1>6, <1>d DEF AskEvents, Polling
    <2>2. /\ monitor.asked.connected /\ monitor.asked.lines = <<>>
          /\ monitor.asked.newest = Unknown
          /\ monitor.asked.total # Unknown => monitor.asked.total <= served.events
          /\ monitor.asked.rss \in {Unknown, monitor.polls} /\ Fitting(monitor.asked)
      BY <2>1 DEF ScreenInv, AskedInv
    <2>3. CASE monitor' = [monitor EXCEPT !.pc = "logs", !.asked.newest = served.events]
      <3> DEFINE a == [monitor.asked EXCEPT !.newest = served.events]
      <3>1. /\ a \in Status /\ a.connected /\ a.lines = <<>> /\ a.newest = served.events
            /\ a.total = monitor.asked.total /\ a.rss = monitor.asked.rss
            /\ a.total \in Nat \cup {Unknown}
        BY <1>c, <1>e, <2>2 DEF Status
      <3>2. monitor' = [monitor EXCEPT !.pc = "logs", !.asked = a]
        BY <2>3
      <3> HIDE DEF a
      <3>3. Fitting(a)
        BY <1>e, <2>2, <3>1 DEF Fitting
      <3> QED
        BY <1>b, <2>1, <2>2, <3>1, <3>2, <3>3, AskStep
    <2>4. CASE monitor' = [monitor EXCEPT !.pc = "logs"]
      <3>1. monitor' = [monitor EXCEPT !.pc = "logs", !.asked = monitor.asked]
        BY <1>c, <2>4 DEF MonitorState
      <3> QED
        BY <1>b, <1>c, <2>1, <2>2, <3>1, AskStep
    <2> QED
      BY <1>6, <2>3, <2>4 DEF AskEvents
  <1>7. CASE AskLogs
    <2>1. monitor.pc = "logs" /\ UNCHANGED <<logVars, served>> /\ monitor.pc \in Polling
          /\ troubles' \in 0 .. MaxTroubles
      BY <1>7, <1>d DEF AskLogs, Polling
    <2>2. /\ monitor.asked.connected /\ monitor.asked.lines = <<>>
          /\ monitor.asked.rss \in {Unknown, monitor.polls} /\ Fitting(monitor.asked)
      BY <2>1 DEF ScreenInv, AskedInv
    <2>3. CASE Polled([monitor.asked EXCEPT !.lines = Logs(Fetched)])
      <3> DEFINE a == [monitor.asked EXCEPT !.lines = Logs(Fetched)]
      <3>1. Logs(Fetched) \in Seq(Line) /\ Len(Logs(Fetched)) <= Fetched
        <4> DEFINE limit == IF Fetched < Capacity THEN Fetched ELSE Capacity
        <4>1. limit \in Nat /\ limit <= Fetched /\ Fetched \in Nat /\ Logs(Fetched) = Recent(limit)
          <5>1. Fetched \in Nat /\ Capacity \in Nat
            BY LogAssumption, MonitorAssumption
          <5> QED
            BY <5>1 DEF Logs
        <4>2. Len(ring) \in Nat
          BY LenProperties DEF LogInv, LogTypeOK
        <4> HIDE DEF limit
        <4>3. /\ Recent(limit) \in Seq(Line)
              /\ Len(Recent(limit)) = IF limit < Len(ring) THEN limit ELSE Len(ring)
          BY <4>1, RecentIs
        <4> QED
          BY <4>1, <4>2, <4>3
      <3>2. /\ a \in Status /\ a.connected /\ a.lines = Logs(Fetched)
            /\ a.newest = monitor.asked.newest /\ a.total = monitor.asked.total
            /\ a.rss = monitor.asked.rss
        BY <1>c, <2>2, <3>1 DEF Status
      <3>3. Polled(a)
        BY <2>3
      <3> HIDE DEF a
      <3>4. Fitting(a)
        BY <2>2, <3>2 DEF Fitting
      <3> QED
        BY <1>b, <2>1, <2>2, <3>1, <3>2, <3>3, <3>4, PolledStep
    <2>4. CASE Polled(monitor.asked)
      <3>1. Len(monitor.asked.lines) <= Fetched
        BY <2>2, EmptySeq, MonitorAssumption
      <3> QED
        BY <1>b, <1>c, <2>1, <2>2, <2>4, <3>1, PolledStep
    <2> QED
      BY <1>7, <2>3, <2>4 DEF AskLogs
  <1>8. CASE Log \/ (LogNext /\ UNCHANGED terminalVars)
    <2>1. LogNext /\ UNCHANGED <<served, monitor, troubles, panelVars>>
      BY <1>8 DEF Log, terminalVars
    <2> QED
      BY <1>a, <1>d, <1>e, <2>1, AwayStep
  <1>9. CASE RecordOne
    <2>1. /\ served' = [served EXCEPT !.events = served.events + 1] /\ served.events < MaxRecorded
          /\ UNCHANGED <<logVars, monitor, troubles, panelVars>>
      BY <1>9 DEF RecordOne
    <2>2. served.events + 1 \in 0 .. MaxRecorded /\ served.events <= served.events + 1
      BY <1>e, <2>1
    <2>3. served' \in [up : BOOLEAN, events : 0 .. MaxRecorded] /\ served'.events = served.events + 1
      BY <1>e, <2>1, <2>2
    <2> QED
      BY <1>b, <1>d, <2>1, <2>2, <2>3, AwayStep
  <1>10. CASE GoDown
    <2>1. /\ served' \in [up : BOOLEAN, events : 0 .. MaxRecorded] /\ served'.events = served.events
          /\ UNCHANGED <<logVars, monitor, panelVars>> /\ Trouble
      BY <1>10, <1>e DEF GoDown
    <2> QED
      BY <1>b, <1>d, <1>e, <2>1, AwayStep
  <1>11. CASE ComeUp
    <2>1. /\ served' \in [up : BOOLEAN, events : 0 .. MaxRecorded] /\ served'.events = served.events
          /\ UNCHANGED <<monitor, panelVars, troubles>>
          /\ ring' = <<>> /\ pushed' = <<>>
          /\ writer' = [e \in LogEvents |->
                          [writer[e] EXCEPT !.next = 1, !.buffer = <<>>, !.open = @ \/ writer[e].next > 1]]
      BY <1>11, <1>e DEF ComeUp
    <2>2. ASSUME NEW e \in LogEvents
          PROVE  writer'[e] \in Writer /\ writer'[e].next \in 1 .. Len(writer'[e].text) + 1
      <3> DEFINE q == writer[e]
                 o == q.open \/ q.next > 1
                 w == [q EXCEPT !.next = 1, !.buffer = <<>>, !.open = o]
      <3>1. q \in Writer /\ q.text \in Seq(Seq(STRING)) /\ Len(q.text) \in Nat
        BY LenProperties DEF LogInv, LogTypeOK, Writer
      <3>2. writer'[e] = w
        BY <2>1
      <3> HIDE DEF q
      <3>3. <<>> \in Seq(STRING) /\ o \in BOOLEAN /\ 1 \in Nat \ {0}
        BY <3>1 DEF Writer
      <3> HIDE DEF o
      <3>4. w \in Writer /\ w.text = q.text /\ w.next = 1
        BY <3>1, <3>3 DEF Writer
      <3> HIDE DEF w
      <3> QED
        BY <3>1, <3>2, <3>4
    <2>3. writer' \in [LogEvents -> Writer]
      BY <2>1, <2>2
    <2>4. RingInv'
      <3>1. Len(ring') = 0 /\ Len(pushed') = 0 /\ Capacity \in Nat \ {0}
        BY <2>1, EmptySeq, LogAssumption
      <3> QED
        BY <3>1 DEF RingInv
    <2>5. LogInv'
      BY <2>1, <2>2, <2>3, <2>4, EmptySeq DEF LogInv, LogTypeOK
    <2>6. ScreenInv'
      <3>1. UNCHANGED <<monitor, panelVars>> /\ troubles' \in 0 .. MaxTroubles
        BY <1>d, <2>1
      <3>2. served' \in [up : BOOLEAN, events : 0 .. MaxRecorded]
        BY <2>1
      <3>3. served'.events = served.events /\ served.events \in Nat
        BY <1>e, <2>1
      <3>4. served.events <= served'.events
        BY <3>3
      <3> QED
        BY <3>1, <3>2, <3>4, AwayStep
    <2> QED
      BY <2>5, <2>6
  <1> QED
    BY <1>1, <1>2, <1>3, <1>4, <1>5, <1>6, <1>7, <1>8, <1>9, <1>10, <1>11 DEF MonitorNext

(* What the panel shows.                                                    *)
LEMMA PanelShows == ScreenInv => PanelTrue
  <1> SUFFICES ASSUME ScreenInv PROVE PanelTrue
    OBVIOUS
  <1> DEFINE lines == monitor.status.lines
             n == Len(lines)
             o == Offset
             last == IF o + VisibleLines < n THEN o + VisibleLines ELSE n
             p == Panel
  <1>1. /\ lines \in Seq(Line) /\ n \in Nat /\ o \in Nat /\ VisibleLines \in Nat \ {0}
        /\ monitor.scroll # Following => o = monitor.scroll
        /\ monitor.scroll = Following => o = IF n > VisibleLines THEN n - VisibleLines ELSE 0
    BY ScreenTypes, OffsetType, MonitorAssumption DEF ScreenInv, Offset, MaxOffset
  <1>2. p = SubSeq(lines, o + 1, last)
    BY DEF Panel
  <1> HIDE DEF n, o
  <1>3. last \in 0 .. n
    BY <1>1
  <1> HIDE DEF last, p
  <1>4. /\ p \in Seq(Line) /\ Len(p) = IF o + 1 <= last THEN last - (o + 1) + 1 ELSE 0
        /\ \A i \in 1 .. last - (o + 1) + 1 : p[i] = lines[o + 1 + i - 1]
    <2>1. \A i \in o + 1 .. last : i \in 1 .. n
      BY <1>1, <1>3
    <2>2. \A i \in 1 .. n : lines[i] \in Line
      BY <1>1, ElementOfSeq DEF n
    <2>3. \A i \in o + 1 .. last : lines[i] \in Line
      BY <2>1, <2>2
    <2>4. o + 1 \in Int /\ last \in Int
      BY <1>1, <1>3
    <2> HIDE DEF lines
    <2> QED
      BY <1>2, <2>3, <2>4, SubSeqProperties
  <1>5. CASE monitor.scroll = Following
    <2>1. /\ last = n /\ o \in 0 .. n
          /\ n - o = IF n < VisibleLines THEN n ELSE VisibleLines
      BY <1>1, <1>5 DEF last
    <2>2. Len(p) = n - o
      BY <1>1, <1>4, <2>1
    <2>3. ASSUME p # <<>> PROVE Last(p) = Last(lines)
      <3>1. Len(p) # 0
        BY <1>4, <2>3, EmptySeq
      <3>2. n - o \in 1 .. last - (o + 1) + 1 /\ o + 1 + (n - o) - 1 = n
        BY <1>1, <2>1, <2>2, <3>1
      <3>3. p[n - o] = lines[n]
        BY <1>4, <3>2
      <3> QED
        BY <2>2, <3>3 DEF Last, n
    <2> QED
      BY <1>5, <2>1, <2>2, <2>3 DEF PanelTrue, lines, n, p
  <1>6. CASE monitor.scroll # Following
    <2>1. ASSUME ~moved, held # Unknown
          PROVE  p # <<>> /\ Head(p) = held
      <3>1. o < n /\ lines[o + 1] = held
        BY <1>1, <1>6, <2>1 DEF ScreenInv, HeldInv, n
      <3>2. o + 1 \in 1 .. n /\ last \in o + 1 .. n
        BY <1>1, <3>1 DEF last
      <3>3. Head(p) = lines[o + 1]
        <4> HIDE DEF lines
        <4> QED
          BY <1>1, <1>2, <3>2, HeadTailOfSubSeq DEF n
      <3>4. Len(p) # 0
        BY <1>1, <1>4, <3>2
      <3> QED
        BY <1>4, <3>1, <3>3, <3>4, EmptySeq
    <2> QED
      BY <1>6, <2>1 DEF PanelTrue, p
  <1> QED
    BY <1>5, <1>6

(* The terminal begins with nothing.                                        *)
LEMMA ScreenInitInv ==
  ASSUME TerminalInit
  PROVE  ScreenInv
  <1>1. /\ served = [up |-> TRUE, events |-> 0] /\ troubles = 0 /\ held = Unknown /\ moved = FALSE
        /\ monitor = [pc |-> "readyz", status |-> Silent, asked |-> Silent, scroll |-> Following,
                      rss |-> <<>>, polls |-> 1]
    BY DEF TerminalInit
  <1>2. MaxRefreshes \in Nat \ {0} /\ MaxRecorded \in Nat /\ MaxTroubles \in Nat
        /\ Fetched \in Nat /\ Window \in Nat
    BY MonitorAssumption
  <1>3. /\ monitor.pc = "readyz" /\ monitor.status = Silent /\ monitor.asked = Silent
        /\ monitor.scroll = Following /\ monitor.rss = <<>> /\ monitor.polls = 1
    BY <1>1
  <1>4. Len(<<>>) = 0 /\ <<>> \in Seq(Nat)
    BY EmptySeq
  <1>5. 1 \in 1 .. MaxRefreshes
    BY <1>2
  <1>6. monitor \in MonitorState
    BY <1>1, <1>4, <1>5, SilentStatus DEF MonitorState
  <1>7. MonitorTypeOK
    <2>1. Len(monitor.status.lines) <= Fetched
      BY <1>2, <1>3, <1>4, SilentStatus
    <2>2. served \in [up : BOOLEAN, events : 0 .. MaxRecorded] /\ troubles \in 0 .. MaxTroubles
      BY <1>1, <1>2
    <2> QED
      BY <1>1, <1>6, <2>1, <2>2 DEF MonitorTypeOK
  <1>8. HeldInv
    BY <1>3 DEF HeldInv
  <1>9. AskedInv
    BY <1>3, SilentStatus DEF AskedInv
  <1>10. SnapshotTrue
    BY <1>3, SilentStatus DEF SnapshotTrue
  <1>11. DOMAIN monitor.rss = {}
    BY <1>3
  <1>12. TrendTrue
    BY <1>2, <1>3, <1>4, <1>11, SilentStatus DEF TrendTrue
  <1>13. SamplesInv
    BY <1>11 DEF SamplesInv
  <1> QED
    BY <1>7, <1>8, <1>9, <1>10, <1>12, <1>13 DEF ScreenInv

LEMMA LogInitInv ==
  ASSUME ring = <<>>, pushed = <<>>, writer \in NewWriters \cup {Watched}
  PROVE  LogInv
  <1>1. Len(ring) = 0 /\ Len(pushed) = 0 /\ Capacity \in Nat \ {0}
    BY LogAssumption, EmptySeq
  <1>2. RingInv
    BY <1>1 DEF RingInv
  <1>3. ASSUME NEW text \in Seq(Seq(STRING)), NEW open \in BOOLEAN, NEW q,
               q = [text |-> text, next |-> 1, buffer |-> <<>>, open |-> open]
        PROVE  q \in Writer /\ q.next \in 1 .. Len(q.text) + 1
    <2>1. Len(text) \in Nat /\ <<>> \in Seq(STRING) /\ 1 \in Nat \ {0}
      BY LenProperties, EmptySeq
    <2>2. q \in Writer /\ q.next = 1 /\ q.text = text
      BY <1>3, <2>1 DEF Writer
    <2> QED
      BY <2>1, <2>2
  <1>4. CASE writer \in NewWriters
    <2>1. ASSUME NEW e \in LogEvents
          PROVE  writer[e] \in Writer /\ writer[e].next \in 1 .. Len(writer[e].text) + 1
      <3> DEFINE q == writer[e]
      <3>1. q \in [text : Texts, next : {1}, buffer : {<<>>}, open : {TRUE}]
        BY <1>4 DEF NewWriters
      <3> HIDE DEF q
      <3>2. q.text \in Seq(Seq(STRING)) /\ q = [text |-> q.text, next |-> 1, buffer |-> <<>>, open |-> TRUE]
        BY <3>1, LogAssumption
      <3>3. q \in Writer /\ q.next \in 1 .. Len(q.text) + 1
        BY <1>3, <3>2
      <3> QED
        BY <3>3 DEF q
    <2>2. writer \in [LogEvents -> Writer]
      BY <1>4, <2>1 DEF NewWriters
    <2> QED
      BY <1>2, <2>1, <2>2, EmptySeq DEF LogInv, LogTypeOK
  <1>5. CASE writer = Watched
    <2>1. ASSUME NEW e \in LogEvents
          PROVE  writer[e] \in Writer /\ writer[e].next \in 1 .. Len(writer[e].text) + 1
      <3> DEFINE t == WatchedText
                 q == writer[e]
      <3>1. t \in Seq(Seq(STRING)) /\ <<>> \in Seq(Seq(STRING))
        BY WatchedAssumption
      <3>2. q = (IF e = e1 THEN [Quiet(e) EXCEPT !.text = t, !.open = TRUE] ELSE Quiet(e))
        BY <1>5 DEF Watched
      <3> HIDE DEF t, q
      <3>3. \/ q = [text |-> t, next |-> 1, buffer |-> <<>>, open |-> TRUE]
            \/ q = [text |-> <<>>, next |-> 1, buffer |-> <<>>, open |-> FALSE]
        BY <3>2 DEF Quiet
      <3>4. q \in Writer /\ q.next \in 1 .. Len(q.text) + 1
        BY <1>3, <3>1, <3>3
      <3> QED
        BY <3>4 DEF q
    <2>2. writer \in [LogEvents -> Writer]
      BY <1>5, <2>1 DEF Watched
    <2> QED
      BY <1>2, <2>1, <2>2, EmptySeq DEF LogInv, LogTypeOK
  <1> QED
    BY <1>4, <1>5

LEMMA LogInitWhole ==
  ASSUME ring = <<>>, pushed = <<>>, writer \in NewWriters \cup {Watched}
  PROVE  WholeInv
  <1>1. writer \in [LogEvents -> Writer]
    BY LogInitInv DEF LogInv, LogTypeOK
  <1>2. ASSUME NEW e \in LogEvents PROVE writer[e].next = 1 /\ writer[e].buffer = <<>>
    <2>1. CASE writer \in NewWriters
      <3> DEFINE q == writer[e]
      <3>1. q \in [text : Texts, next : {1}, buffer : {<<>>}, open : {TRUE}]
        BY <2>1 DEF NewWriters
      <3> HIDE DEF q
      <3>2. q.next = 1 /\ q.buffer = <<>>
        BY <3>1
      <3> QED
        BY <3>2 DEF q
    <2>2. CASE writer = Watched
      <3> DEFINE t == WatchedText
                 q == writer[e]
      <3>1. q = (IF e = e1 THEN [Quiet(e) EXCEPT !.text = t, !.open = TRUE] ELSE Quiet(e))
        BY <2>2 DEF Watched
      <3> HIDE DEF t, q
      <3>2. \/ q = [text |-> t, next |-> 1, buffer |-> <<>>, open |-> TRUE]
            \/ q = [text |-> <<>>, next |-> 1, buffer |-> <<>>, open |-> FALSE]
        BY <3>1 DEF Quiet
      <3>3. q.next = 1 /\ q.buffer = <<>>
        BY <3>2
      <3> QED
        BY <3>3 DEF q
    <2> QED
      BY <2>1, <2>2
  <1> QED
    BY <1>1, <1>2, FreshIsWhole DEF WholeInv

(* Every event is in the log as it was written, line by line, whatever is      *)
(* logged meanwhile by however many others; the ring keeps the newest lines,    *)
(* and that is what a request for some of them gets.                         *)
THEOREM LogShowsNewest == LogSpec => []LogSound
  <1>1. LogInit => LogInv /\ WholeInv
    BY LogInitInv, LogInitWhole DEF LogInit
  <1>2. LogInv /\ WholeInv => LogSound
    BY NewestAreShown, WholeShown DEF LogInv, LogSound
  <1>3. LogInv /\ WholeInv /\ [LogNext]_logVars => LogInv' /\ WholeInv'
    <2>1. UNCHANGED logVars /\ WholeInv => WholeInv'
      BY WholeStays
    <2> QED
      BY <2>1, LogStep, WholeStep
  <1> QED
    BY <1>1, <1>2, <1>3, PTL DEF LogSpec

LEMMA ScreenKeeps ==
  LogInv /\ ScreenInv /\ [MonitorNext \/ (LogNext /\ UNCHANGED terminalVars)]_monitorVars
    => LogInv' /\ ScreenInv'
  <1>1. ASSUME LogInv, ScreenInv, UNCHANGED monitorVars PROVE LogInv' /\ ScreenInv'
    <2>1. UNCHANGED <<logVars, served, monitor, troubles, panelVars>>
      BY <1>1 DEF monitorVars, terminalVars
    <2>2. served \in [up : BOOLEAN, events : 0 .. MaxRecorded] /\ served.events \in Nat
          /\ served' = served
      BY <1>1, <2>1, ScreenTypes DEF ScreenInv, MonitorTypeOK
    <2>3. served' \in [up : BOOLEAN, events : 0 .. MaxRecorded] /\ served.events <= served'.events
      BY <2>2
    <2>4. troubles' \in 0 .. MaxTroubles
      BY <1>1, <2>1 DEF ScreenInv, MonitorTypeOK
    <2> QED
      BY <1>1, <2>1, <2>3, <2>4, LogStep, AwayStep
  <1> QED
    BY <1>1, ScreenStep

(* A restart begins the log anew; nothing else the terminal or the daemon does  *)
(* but logging changes it.                                                   *)
LEMMA WholeKeeps ==
  ASSUME LogInv, WholeInv, [MonitorNext]_monitorVars
  PROVE  WholeInv'
  <1>1. CASE UNCHANGED logVars
    BY <1>1, WholeStays
  <1>2. CASE Log
    BY <1>2, WholeStep DEF Log
  <1>3. CASE ComeUp
    <2>1. pushed' = <<>>
          /\ writer' = [e \in LogEvents |->
                          [writer[e] EXCEPT !.next = 1, !.buffer = <<>>, !.open = @ \/ writer[e].next > 1]]
      BY <1>3 DEF ComeUp
    <2>2. ASSUME NEW e \in LogEvents
          PROVE  writer'[e] \in Writer /\ writer'[e].next = 1 /\ writer'[e].buffer = <<>>
      <3> DEFINE q == writer[e]
                 v == writer'[e]
                 again == q.open \/ q.next > 1
      <3>1. q \in Writer
        BY DEF LogInv, LogTypeOK
      <3>2. v = [q EXCEPT !.next = 1, !.buffer = <<>>, !.open = again]
        BY <2>1
      <3>3. again \in BOOLEAN /\ <<>> \in Seq(STRING) /\ 1 \in Nat \ {0}
        BY EmptySeq
      <3> HIDE DEF q, v, again
      <3>4. v \in Writer /\ v.next = 1 /\ v.buffer = <<>>
        BY <3>1, <3>2, <3>3 DEF Writer
      <3> QED
        BY <3>4 DEF v
    <2>3. writer' \in [LogEvents -> Writer]
      BY <2>1, <2>2
    <2> QED
      BY <2>1, <2>2, FreshIsWhole DEF WholeInv
  <1>4. CASE Press \/ Quit \/ Refresh \/ AskReadyz \/ AskMetrics \/ AskEvents \/ AskLogs
             \/ RecordOne \/ GoDown \/ UNCHANGED monitorVars
    <2>1. UNCHANGED logVars
      BY <1>4
      DEF Press, Quit, Refresh, AskReadyz, AskMetrics, AskEvents, AskLogs, RecordOne, GoDown, monitorVars
    <2> QED
      BY <1>1, <2>1
  <1> QED
    BY <1>2, <1>3, <1>4 DEF MonitorNext

(* The log is what was written, and the terminal's panel, snapshot and trend    *)
(* are true of what it was told, for any number of events, polls, restarts,    *)
(* silent requests and keys.                                                *)
THEOREM MonitorShowsTrue == MonitorSpec => []MonitorSound
  <1>1. MonitorInit => LogInv /\ ScreenInv /\ WholeInv
    BY LogInitInv, LogInitWhole, ScreenInitInv DEF MonitorInit, LogInit
  <1>2. LogInv /\ ScreenInv /\ WholeInv => MonitorSound
    BY NewestAreShown, WholeShown, PanelShows DEF LogInv, ScreenInv, LogSound, MonitorSound
  <1>3. LogInv /\ ScreenInv /\ WholeInv /\ [MonitorNext]_monitorVars
          => LogInv' /\ ScreenInv' /\ WholeInv'
    BY ScreenKeeps, WholeKeeps
  <1> QED
    BY <1>1, <1>2, <1>3, PTL DEF MonitorSpec

(* A key that leaves the panel below where it was leaves it above the end.     *)
LEMMA DownStep ==
  ASSUME ScreenInv, [MonitorNext \/ (LogNext /\ UNCHANGED terminalVars)]_monitorVars
  PROVE  \/ monitor.scroll = Following \/ monitor'.scroll = Following
         \/ monitor'.scroll <= monitor.scroll
         \/ monitor'.scroll < MaxOffset(monitor.status.lines)
  <1>1. monitor \in MonitorState /\ monitor.scroll \in Nat \cup {Following}
    BY DEF ScreenInv, MonitorTypeOK, MonitorState
  <1>2. CASE Press
    <2>1. PICK scroll \in {Up(by) : by \in Strides} \cup {Down(by) : by \in Strides} \cup {0, Following} :
            monitor' = [monitor EXCEPT !.scroll = scroll]
      BY <1>2 DEF Press
    <2>2. monitor'.scroll = scroll
      BY <1>1, <2>1 DEF MonitorState
    <2>3. Offset \in Nat /\ MaxOffset(monitor.status.lines) \in Nat /\ Strides \subseteq Nat
          /\ (monitor.scroll # Following => Offset = monitor.scroll)
      BY OffsetType, MonitorAssumption DEF ScreenInv
    <2>4. ASSUME NEW by \in Strides, scroll = Up(by), monitor.scroll # Following
          PROVE  scroll <= monitor.scroll
      BY <2>3, <2>4 DEF Up
    <2>5. ASSUME NEW by \in Strides, scroll = Down(by)
          PROVE  scroll = Following \/ scroll < MaxOffset(monitor.status.lines)
      <3> DEFINE end == MaxOffset(monitor.status.lines)
      <3>1. scroll = IF Offset + by >= end THEN Following ELSE Offset + by
        BY <2>5 DEF Down
      <3>2. Offset \in Nat /\ by \in Nat /\ end \in Nat
        BY <2>3
      <3> HIDE DEF end
      <3>3. scroll = Following \/ scroll < end
        BY <3>1, <3>2
      <3> QED
        BY <3>3 DEF end
    <2>6. CASE scroll = 0
      BY <1>1, <2>2, <2>6
    <2> QED
      BY <2>1, <2>2, <2>4, <2>5, <2>6
  <1>3. CASE ~Press
    <2>1. monitor'.scroll = monitor.scroll
      <3>1. CASE Quit \/ Refresh
        BY <1>1, <3>1 DEF Quit, Refresh, MonitorState
      <3>2. CASE AskReadyz \/ AskMetrics \/ AskEvents \/ AskLogs
        BY <1>1, <3>2 DEF AskReadyz, AskMetrics, AskEvents, AskLogs, Polled, MonitorState
      <3>3. CASE Log \/ RecordOne \/ GoDown \/ ComeUp
        BY <3>3 DEF Log, RecordOne, GoDown, ComeUp
      <3>4. CASE UNCHANGED terminalVars \/ UNCHANGED monitorVars
        BY <3>4 DEF terminalVars, monitorVars
      <3> QED
        BY <1>3, <3>1, <3>2, <3>3, <3>4 DEF MonitorNext
    <2> QED
      BY <1>1, <2>1
  <1> QED
    BY <1>2, <1>3

-----------------------------------------------------------------------------
(* All of it, in and around one daemon's process: each part goes on as if it   *)
(* were alone.                                                              *)
LEMMA PartsAre ==
  Spec => LifecycleSpec /\ ControlSpec /\ PdfSpec /\ UpdateSpec
  <1>1. Init => LifecycleInit /\ ControlInit /\ PdfInit /\ UpdateInit
    BY DEF Init
  <1>2. [Next]_vars => [LifecycleNext]_lifecycleVars
    BY DEF Next, vars, lifecycleVars
  <1>3. [Next]_vars => [ControlNext]_controlVars
    BY DEF Next, vars
  <1>4. [Next]_vars => [PdfNext]_pdfVars
    BY DEF Next, vars
  <1>5. [Next]_vars => [UpdateNext]_updateVars
    BY DEF Next, vars
  <1>6. Spec => Init /\ [][Next]_vars
    BY PTL DEF Spec
  <1> QED
    BY <1>1, <1>2, <1>3, <1>4, <1>5, <1>6, PTL
    DEF LifecycleSpec, ControlSpec, PdfSpec, UpdateSpec

(* The library of pdfium and the binary itself are whole where they are put,   *)
(* and no call is over whose process is not.                                 *)
THEOREM ReplacedIsWhole == Spec => []ReplacedWhole
  <1>1. PdfSound /\ UpdateSound => ReplacedWhole
    BY DEF ReplacedWhole
  <1> QED
    BY <1>1, PartsAre, PdfIsSound, UpdateIsSound, PTL

(* No step of any part does half of what it is for, or what is not its         *)
(* business: one migration at a time is applied and none is taken back, who     *)
(* finds a daemon running leaves its pidfile alone, the roots are shown when    *)
(* all of a command is done, and a panel scrolled down to the end follows it.  *)
THEOREM DaemonTakesWholeSteps == Spec => DaemonSteps
  <1> DEFINE Forward == MonitorNext \/ (LogNext /\ UNCHANGED terminalVars)
  <1>1. Init => LogInv /\ ScreenInv
    BY LogInitInv, ScreenInitInv DEF Init
  <1>2. [Next]_vars => [Forward]_monitorVars
    BY DEF Next, vars
  <1>3. LogInv /\ ScreenInv /\ [Forward]_monitorVars => LogInv' /\ ScreenInv'
    BY ScreenKeeps
  <1>4. ScreenInv /\ [Forward]_monitorVars =>
         [monitor.scroll = Following \/ monitor'.scroll = Following \/ monitor'.scroll <= monitor.scroll
            \/ monitor'.scroll < MaxOffset(monitor.status.lines)]_monitorVars
    BY DownStep
  <1>5. Spec => Init /\ [][Next]_vars
    BY PTL DEF Spec
  <1> HIDE DEF Forward
  <1>6. Spec => DownResumes
    BY <1>1, <1>2, <1>3, <1>4, <1>5, PTL DEF DownResumes
  <1>7. Spec => OneAtATime /\ Undisturbed /\ ShownWhole
    BY PartsAre, LifecycleOneAtATime, KnownIsUndisturbed, ControlShowsWhole
  <1> QED
    BY <1>6, <1>7 DEF DaemonSteps
=============================================================================
