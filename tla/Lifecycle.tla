------------------------------ MODULE Lifecycle ------------------------------
(***************************************************************************)
(* Invocations of `dafs` on one data directory (main.rs, pidfile.rs,          *)
(* dafs-detach): looking for a running daemon, detaching, binding, opening   *)
(* the store, writing the pidfile, serving, shutting down, and `dafs stop`.  *)
(*                                                                         *)
(* Each touch of the pidfile is a step of its own, so that invocations       *)
(* interleave as processes do. A process is called by its number; of the     *)
(* two forks of detaching only the one that goes on is kept. Any of them     *)
(* may be killed, and the number of one that ended may be given to a         *)
(* program that is not dafs.                                                *)
(***************************************************************************)
EXTENDS Migrations

CONSTANTS
  Addrs,       (* addresses to listen at                                    *)
  Options,     (* the command lines each invocation may be given           *)
  Absent,      (* no pidfile                                                *)
  MaxPolls,    (* bound: looks `dafs stop` takes before it gives up         *)
  MaxMishaps   (* bound: kills, wedged calls and process numbers reused     *)

(* What the pidfile says, as far as it is written, and to whom it is open.    *)
Record == [pid : Conn, listen : Addrs, whole : BOOLEAN, writers : SUBSET Conn]

ASSUME LifecycleAssumption ==
  /\ Options \in
       [Conn -> SUBSET [cmd : {"run", "stop"}, listen : Addrs, relative : BOOLEAN,
                        detach : BOOLEAN, llm : SUBSET {"enrich", "embed"}]]
  /\ Absent \notin Record
  /\ MaxPolls \in Nat \ {0}
  /\ MaxMishaps \in Nat

VARIABLES
  proc,        (* each invocation: where it is (`pc`), its command line,     *)
               (* the daemon it found, whether it has changed directory, its *)
               (* threads, those of them in a filesystem call that does not *)
               (* return, the looks `stop` took, and what it exited with    *)
  pidfile,     (* dafs.pid: whose record, whether all of it is written, and *)
               (* who has it open to write                                  *)
  port,        (* the process bound to each address                         *)
  mishaps,
  known,       (* history: the live daemon the pidfile named when each was  *)
               (* started                                                   *)
  contested    (* history: somebody removed or overwrote the pidfile of a   *)
               (* live daemon other than himself                            *)

lifeVars == <<proc, pidfile, port, mishaps, known, contested>>
lifecycleVars == <<migVars, lifeVars>>

-----------------------------------------------------------------------------
(* The threads in the order in which shutdown joins them.                   *)
JoinOrder == <<"observer", "extract", "enrich", "embed">>
Thread == {JoinOrder[i] : i \in 1 .. 4}

Starting == {"find", "unlink", "detach", "bind", "store", "spawn", "truncate", "write"}
Stopping == {"drain", "remove"} \cup Thread
Running == {"serve"} \cup Stopping
Asking == {"reconcile", "signal", "wait"}
Places == {"idle", "exited", "foreign"} \cup Starting \cup Running \cup Asking

Pc(p) == proc[p].pc
Args(p) == proc[p].args
Alive(p) == Pc(p) \notin {"idle", "exited"}

New ==
  [pc |-> "idle", args |-> None, found |-> None, chdir |-> FALSE, threads |-> {},
   wedged |-> {}, polls |-> 0, exit |-> None]

ProcessState ==
  [pc : Places, args : (UNION {Options[p] : p \in Conn}) \cup {None}, found : Conn \cup {None},
   chdir : BOOLEAN, threads : SUBSET Thread, wedged : SUBSET Thread, polls : 0 .. MaxPolls,
   exit : {None, "ok", "error", "killed"}]

LifecycleTypeOK ==
  /\ MigTypeOK
  /\ proc \in [Conn -> ProcessState]
  /\ \A p \in Conn : Args(p) \in Options[p] \cup {None} /\ proc[p].wedged \subseteq proc[p].threads
  /\ pidfile \in Record \cup {Absent}
  /\ port \in [Addrs -> Conn \cup {None}]
  /\ mishaps \in 0 .. MaxMishaps
  /\ known \in [Conn -> Conn \cup {None}]
  /\ contested \in BOOLEAN

LifecycleInit ==
  /\ MigInit
  /\ proc = [p \in Conn |-> New]
  /\ pidfile = Absent
  /\ port = [a \in Addrs |-> None]
  /\ mishaps = 0
  /\ known = [p \in Conn |-> None]
  /\ contested = FALSE

Become(p, place) == proc' = [proc EXCEPT ![p].pc = place]

(* A process that ends leaves its files behind and nothing else: its address *)
(* is free, and its connection closed.                                      *)
Exit(p, how) ==
  /\ proc' = [proc EXCEPT ![p] =
                [@ EXCEPT !.pc = "exited", !.exit = how, !.chdir = FALSE, !.threads = {},
                          !.wedged = {}, !.polls = 0]]
  /\ port' = [a \in Addrs |-> IF port[a] = p THEN None ELSE port[a]]
  /\ IF at[p] = "closed" THEN UNCHANGED migVars ELSE Close(p)

(* It goes on instead.                                                      *)
Stays == UNCHANGED <<port, migVars>>

(* The directory of the database: data_dir as it was given, taken relative   *)
(* to the working directory.                                                *)
DatabaseDir(p) ==
  IF Args(p).relative /\ proc[p].chdir THEN "data dir/data dir" ELSE "data dir"

(* p takes the pidfile from a live daemon with another number.              *)
Contests(p) ==
  pidfile # Absent /\ pidfile.pid # p /\ Pc(pidfile.pid) \in {"write"} \cup Running

-----------------------------------------------------------------------------
(* main: the command line. For the history, note whom the pidfile names.     *)
Launch(p) ==
  /\ Pc(p) = "idle"
  /\ \E o \in Options[p] : proc' = [proc EXCEPT ![p] = [New EXCEPT !.pc = "find", !.args = o]]
  /\ known' = [known EXCEPT ![p] =
       IF pidfile # Absent /\ pidfile.whole /\ Pc(pidfile.pid) \in Running
       THEN pidfile.pid ELSE None]
  /\ UNCHANGED <<migVars, pidfile, port, mishaps, contested>>

(* find_live: read the pidfile and ask whether there is a process of that    *)
(* number. A file that cannot be parsed counts as none.                     *)
FindLive ==
  IF pidfile = Absent \/ ~pidfile.whole THEN "none"
  ELSE IF Alive(pidfile.pid) THEN "live" ELSE "stale"

Found(p, place) ==
  proc' = [proc EXCEPT ![p] = [@ EXCEPT !.pc = place, !.found = pidfile.pid]]

FindAtStart(p) ==
  /\ Pc(p) = "find"
  /\ Args(p).cmd = "run"
  /\ CASE FindLive = "none" -> Become(p, "detach")
       [] FindLive = "stale" -> Become(p, "unlink")
       [] FindLive = "live" -> Found(p, "reconcile")
  /\ UNCHANGED <<migVars, pidfile, port, mishaps, known, contested>>

FindToStop(p) ==
  /\ Pc(p) = "find"
  /\ Args(p).cmd = "stop"
  /\ CASE FindLive = "none" -> Exit(p, "ok")
       [] FindLive = "stale" -> Become(p, "unlink") /\ Stays
       [] FindLive = "live" -> Found(p, "signal") /\ Stays
  /\ UNCHANGED <<pidfile, mishaps, known, contested>>

(* The stale file is removed by its name, whatever is there by now.          *)
Unlink(p) ==
  /\ Pc(p) = "unlink"
  /\ pidfile' = Absent
  /\ contested' = (contested \/ Contests(p))
  /\ IF Args(p).cmd = "run" THEN Become(p, "detach") /\ Stays ELSE Exit(p, "ok")
  /\ UNCHANGED <<mishaps, known>>

(* reconcile_with_running_daemon: ask it, then exit. Control has what the    *)
(* daemon makes of it; here it answers if it serves.                        *)
Reconcile(p) ==
  /\ Pc(p) = "reconcile"
  /\ LET d == proc[p].found IN
       Exit(p, IF \E a \in Addrs : port[a] = d /\ Pc(d) = "serve" THEN "ok" ELSE "error")
  /\ UNCHANGED <<pidfile, mishaps, known, contested>>

(* Fork, leave the terminal, and change to the data directory.              *)
Detach(p) ==
  /\ Pc(p) = "detach"
  /\ proc' = [proc EXCEPT ![p] = [@ EXCEPT !.pc = "bind", !.chdir = Args(p).detach]]
  /\ UNCHANGED <<migVars, pidfile, port, mishaps, known, contested>>

(* run: bind first ...                                                      *)
Bind(p) ==
  /\ Pc(p) = "bind"
  /\ LET a == Args(p).listen IN
       IF port[a] = None
       THEN port' = [port EXCEPT ![a] = p] /\ Become(p, "store") /\ UNCHANGED migVars
       ELSE Exit(p, "error")
  /\ UNCHANGED <<pidfile, mishaps, known, contested>>

(* ... then open the store: there is no database, nor a directory for one,   *)
(* anywhere but in the data directory.                                      *)
OpenElsewhere(p) ==
  /\ Pc(p) = "store"
  /\ DatabaseDir(p) # "data dir"
  /\ Exit(p, "error")
  /\ UNCHANGED <<pidfile, mishaps, known, contested>>

OpenStore(p) ==
  /\ Pc(p) = "store"
  /\ DatabaseDir(p) = "data dir"
  /\ OpenStep(p)
  /\ UNCHANGED lifeVars

Opened(p) ==
  /\ Pc(p) = "store"
  /\ \/ at[p] = "open" /\ Become(p, "spawn") /\ Stays
     \/ at[p] \in {"tooNew", "failed"} /\ Exit(p, "error")
  /\ UNCHANGED <<pidfile, mishaps, known, contested>>

(* The threads open the store for themselves, and end if it has become too   *)
(* new meanwhile; opening it for the search is an error of the process.      *)
Spawn(p) ==
  /\ Pc(p) = "spawn"
  /\ IF Version <= Supported[p]
     THEN /\ proc' = [proc EXCEPT ![p] =
               [@ EXCEPT !.pc = "truncate", !.threads = {"observer", "extract"} \cup Args(p).llm]]
          /\ Stays
     ELSE IF "embed" \in Args(p).llm THEN Exit(p, "error")
     ELSE Become(p, "truncate") /\ Stays
  /\ UNCHANGED <<pidfile, mishaps, known, contested>>

(* pidfile::write: the file is created or emptied ...                       *)
Truncate(p) ==
  /\ Pc(p) = "truncate"
  /\ contested' = (contested \/ Contests(p))
  /\ pidfile' = [pid |-> p, listen |-> Args(p).listen, whole |-> FALSE,
                 writers |-> {p} \cup IF pidfile = Absent THEN {} ELSE pidfile.writers]
  /\ Become(p, "write")
  /\ UNCHANGED <<migVars, port, mishaps, known>>

(* ... then filled, if it is still the file of that name.                   *)
WriteRecord(p) ==
  /\ Pc(p) = "write"
  /\ IF pidfile # Absent /\ p \in pidfile.writers
     THEN /\ pidfile' = [pid |-> p, listen |-> Args(p).listen, whole |-> TRUE,
                         writers |-> pidfile.writers \ {p}]
          /\ contested' = (contested \/ Contests(p))
     ELSE UNCHANGED <<pidfile, contested>>
  /\ Become(p, "serve")
  /\ UNCHANGED <<migVars, port, mishaps, known>>

-----------------------------------------------------------------------------
(* What SIGTERM makes of a process. It is handled from the moment the daemon *)
(* serves: the listener is closed and shutdown begins. Before, and in a       *)
(* program that does not handle it, it kills; once shutdown has begun it      *)
(* changes nothing.                                                         *)
Terminated(p) ==
  CASE Pc(p) = "serve" -> [proc[p] EXCEPT !.pc = "drain"]
    [] Pc(p) \in Running \ {"serve"} -> proc[p]
    [] OTHER -> [proc[p] EXCEPT !.pc = "exited", !.exit = "killed"]

Unbound(p) ==
  [a \in Addrs |-> IF port[a] = p /\ Terminated(p) # proc[p] THEN None ELSE port[a]]

(* Somebody stops a daemon by hand.                                         *)
Interrupt(p) ==
  /\ Pc(p) = "serve"
  /\ proc' = [proc EXCEPT ![p] = Terminated(p)]
  /\ port' = Unbound(p)
  /\ UNCHANGED <<migVars, pidfile, mishaps, known, contested>>

(* A mistaken variant of Drained, used only by the mutation runs: the pidfile *)
(* is removed before the threads are joined.                                *)
DrainedRemoving(p) ==
  /\ Pc(p) = "drain"
  /\ Become(p, "observer")
  /\ pidfile' = Absent
  /\ UNCHANGED <<migVars, port, mishaps, known, contested>>

(* The requests under way are finished.                                     *)
Drained(p) ==
  /\ Pc(p) = "drain"
  /\ Become(p, "observer")
  /\ UNCHANGED <<migVars, pidfile, port, mishaps, known, contested>>

(* A thread whose stop flag is set ends once it gets to look at it. The flag *)
(* is set when its turn to be joined has come.                              *)
ThreadEnds(p) ==
  /\ Pc(p) \in proc[p].threads \ proc[p].wedged
  /\ proc' = [proc EXCEPT ![p].threads = @ \ {Pc(p)}]
  /\ UNCHANGED <<migVars, pidfile, port, mishaps, known, contested>>

(* It is joined, with no limit of time, and the next is told to stop.        *)
Joined(p) ==
  /\ Pc(p) \in Thread \ proc[p].threads
  /\ LET i == CHOOSE i \in 1 .. 4 : JoinOrder[i] = Pc(p) IN
       Become(p, IF i = 4 THEN "remove" ELSE JoinOrder[i + 1])
  /\ UNCHANGED <<migVars, pidfile, port, mishaps, known, contested>>

(* pidfile::remove, whoever's it is, and the end.                           *)
RemoveRecord(p) ==
  /\ Pc(p) = "remove"
  /\ pidfile' = Absent
  /\ contested' = (contested \/ Contests(p))
  /\ Exit(p, "ok")
  /\ UNCHANGED <<mishaps, known>>

-----------------------------------------------------------------------------
(* stop_daemon: the signal, which fails if the process is gone ...           *)
Signal(p) ==
  /\ Pc(p) = "signal"
  /\ LET d == proc[p].found IN
       IF Alive(d)
       THEN /\ proc' = [proc EXCEPT ![d] = Terminated(d), ![p].pc = "wait"]
            /\ port' = Unbound(d)
            /\ IF Terminated(d).pc = "exited" /\ at[d] # "closed"
               THEN Close(d) ELSE UNCHANGED migVars
       ELSE Exit(p, "error")
  /\ UNCHANGED <<pidfile, mishaps, known, contested>>

(* ... then looking for a pidfile of a live daemon until there is none, or    *)
(* ten seconds are over.                                                    *)
Wait(p) ==
  /\ Pc(p) = "wait"
  /\ IF proc[p].polls = MaxPolls THEN Exit(p, "error")
     ELSE CASE FindLive = "none" -> Exit(p, "ok")
            [] FindLive = "stale" -> Become(p, "unlink") /\ Stays
            [] FindLive = "live" -> proc' = [proc EXCEPT ![p].polls = @ + 1] /\ Stays
  /\ UNCHANGED <<pidfile, mishaps, known, contested>>

-----------------------------------------------------------------------------
(* What may happen to a process.                                            *)

Mishap == mishaps < MaxMishaps /\ mishaps' = mishaps + 1

KillProcess(p) ==
  /\ Alive(p) /\ Pc(p) # "foreign"
  /\ Mishap
  /\ Exit(p, "killed")
  /\ UNCHANGED <<pidfile, known, contested>>

(* A thread enters a call on a filesystem that does not answer.             *)
Wedge(p) ==
  /\ Pc(p) \in Running
  /\ Mishap
  /\ \E t \in {"observer", "extract"} \cap (proc[p].threads \ proc[p].wedged) :
       proc' = [proc EXCEPT ![p].wedged = @ \cup {t}]
  /\ UNCHANGED <<migVars, pidfile, port, known, contested>>

Reuse(p) ==
  /\ Pc(p) = "exited"
  /\ Mishap
  /\ Become(p, "foreign")
  /\ UNCHANGED <<migVars, pidfile, port, known, contested>>

-----------------------------------------------------------------------------
Step(p) ==
  \/ FindAtStart(p) \/ FindToStop(p) \/ Unlink(p)
  \/ Reconcile(p)
  \/ Detach(p) \/ Bind(p)
  \/ OpenElsewhere(p) \/ OpenStore(p) \/ Opened(p)
  \/ Spawn(p)
  \/ Truncate(p) \/ WriteRecord(p)
  \/ Drained(p) \/ ThreadEnds(p) \/ Joined(p) \/ RemoveRecord(p)
  \/ Signal(p) \/ Wait(p)

LifecycleNext ==
  \E p \in Conn :
    Launch(p) \/ Step(p) \/ Interrupt(p) \/ KillProcess(p) \/ Wedge(p) \/ Reuse(p)

LifecycleSpec == LifecycleInit /\ [][LifecycleNext]_lifecycleVars

(* A process that can go on does.                                           *)
LifecycleFairness == \A p \in Conn : WF_lifecycleVars(Step(p))

-----------------------------------------------------------------------------
(* A pidfile that find_live believes names a daemon that has bound its       *)
(* address, or a number that now belongs to another program: never one that *)
(* is still starting, nor one that only asked (pidfile.rs 21).              *)
LiveIsBound ==
  FindLive = "live" => Pc(pidfile.pid) \in Running \cup {"foreign"}

(* Whoever is started while the pidfile names a running daemon leaves that   *)
(* pidfile alone for as long as that daemon runs.                           *)
Undisturbed ==
  [][\A p, d \in Conn :
       (/\ proc[p] # proc'[p] /\ p # d /\ known[p] = d /\ Pc(p) # "idle"
        /\ Pc(d) \in Running /\ proc[d] = proc'[d]
        /\ pidfile # Absent /\ pidfile.pid = d)
       => pidfile' = pidfile]_lifeVars

(* When `dafs stop` reports success, the daemon it signalled has stopped its *)
(* threads and will not touch the store again (main.rs 498), unless two      *)
(* daemons got in each other's way before.                                  *)
StoppedMeansGone ==
  \A p \in Conn :
    (/\ Pc(p) = "exited" /\ proc[p].exit = "ok" /\ proc[p].found # None
     /\ Args(p).cmd = "stop" /\ ~contested)
    => Pc(proc[p].found) \in {"exited", "foreign"}

(* What is known of a daemon from outside is true, to who asks for it and to *)
(* who stops it: the two above, over states of the right types.              *)
LifecycleSound == LifecycleTypeOK /\ LiveIsBound /\ StoppedMeansGone

(* Nobody is in the middle of a start, a change of the roots or a stop: the    *)
(* start ended in a daemon that serves or in an exit, the stop in an exit.     *)
(* When nothing is launched any more it gets there: nobody waits for anybody  *)
(* without limit (main.rs 497).                                             *)
StartsAreOver == \A p \in Conn : Pc(p) \notin Starting \cup Asking

-----------------------------------------------------------------------------
(* main.rs 101: the data directory is the directory for the metadata         *)
(* database. The run refutes it.                                            *)
DatabaseInDataDir ==
  \A p \in Conn : Pc(p) \in {"store", "spawn", "serve"} => DatabaseDir(p) = "data dir"
=============================================================================
