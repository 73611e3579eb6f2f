------------------------------- MODULE Control -------------------------------
(***************************************************************************)
(* Changing what a running daemon watches: `dafs --watch` of a second        *)
(* invocation, or any client, puts a request to the API (main.rs             *)
(* `reconcile_with_running_daemon`, control_client.rs, api lib.rs           *)
(* `put_watch`); its handler sends a command to the observer thread and      *)
(* waits for the reply (watch_adapter.rs); the thread applies commands       *)
(* between two polls and copies its list of roots for the readers (main.rs   *)
(* `observe`, `apply_watch_command`).                                       *)
(*                                                                         *)
(* A request is kept with its handler: the handler outlives a client that    *)
(* gave up after its 3 seconds, the command a handler that did after 30.     *)
(***************************************************************************)
EXTENDS Naturals, Sequences, SequencesExt

CONSTANTS
  Requests,      (* calls of PUT /watch                                     *)
  Roots,         (* directories one may ask for                             *)
  InitialRoots,  (* --watch of the daemon                                   *)
  MaxFaults      (* bound: directories that vanish, scans and watches that  *)
                 (* fail                                                    *)

ASSUME ControlAssumption ==
  /\ InitialRoots \subseteq Roots
  /\ MaxFaults \in Nat

VARIABLES
  request,       (* each request: where its handler is, what it asks for,   *)
                 (* whether its client is still there, the observer's reply *)
                 (* and the answer                                          *)
  commands,      (* the channel to the observer thread                      *)
  thread,        (* the observer: where it is, the command it applies, the  *)
                 (* roots of it left, the one being added, its errors       *)
  roots,         (* its list                                                *)
  watched,       (* roots with a watch in the kernel                        *)
  shared,        (* the copy of the list that handlers read                 *)
  exists,        (* roots that are directories at the moment                *)
  faults,
  lost,          (* history: roots that vanished while they were watched    *)
  scanned        (* history: roots scanned since they were last unwatched   *)

observer == <<thread, roots, watched>>
controlVars ==
  <<request, commands, observer, shared, exists, faults, lost, scanned>>

-----------------------------------------------------------------------------
Idle == [pc |-> "idle", mode |-> "add", roots |-> {}, there |-> FALSE,
         reply |-> "none", answer |-> [ok |-> FALSE, roots |-> {}]]

Refused == [ok |-> FALSE, roots |-> {}]

ControlInit ==
  /\ request = [c \in Requests |-> Idle]
  /\ commands = <<>>
  /\ thread = [pc |-> "scan", by |-> "nobody", todo |-> InitialRoots, root |-> {},
               errors |-> FALSE]
  /\ roots = InitialRoots
  /\ watched = {}
  /\ shared = InitialRoots
  /\ exists = Roots
  /\ faults = 0
  /\ lost = {}
  /\ scanned = {}

RequestState ==
  [pc : {"idle", "wait", "read", "answered"}, mode : {"add", "replace"}, roots : SUBSET Roots,
   there : BOOLEAN, reply : {"none", "ok", "error"},
   answer : [ok : BOOLEAN, roots : SUBSET Roots]]

ThreadState ==
  [pc : {"scan", "poll", "add", "watch", "publish", "gone"}, by : Requests \cup {"nobody"},
   todo : SUBSET Roots, root : SUBSET Roots, errors : BOOLEAN]

ControlTypeOK ==
  /\ request \in [Requests -> RequestState]
  /\ commands \in Seq(Requests)
  /\ thread \in ThreadState
  /\ {roots, watched, shared, exists, lost, scanned} \subseteq SUBSET Roots
  /\ faults \in 0 .. MaxFaults

Fault == faults < MaxFaults /\ faults' = faults + 1

-----------------------------------------------------------------------------
(* The server's side of a request.                                          *)

Answered(c, answer) ==
  [request EXCEPT ![c].pc = "answered", ![c].answer = answer]

(* put_watch: no roots, or a path that is no directory, is refused before    *)
(* the observer hears of it; a thread that is gone cannot be sent to.        *)
Put(c) ==
  /\ request[c].pc = "idle"
  /\ \E mode \in {"add", "replace"}, rs \in SUBSET Roots :
       LET asked == [request EXCEPT ![c] =
                       [Idle EXCEPT !.mode = mode, !.roots = rs, !.there = TRUE]]
           accepted == rs # {} /\ rs \subseteq exists /\ thread.pc # "gone"
       IN /\ request' = [asked EXCEPT ![c].pc = IF accepted THEN "wait" ELSE "answered"]
          /\ commands' = IF accepted THEN Append(commands, c) ELSE commands
  /\ UNCHANGED <<observer, shared, exists, faults, lost, scanned>>

(* request: the client gives up. Nothing tells the handler.                  *)
GiveUp(c) ==
  /\ request[c].there
  /\ request[c].pc # "answered"
  /\ request' = [request EXCEPT ![c].there = FALSE]
  /\ UNCHANGED <<commands, observer, shared, exists, faults, lost, scanned>>

(* send_and_wait: the reply ...                                             *)
ReplyArrives(c) ==
  /\ request[c].pc = "wait"
  /\ request[c].reply # "none"
  /\ request' = IF request[c].reply = "ok" THEN [request EXCEPT ![c].pc = "read"]
                                          ELSE Answered(c, Refused)
  /\ UNCHANGED <<commands, observer, shared, exists, faults, lost, scanned>>

(* ... or none within REPLY_TIMEOUT, or none any more. The command stays      *)
(* where it is.                                                             *)
ReplyTimeout(c) ==
  /\ request[c].pc = "wait"
  /\ request[c].reply = "none"
  /\ request' = Answered(c, Refused)
  /\ UNCHANGED <<commands, observer, shared, exists, faults, lost, scanned>>

(* The answer is the list of roots as the readers see it at this moment.     *)
ReadRoots(c) ==
  /\ request[c].pc = "read"
  /\ request' = Answered(c, [ok |-> TRUE, roots |-> shared])
  /\ UNCHANGED <<commands, observer, shared, exists, faults, lost, scanned>>

-----------------------------------------------------------------------------
(* The observer thread.                                                     *)

(* The initial scans, failed or skipped ones counted with them, and          *)
(* Watch::new of all roots, whose failure ends the thread: requests in its    *)
(* channel are never replied to.                                            *)
StartWatch ==
  /\ thread.pc = "scan"
  /\ \/ /\ roots \subseteq exists
        /\ watched' = roots
        /\ thread' = [thread EXCEPT !.pc = "poll", !.todo = {}]
        /\ scanned' = roots
        /\ UNCHANGED <<commands, faults>>
     \/ /\ Fault \/ (~(roots \subseteq exists) /\ UNCHANGED faults)
        /\ thread' = [thread EXCEPT !.pc = "gone", !.todo = {}]
        /\ commands' = <<>>
        /\ UNCHANGED <<watched, scanned>>
  /\ UNCHANGED <<request, roots, shared, exists, lost>>

(* A mistaken variant of Take, used only by the mutation runs: the readers   *)
(* are shown the list a replacement begins with.                            *)
TakePublishing ==
  /\ thread.pc = "poll"
  /\ commands # <<>>
  /\ commands' = Tail(commands)
  /\ LET c == Head(commands)
         replacing == request[c].mode = "replace"
     IN /\ thread' = [thread EXCEPT !.pc = "add", !.by = c, !.todo = request[c].roots,
                                    !.errors = FALSE]
        /\ roots' = IF replacing THEN {} ELSE roots
        /\ shared' = IF replacing THEN {} ELSE shared
        /\ watched' = IF replacing THEN watched \ roots ELSE watched
        /\ lost' = IF replacing THEN {} ELSE lost
        /\ scanned' = IF replacing THEN {} ELSE scanned
  /\ UNCHANGED <<request, exists, faults>>

(* apply_watch_command: a replacement unwatches every root first.            *)
Take ==
  /\ thread.pc = "poll"
  /\ commands # <<>>
  /\ commands' = Tail(commands)
  /\ LET c == Head(commands)
         replacing == request[c].mode = "replace"
     IN /\ thread' = [thread EXCEPT !.pc = "add", !.by = c, !.todo = request[c].roots,
                                    !.errors = FALSE]
        /\ roots' = IF replacing THEN {} ELSE roots
        /\ watched' = IF replacing THEN watched \ roots ELSE watched
        /\ lost' = IF replacing THEN {} ELSE lost
        /\ scanned' = IF replacing THEN {} ELSE scanned
  /\ UNCHANGED <<request, shared, exists, faults>>

Failed == [thread EXCEPT !.pc = "add", !.root = {}, !.errors = TRUE]

(* add_one: a root of the list is passed over; another is scanned ...         *)
ScanRoot(r) ==
  /\ thread.pc = "add"
  /\ r \in thread.todo
  /\ \/ /\ r \in roots
        /\ thread' = [thread EXCEPT !.todo = @ \ {r}]
        /\ UNCHANGED <<faults, scanned>>
     \/ /\ r \in exists \ roots
        /\ thread' = [thread EXCEPT !.todo = @ \ {r}, !.pc = "watch", !.root = {r}]
        /\ scanned' = scanned \cup {r}
        /\ UNCHANGED faults
     \/ /\ r \notin roots
        /\ Fault \/ (r \notin exists /\ UNCHANGED faults)
        /\ thread' = [Failed EXCEPT !.todo = @ \ {r}]
        /\ UNCHANGED scanned
  /\ UNCHANGED <<request, commands, roots, watched, shared, exists, lost>>

(* A mistaken variant of WatchRoot, used only by the mutation runs: the root *)
(* is listed though it could not be watched.                                *)
WatchRootListedFirst ==
  /\ thread.pc = "watch"
  /\ \/ /\ thread.root \subseteq exists
        /\ watched' = watched \cup thread.root
        /\ thread' = [thread EXCEPT !.pc = "add", !.root = {}]
        /\ UNCHANGED faults
     \/ /\ Fault \/ (~(thread.root \subseteq exists) /\ UNCHANGED faults)
        /\ thread' = Failed
        /\ UNCHANGED watched
  /\ roots' = roots \cup thread.root
  /\ UNCHANGED <<request, commands, shared, exists, lost, scanned>>

(* ... then watched, then listed. A failure is noted, and its root left out.  *)
WatchRoot ==
  /\ thread.pc = "watch"
  /\ \/ /\ thread.root \subseteq exists
        /\ watched' = watched \cup thread.root
        /\ roots' = roots \cup thread.root
        /\ thread' = [thread EXCEPT !.pc = "add", !.root = {}]
        /\ UNCHANGED faults
     \/ /\ Fault \/ (~(thread.root \subseteq exists) /\ UNCHANGED faults)
        /\ thread' = Failed
        /\ UNCHANGED <<roots, watched>>
  /\ UNCHANGED <<request, commands, shared, exists, lost, scanned>>

(* The reply, which is lost on a handler that no longer waits ...             *)
Reply ==
  /\ thread.pc = "add"
  /\ thread.todo = {}
  /\ request' = [request EXCEPT ![thread.by].reply = IF thread.errors THEN "error" ELSE "ok"]
  /\ thread' = [thread EXCEPT !.pc = "publish"]
  /\ UNCHANGED <<commands, roots, watched, shared, exists, faults, lost, scanned>>

(* ... and only then the copy for the readers.                              *)
Publish ==
  /\ thread.pc = "publish"
  /\ shared' = roots
  /\ thread' = [thread EXCEPT !.pc = "poll"]
  /\ UNCHANGED <<request, commands, roots, watched, exists, faults, lost, scanned>>

(* The stop flag, looked at between polls. The channel goes with the thread. *)
StopThread ==
  /\ thread.pc = "poll"
  /\ thread' = [thread EXCEPT !.pc = "gone"]
  /\ commands' = <<>>
  /\ watched' = {}
  /\ UNCHANGED <<request, roots, shared, exists, faults, lost, scanned>>

-----------------------------------------------------------------------------
(* A directory is removed or unmounted, and its watch with it, or is there   *)
(* again, without.                                                          *)
Vanish(r) ==
  /\ r \in exists
  /\ Fault
  /\ exists' = exists \ {r}
  /\ watched' = watched \ {r}
  /\ lost' = IF r \in watched THEN lost \cup {r} ELSE lost
  /\ UNCHANGED <<request, commands, thread, roots, shared, scanned>>

Appear(r) ==
  /\ r \in Roots \ exists
  /\ exists' = exists \cup {r}
  /\ UNCHANGED <<request, commands, observer, shared, faults, lost, scanned>>

(* The handler of a request.                                                *)
HandlerStep(c) == ReplyArrives(c) \/ ReplyTimeout(c) \/ ReadRoots(c)

ObserverStep ==
  \/ StartWatch \/ Take \/ WatchRoot \/ Reply \/ Publish
  \/ \E r \in Roots : ScanRoot(r)

ControlNext ==
  \/ \E c \in Requests : Put(c) \/ GiveUp(c) \/ HandlerStep(c)
  \/ ObserverStep
  \/ StopThread
  \/ \E r \in Roots : Vanish(r) \/ Appear(r)

ControlSpec == ControlInit /\ [][ControlNext]_controlVars

(* The thread goes on, which waits for no client, and so does a handler, whose *)
(* wait has a limit.                                                        *)
ControlFairness ==
  /\ WF_controlVars(ObserverStep)
  /\ \A c \in Requests : WF_controlVars(HandlerStep(c))

-----------------------------------------------------------------------------
(* Between two commands the three accounts of what is watched agree, after   *)
(* whatever failures: the thread's list, the copy the readers see, and the   *)
(* kernel's watches, except for directories that vanished (main.rs 629).     *)
AccountsAgree ==
  thread.pc = "poll" => shared = roots /\ watched \subseteq roots /\ roots \subseteq watched \cup lost

(* Every watched root was scanned since it was last unwatched, so that the    *)
(* watch has a state to keep current.                                       *)
ScannedFirst == watched \subseteq scanned

(* A request answered with success is one all of whose roots were listed.    *)
(* Seen from the thread, while nobody else can change the list.              *)
OkIsListed ==
  thread.pc = "publish" /\ request[thread.by].reply = "ok" => request[thread.by].roots \subseteq roots

(* Nobody is told of a root that is not kept: the three above.               *)
ControlSound == ControlTypeOK /\ AccountsAgree /\ ScannedFirst /\ OkIsListed

(* A reader never sees a list that is between two: what it sees changes from *)
(* one list to what one whole command makes of it, whatever part of that     *)
(* failed.                                                                  *)
ShownWhole ==
  [][\E c \in Requests :
       /\ shared' \ shared \subseteq request[c].roots
       /\ IF request[c].mode = "add" THEN shared \subseteq shared'
          ELSE shared' \subseteq request[c].roots
       /\ request'[c].reply # "none"]_shared

(* Every request has its answer and every command is applied or dropped. When *)
(* nothing is asked any more it gets there, though clients and handlers may   *)
(* have given up on a command, or its thread is gone (watch_adapter.rs 26).    *)
CommandsAreOver ==
  commands = <<>> /\ \A c \in Requests : request[c].pc \notin {"wait", "read"}
=============================================================================
