----------------------------- MODULE PdfWorker -----------------------------
(***************************************************************************)
(* A PDF is extracted in a process of its own (extract_worker.rs              *)
(* `extract_pdf_with_deadline`, dafs-pdf-worker main.rs): the daemon spawns    *)
(* it, a thread of the daemon writes the request and reads the answer, the     *)
(* daemon waits for the thread until the deadline and for the exit after it.   *)
(* The library the process binds is a file in the temporary directory that    *)
(* the processes of all daemons share and the first one writes.               *)
(*                                                                         *)
(* What becomes of a PDF is a member of Fates; the pages of an answer are     *)
(* Documents' business.                                                     *)
(***************************************************************************)
EXTENDS Naturals, FiniteSets

CONSTANTS
  Daemons,
  Fates,          (* what pdfium may do with a PDF                          *)
  MaxCalls        (* bound: PDFs of a daemon                                *)

ASSUME PdfAssumption ==
  /\ Fates \subseteq {"text", "error", "dies", "wedges", "dies after"}
  /\ MaxCalls \in Nat

VARIABLES
  call,           (* of each daemon: where it is, the PDF's fate, what came   *)
                  (* of it, how many there were                             *)
  message,        (* the channel of the call: "none", "frame", "error"        *)
  child,          (* the process, the file it writes and what it bound        *)
  library         (* the file all of them bind: "none", "part", "whole"       *)

pdfVars == <<call, message, child, library>>

NoChild == [pc |-> "none", tmp |-> "none", bound |-> "none", answer |-> "none"]

PdfInit ==
  /\ call = [d \in Daemons |-> [pc |-> "idle", fate |-> "text", result |-> "none", count |-> 0]]
  /\ message = [d \in Daemons |-> "none"]
  /\ child = [d \in Daemons |-> NoChild]
  /\ library = "none"

CallState ==
  [pc : {"idle", "waiting", "reaping", "done"}, fate : Fates \cup {"text"},
   result : {"none", "ok", "malformed", "timeout"}, count : 0 .. MaxCalls]

ChildState ==
  [pc : {"none", "start", "write", "rename", "bind", "extract", "wedged", "answered", "exit 0",
         "exit 1"},
   tmp : {"none", "part", "whole"}, bound : {"none", "part", "whole"},
   answer : {"none", "text", "error"}]

PdfTypeOK ==
  /\ call \in [Daemons -> CallState]
  /\ message \in [Daemons -> {"none", "frame", "error"}]
  /\ child \in [Daemons -> ChildState]
  /\ library \in {"none", "part", "whole"}

-----------------------------------------------------------------------------
Child(d, pc) == child' = [child EXCEPT ![d].pc = pc]

(* `process_one` routes a PDF here; the process may not start.                *)
SpawnProcess(d) ==
  /\ call[d].pc \in {"idle", "done"} /\ call[d].count < MaxCalls
  /\ \E fate \in Fates, started \in BOOLEAN :
       /\ call' = [call EXCEPT ![d] = [pc |-> IF started THEN "waiting" ELSE "done", fate |-> fate,
                                       result |-> IF started THEN "none" ELSE "malformed",
                                       count |-> call[d].count + 1]]
       /\ child' = [child EXCEPT ![d] = IF started THEN [NoChild EXCEPT !.pc = "start"] ELSE @]
  /\ message' = [message EXCEPT ![d] = "none"]
  /\ UNCHANGED library

(* ensure_pdfium_extracted: nothing to do if the file is there.               *)
Probe(d) ==
  /\ child[d].pc = "start"
  /\ Child(d, IF library = "none" THEN "write" ELSE "bind")
  /\ UNCHANGED <<call, message, library>>

(* A mistaken variant of WriteLibrary, used only by the mutation runs: it is   *)
(* written in place.                                                        *)
WriteLibraryInPlace(d) ==
  /\ child[d].pc = "write"
  /\ library' = IF child[d].tmp = "none" THEN "part" ELSE "whole"
  /\ child' = [child EXCEPT ![d].tmp = IF @ = "none" THEN "part" ELSE "whole",
                            ![d].pc = IF child[d].tmp = "none" THEN @ ELSE "bind"]
  /\ UNCHANGED <<call, message>>

(* It is written under a name of this process, which takes a while.           *)
WriteLibrary(d) ==
  /\ child[d].pc = "write"
  /\ child' = [child EXCEPT ![d].tmp = IF @ = "none" THEN "part" ELSE "whole",
                            ![d].pc = IF child[d].tmp = "none" THEN @ ELSE "rename"]
  /\ UNCHANGED <<call, message, library>>

Rename(d) ==
  /\ child[d].pc = "rename"
  /\ library' = child[d].tmp
  /\ child' = [child EXCEPT ![d].tmp = "none", ![d].pc = "bind"]
  /\ UNCHANGED <<call, message>>

(* It could not be written: pdfium is the system's, or there is none.         *)
NoLibrary(d) ==
  /\ child[d].pc \in {"write", "rename"}
  /\ \/ child' = [child EXCEPT ![d].answer = "error", ![d].pc = "answered"]
     \/ child' = [child EXCEPT ![d].bound = "whole", ![d].pc = "extract"]
  /\ UNCHANGED <<call, message, library>>

BindLibrary(d) ==
  /\ child[d].pc = "bind"
  /\ child' = [child EXCEPT ![d].bound = library, ![d].pc = "extract"]
  /\ UNCHANGED <<call, message, library>>

(* pdfium: it answers, or with an error, it dies, or it never returns.        *)
Extract(d) ==
  /\ child[d].pc = "extract"
  /\ LET fate == call[d].fate IN
       child' = [child EXCEPT
         ![d].pc = CASE fate = "dies" -> "exit 1"
                     [] fate = "wedges" -> "wedged"
                     [] OTHER -> "answered",
         ![d].answer = CASE fate = "error" -> "error"
                         [] fate \in {"dies", "wedges"} -> "none"
                         [] OTHER -> "text"]
  /\ UNCHANGED <<call, message, library>>

(* The thread has read the whole frame, however long, and the process ends.   *)
FrameRead(d) ==
  /\ child[d].pc = "answered" /\ call[d].pc = "waiting" /\ message[d] = "none"
  /\ message' = [message EXCEPT ![d] = "frame"]
  /\ UNCHANGED <<call, child, library>>

ProcessEnds(d) ==
  /\ child[d].pc = "answered" /\ message[d] = "frame"
  /\ Child(d, IF call[d].fate = "dies after" THEN "exit 1" ELSE "exit 0")
  /\ UNCHANGED <<call, message, library>>

(* Its end of the pipe is closed before a frame is there.                     *)
BrokenPipe(d) ==
  /\ child[d].pc = "exit 1" /\ call[d].pc = "waiting" /\ message[d] = "none"
  /\ message' = [message EXCEPT ![d] = "error"]
  /\ UNCHANGED <<call, child, library>>

(* kill and wait                                                            *)
Killed(d) == child' = [child EXCEPT ![d] = NoChild]

ReceiveFrame(d) ==
  /\ call[d].pc = "waiting" /\ message[d] = "frame"
  /\ call' = [call EXCEPT ![d].pc = "reaping"]
  /\ UNCHANGED <<message, child, library>>

ReceiveError(d) ==
  /\ call[d].pc = "waiting" /\ message[d] = "error"
  /\ call' = [call EXCEPT ![d].pc = "done", ![d].result = "malformed"]
  /\ Killed(d)
  /\ UNCHANGED <<message, library>>

(* A mistaken variant of Deadline, used only by the mutation runs: the         *)
(* process is waited for, as after an answer.                                *)
DeadlineWaits(d) ==
  /\ call[d].pc = "waiting" /\ message[d] = "none"
  /\ call' = [call EXCEPT ![d].pc = "reaping"]
  /\ UNCHANGED <<message, child, library>>

(* Nothing in the channel in time.                                           *)
Deadline(d) ==
  /\ call[d].pc = "waiting" /\ message[d] = "none"
  /\ call' = [call EXCEPT ![d].pc = "done", ![d].result = "timeout"]
  /\ Killed(d)
  /\ UNCHANGED <<message, library>>

(* After a frame the daemon waits for the exit, and for that without a         *)
(* deadline; then it looks at the status and at the answer.                   *)
Reap(d) ==
  /\ call[d].pc = "reaping" /\ child[d].pc \in {"exit 0", "exit 1"}
  /\ call' = [call EXCEPT ![d].pc = "done",
       ![d].result = IF child[d].pc = "exit 0" /\ child[d].answer = "text"
                     THEN "ok" ELSE "malformed"]
  /\ Killed(d)
  /\ UNCHANGED <<message, library>>

PdfNext ==
  \E d \in Daemons :
    \/ SpawnProcess(d) \/ Probe(d) \/ WriteLibrary(d) \/ Rename(d) \/ NoLibrary(d) \/ BindLibrary(d)
    \/ Extract(d) \/ FrameRead(d) \/ ProcessEnds(d) \/ BrokenPipe(d)
    \/ ReceiveFrame(d) \/ ReceiveError(d) \/ Deadline(d) \/ Reap(d)

PdfSpec == PdfInit /\ [][PdfNext]_pdfVars

(* The daemon's steps, its clock, and the exit of a process that has answered. *)
DaemonStep(d) == ReceiveFrame(d) \/ ReceiveError(d) \/ Deadline(d) \/ Reap(d) \/ ProcessEnds(d)

PdfFairness == \A d \in Daemons : WF_pdfVars(DaemonStep(d))

-----------------------------------------------------------------------------
(* Whoever writes the library at the same time, and whenever one of them is    *)
(* killed at it, no process ever finds half of it (dafs-pdf-worker main.rs     *)
(* 233).                                                                    *)
LibraryWhole == library # "part" /\ \A d \in Daemons : child[d].bound # "part"

(* A call that is over leaves no process behind, whatever became of it        *)
(* (extract_worker.rs 398).                                                 *)
NoneLeft == \A d \in Daemons : call[d].pc \in {"idle", "done"} => child[d].pc = "none"

(* A text is recorded only of a PDF that pdfium went through unharmed: not of  *)
(* one that killed it, be it after it had answered (extract_worker.rs 407).   *)
OnlyUnharmed == \A d \in Daemons : call[d].result = "ok" => call[d].fate = "text"

(* No process of a PDF harms another or the daemon: the three above.          *)
PdfSound == PdfTypeOK /\ LibraryWhole /\ NoneLeft /\ OnlyUnharmed

(* Every PDF is over. When there are no more it gets there, also with one that *)
(* pdfium never returns from (extract_worker.rs 342).                        *)
CallsAreOver == \A d \in Daemons : call[d].pc \notin {"waiting", "reaping"}
=============================================================================
