------------------------------ MODULE MCDaemon ------------------------------
(* Instances for TLC of what runs in and around the daemon's process: its     *)
(* life and its store's schema, its control channel, its PDF processes, its   *)
(* log, the terminal that watches it, and the update of its binary. They share *)
(* no state, so each behaviour is of one part, and TLC need not go through      *)
(* every mixture of them.                                                   *)
EXTENDS Lifecycle, Control, PdfWorker, Monitor, SelfUpdate, TLC

CONSTANTS
  p1, p2, p3, a1, a2, e1,
  WatchedText     (* what is logged while the terminal watches              *)

ASSUME WatchedAssumption == WatchedText \in Seq(Seq(STRING))

VARIABLE part

Run(a) == [cmd |-> "run", listen |-> a, relative |-> FALSE, detach |-> TRUE, llm |-> {}]
StopOption == [Run(a1) EXCEPT !.cmd = "stop"]

MCSupported == p1 :> 1 @@ p2 :> 2 @@ p3 :> 1
MCOptions ==
  p1 :> {[Run(a1) EXCEPT !.llm = {"enrich", "embed"}]} @@
  p2 :> {Run(a1), Run(a2), [Run(a1) EXCEPT !.relative = TRUE]} @@
  p3 :> {StopOption}

MCTexts ==
  {<< <<"a">>, <<"b", "\n">> >>,
   << <<"a", "\n", "b">>, <<"\n", "\n", "c">> >>,
   << <<"a">>, <<"bad", "\n">>, <<"c", "\n">> >>}

(* The terminal watches one event, of three lines.                           *)
MCWatchedText == << <<"a", "\n", "b", "\n", "c", "\n">> >>

Quiet(e) == [text |-> <<>>, next |-> 1, buffer |-> <<>>, open |-> FALSE]
Watched ==
  [e \in LogEvents |->
     IF e = e1 THEN [Quiet(e) EXCEPT !.text = WatchedText, !.open = TRUE]
     ELSE Quiet(e)]

vars == <<lifecycleVars, controlVars, pdfVars, monitorVars, updateVars, part>>

Init ==
  /\ LifecycleInit /\ ControlInit /\ PdfInit /\ UpdateInit
  /\ part \in {"lifecycle", "control", "pdf", "log", "monitor", "update"}
  /\ part # "lifecycle" => applied = {}
  /\ ring = <<>> /\ pushed = <<>>
  /\ writer \in IF part = "log" THEN NewWriters ELSE {Watched}
  /\ TerminalInit

Next ==
  /\ UNCHANGED part
  /\ \/ /\ part = "lifecycle" /\ LifecycleNext
        /\ UNCHANGED <<controlVars, pdfVars, monitorVars, updateVars>>
     \/ /\ part = "control" /\ ControlNext
        /\ UNCHANGED <<lifecycleVars, pdfVars, monitorVars, updateVars>>
     \/ /\ part = "pdf" /\ PdfNext
        /\ UNCHANGED <<lifecycleVars, controlVars, monitorVars, updateVars>>
     \/ /\ part = "log" /\ LogNext
        /\ UNCHANGED <<lifecycleVars, controlVars, pdfVars, terminalVars, updateVars>>
     \/ /\ part = "monitor" /\ MonitorNext
        /\ UNCHANGED <<lifecycleVars, controlVars, pdfVars, updateVars>>
     \/ /\ part = "update" /\ UpdateNext
        /\ UNCHANGED <<lifecycleVars, controlVars, pdfVars, monitorVars>>

LifecycleOnly == Init /\ part = "lifecycle" /\ [][Next]_vars

(* The fairness of each part, where the behaviour is of that part.            *)
Spec ==
  /\ Init /\ [][Next]_vars
  /\ \A p \in Conn : WF_lifecycleVars(part = "lifecycle" /\ Step(p))
  /\ WF_controlVars(part = "control" /\ ObserverStep)
  /\ \A c \in Requests : WF_controlVars(part = "control" /\ HandlerStep(c))
  /\ \A d \in Daemons : WF_pdfVars(part = "pdf" /\ DaemonStep(d))

(* A file that is put in its place by a rename, the library of pdfium and the   *)
(* binary itself, is whole there, and who puts it there leaves nothing running. *)
ReplacedWhole == PdfSound /\ UpdateSound

(* No step, of whomever, does half of what it is for, or what is not its       *)
(* business: the parts' action properties.                                   *)
DaemonSteps == OneAtATime /\ Undisturbed /\ ShownWhole /\ DownResumes

(* What was begun ends, when nothing new is asked for: every start and stop,   *)
(* every change of the roots, every PDF.                                     *)
DaemonSettles == <>[](StartsAreOver /\ CommandsAreOver /\ CallsAreOver)
=============================================================================
