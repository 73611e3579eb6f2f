------------------------------ MODULE Observer ------------------------------
(***************************************************************************)
(* The observer thread with the real watch: the handlers of Recorder apply  *)
(* what Watch makes of the raw events (main.rs, `observe`: poll, then apply *)
(* each change returned, then poll again). Events that occur while the      *)
(* thread is busy wait in notify's channel.                                 *)
(***************************************************************************)
EXTENDS Recorder

CONSTANT LateHalves      (* see Watch                                       *)

ASSUME ObserverAssumption == LateHalves \in BOOLEAN

VARIABLES raw, pending, halves, overflowed, moves, unsaid, reused

W == INSTANCE Watch

watchVars == <<raw, pending, halves, overflowed, moves, unsaid, reused>>
allVars == <<vars, watchVars>>

ObserverTypeOK == TypeOK /\ W!TypeOK

ObserverInit == Init /\ W!WatchInit

(* Nothing is on its way any more and all of it is applied.                 *)
Quiet == AtRest /\ W!Drained

-----------------------------------------------------------------------------
(* What the users do is noticed if the watch is there, or lost in a full    *)
(* queue, or not noticed at all.                                            *)
UsersObserved ==
  \E e \in EditsNow :
    /\ ChangeFiles(e)
    /\ \/ /\ Watching
          /\ W!Notify(e.change)
          /\ known' = IF Quiet THEN RowsOfFiles ELSE known
          /\ UNCHANGED missed
       \/ /\ Watching
          /\ W!NotifyOverflows(e.change)
          /\ Lose(NamesOf(e.change))
       \/ /\ ~Watching
          /\ Lose(NamesOf(e.change))
          /\ UNCHANGED <<watchVars, inbox, overflows>>
    /\ UNCHANGED <<crashes, faults>>

(* The poll of the loop, once the changes of the last one are applied.      *)
Poll ==
  /\ pc = "watch"
  /\ Idle
  /\ W!Poll
  /\ UNCHANGED <<fs, store, pc, scanning, handler, crashes, faults, history>>

ApplyChange ==
  /\ \/ ApplyOverflowed
     \/ ApplyTouched
     \/ ApplyRemoved
     \/ ApplyRenamed
     \/ AppendEvent
     \/ MoveRow
     \/ EndScan
     \/ \E n \in Names : ScanEntryBefore(n, Mentioned(inbox) \cup W!Held)
  /\ UNCHANGED watchVars

Start ==
  /\ Boot
  /\ UNCHANGED watchVars

Mishap ==
  /\ HandlerFails \/ ScanFails
  /\ UNCHANGED watchVars

(* The watch dies with its process.                                         *)
Kill ==
  /\ CrashLosing(Mentioned(inbox) \cup W!Held)
  /\ raw' = <<>>
  /\ pending' = <<>>
  /\ halves' = {}
  /\ overflowed' = FALSE
  /\ unsaid' = {}
  /\ UNCHANGED <<moves, reused>>

ObserverNext ==
  \/ UsersObserved
  \/ Start
  \/ Poll
  \/ ApplyChange
  \/ Mishap
  \/ Kill

ObserverSpec == ObserverInit /\ [][ObserverNext]_allVars

-----------------------------------------------------------------------------
(* What Recorder promises of the log with a perfect watch it keeps with the  *)
(* real one, which merges, reorders and loses: the events of a row tell     *)
(* where it is, and each follows from the one before it.                    *)
HistorySound == Explained /\ HistoryFits

(* Names no rename ever touched are mirrored, in whatever order and however *)
(* merged their changes arrive: a file and a live row, or neither.          *)
MirrorApartFromMoves ==
  Quiet => \A n \in Names \ (missed \cup reused) :
    (\A m \in moves : n \notin {m[1], m[2]}) => InSync(n)
=============================================================================
