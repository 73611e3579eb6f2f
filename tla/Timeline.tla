------------------------------ MODULE Timeline ------------------------------
(***************************************************************************)
(* What the store promises about its history, whoever writes it: the rows  *)
(* of the files and the events that explain them become visible together.  *)
(* A step commits any set of changed rows with exactly one event for each  *)
(* of them, in some order. This is the requirement the comment in          *)
(* dafs-scan's `scan` (lib.rs 161-170) derives from crash consistency.      *)
(***************************************************************************)
EXTENDS Events

VARIABLES
  files,    (* the rows a reader of the store sees                         *)
  events    (* the committed event log                                     *)

vars == <<files, events>>

(* new holds one event for each file whose row differs between old and now. *)
Accounts(new, old, now) ==
  /\ \A i \in DOMAIN new :
       LET f == new[i].file IN
       /\ f \in Files
       /\ now[f] # old[f]
       /\ new[i] = EventFor(f, old[f], now[f])
  /\ \A f \in Files : now[f] # old[f] => \E i \in DOMAIN new : new[i].file = f
  /\ \A i, j \in DOMAIN new : new[i].file = new[j].file => i = j

(* A store is opened with a history that already explains its rows.         *)
Init ==
  /\ files \in [Files -> Row]
  /\ events \in Seq(Event)
  /\ ExplainsAll(events, files)
  /\ OnlyChanges(events)

(* The events a step appends.                                               *)
Appended == SubSeq(events', Len(events) + 1, Len(events'))

Record ==
  /\ files' \in [Files -> Row]
  /\ \A f \in Files : files'[f] = NoRow => files[f] = NoRow
  /\ events' = events \o Appended
  /\ Accounts(Appended, files, files')

Spec == Init /\ [][Record]_vars

-----------------------------------------------------------------------------
(* The consequences a reader of the timeline relies on.                     *)

Explained == ExplainsAll(events, files)
EventsAreChanges == OnlyChanges(events)
=============================================================================
