------------------------------- MODULE Monitor -------------------------------
(***************************************************************************)
(* dafs-tui (main.rs, client.rs, ui.rs): a terminal that asks the daemon for  *)
(* its status again and again, one endpoint after the other, and shows the   *)
(* log in a panel that follows its end or holds still where the user has     *)
(* scrolled to. Meanwhile the daemon records and logs, is restarted, or      *)
(* leaves a request without an answer.                                      *)
(*                                                                         *)
(* /version and /watch, whose answers nothing here depends on, are asked as  *)
(* /events is. The resident bytes of a daemon are the number of the poll.    *)
(***************************************************************************)
EXTENDS LogHistory, Integers

CONSTANTS
  Fetched,        (* LOG_FETCH_LIMIT                                        *)
  VisibleLines,   (* LogScroll::VISIBLE_LINES                               *)
  Strides,        (* lines a key scrolls                                    *)
  Window,         (* RSS_HISTORY_LEN                                        *)
  Following,      (* the scroll position that follows the end               *)
  Unknown,        (* not in the answers                                     *)
  MaxRefreshes,   (* bound: polls                                           *)
  MaxRecorded,    (* bound: events recorded                                 *)
  MaxTroubles     (* bound: restarts, requests without an answer            *)

ASSUME MonitorAssumption ==
  /\ {Fetched, VisibleLines, Window, MaxRefreshes} \cup Strides \subseteq Nat \ {0}
  /\ {MaxRecorded, MaxTroubles} \subseteq Nat

VARIABLES
  served,         (* the daemon: whether it is there, what it has recorded   *)
  monitor,        (* the terminal: where it is (`pc`), `status`, the one it   *)
                  (* is asking for, `log_scroll`, `rss_history`, its polls   *)
  troubles,
  held,           (* history: the line on top when the user scrolled last    *)
  moved           (* history: since then lines went that were there          *)

panelVars == <<held, moved>>
terminalVars == <<served, monitor, troubles, panelVars>>
monitorVars == <<logVars, terminalVars>>

Status ==
  [connected : BOOLEAN, rss : Nat \cup {Unknown}, total : Nat \cup {Unknown},
   newest : Nat \cup {Unknown}, lines : Seq(Line)]

MonitorState ==
  [pc : {"readyz", "metrics", "events", "logs", "shown", "exited"},
   status : Status, asked : Status, scroll : Nat \cup {Following},
   rss : Seq(Nat), polls : 1 .. MaxRefreshes]

Silent ==
  [connected |-> FALSE, rss |-> Unknown, total |-> Unknown, newest |-> Unknown, lines |-> <<>>]

TerminalInit ==
  /\ served = [up |-> TRUE, events |-> 0]
  /\ monitor = [pc |-> "readyz", status |-> Silent, asked |-> Silent, scroll |-> Following,
                rss |-> <<>>, polls |-> 1]
  /\ troubles = 0
  /\ held = Unknown
  /\ moved = FALSE

MonitorInit == LogInit /\ TerminalInit

MonitorTypeOK ==
  /\ served \in [up : BOOLEAN, events : 0 .. MaxRecorded]
  /\ monitor \in MonitorState
  /\ Len(monitor.status.lines) <= Fetched
  /\ troubles \in 0 .. MaxTroubles
  /\ held \in Line \cup {Unknown}
  /\ moved \in BOOLEAN

-----------------------------------------------------------------------------
(* LogScroll: where the panel starts.                                       *)
MaxOffset(lines) == IF Len(lines) > VisibleLines THEN Len(lines) - VisibleLines ELSE 0

Offset == IF monitor.scroll = Following THEN MaxOffset(monitor.status.lines) ELSE monitor.scroll

(* draw_logs: the lines in the panel.                                       *)
Panel ==
  LET lines == monitor.status.lines
      last == IF Offset + VisibleLines < Len(lines) THEN Offset + VisibleLines ELSE Len(lines)
  IN SubSeq(lines, Offset + 1, last)

Up(by) == IF Offset > by THEN Offset - by ELSE 0

(* Down to the end, it follows again.                                        *)
Down(by) ==
  IF Offset + by >= MaxOffset(monitor.status.lines) THEN Following ELSE Offset + by

Hold(scroll) ==
  LET lines == monitor.status.lines IN
  /\ held' = IF scroll = Following \/ scroll >= Len(lines) THEN Unknown ELSE lines[scroll + 1]
  /\ moved' = (moved /\ scroll # Following)

(* A key: up, down, top, end.                                               *)
Press ==
  /\ monitor.pc = "shown"
  /\ \E scroll \in {Up(by) : by \in Strides} \cup {Down(by) : by \in Strides} \cup {0, Following} :
       /\ monitor' = [monitor EXCEPT !.scroll = scroll]
       /\ Hold(scroll)
  /\ UNCHANGED <<logVars, served, troubles>>

Quit ==
  /\ monitor.pc = "shown"
  /\ monitor' = [monitor EXCEPT !.pc = "exited"]
  /\ UNCHANGED <<logVars, served, troubles, panelVars>>

-----------------------------------------------------------------------------
Refresh ==
  /\ monitor.pc = "shown" /\ monitor.polls < MaxRefreshes
  /\ monitor' = [monitor EXCEPT !.pc = "readyz", !.asked = Silent, !.polls = @ + 1]
  /\ UNCHANGED <<logVars, served, troubles, panelVars>>

Trouble == troubles < MaxTroubles /\ troubles' = troubles + 1

(* A request is answered, or fails: the daemon is not there, or silent.       *)
Responds == served.up /\ UNCHANGED troubles
Unanswered == IF served.up THEN Trouble ELSE UNCHANGED troubles

(* push_rss_sample                                                          *)
PushSample(sample) ==
  IF sample = Unknown THEN monitor.rss
  ELSE LET all == Append(monitor.rss, sample)
       IN IF Len(all) > Window THEN Tail(all) ELSE all

(* The poll is over: a first one that did not connect ends the program.       *)
Polled(status) ==
  /\ monitor' = [monitor EXCEPT
       !.pc = IF monitor.polls = 1 /\ ~status.connected THEN "exited" ELSE "shown",
       !.status = status, !.asked = Silent, !.rss = PushSample(status.rss)]
  /\ moved' = (moved \/ ~IsPrefix(monitor.status.lines, status.lines))
  /\ UNCHANGED held

AskReadyz ==
  /\ monitor.pc = "readyz"
  /\ \/ /\ Responds
        /\ monitor' = [monitor EXCEPT !.pc = "metrics", !.asked.connected = TRUE]
        /\ UNCHANGED panelVars
     \/ Unanswered /\ Polled(Silent)
  /\ UNCHANGED <<logVars, served>>

(* /metrics: without the counts if the store does not give them.              *)
AskMetrics ==
  /\ monitor.pc = "metrics"
  /\ \/ /\ Responds
        /\ monitor' = [monitor EXCEPT !.pc = "events", !.asked.rss = monitor.polls,
                                      !.asked.total = served.events]
     \/ /\ served.up /\ Trouble
        /\ monitor' = [monitor EXCEPT !.pc = "events", !.asked.rss = monitor.polls]
     \/ Unanswered /\ monitor' = [monitor EXCEPT !.pc = "events"]
  /\ UNCHANGED <<logVars, served, panelVars>>

(* /events: of the newest rows, the newest.                                  *)
AskEvents ==
  /\ monitor.pc = "events"
  /\ \/ Responds /\ monitor' = [monitor EXCEPT !.pc = "logs", !.asked.newest = served.events]
     \/ Unanswered /\ monitor' = [monitor EXCEPT !.pc = "logs"]
  /\ UNCHANGED <<logVars, served, panelVars>>

(* get_logs: no more than the ring may hold.                                 *)
Logs(limit) == Recent(IF limit < Capacity THEN limit ELSE Capacity)

AskLogs ==
  /\ monitor.pc = "logs"
  /\ \/ Responds /\ Polled([monitor.asked EXCEPT !.lines = Logs(Fetched)])
     \/ Unanswered /\ Polled(monitor.asked)
  /\ UNCHANGED <<logVars, served>>

-----------------------------------------------------------------------------
(* The daemon logs, records, ends, and starts with an empty log.              *)
Log ==
  /\ served.up
  /\ LogNext
  /\ UNCHANGED <<served, monitor, troubles, panelVars>>

RecordOne ==
  /\ served.up /\ served.events < MaxRecorded
  /\ served' = [served EXCEPT !.events = @ + 1]
  /\ UNCHANGED <<logVars, monitor, troubles, panelVars>>

GoDown ==
  /\ served.up /\ Trouble
  /\ served' = [served EXCEPT !.up = FALSE]
  /\ UNCHANGED <<logVars, monitor, panelVars>>

ComeUp ==
  /\ ~served.up
  /\ served' = [served EXCEPT !.up = TRUE]
  /\ ring' = <<>>
  /\ pushed' = <<>>
  /\ writer' = [e \in LogEvents |->
                   [writer[e] EXCEPT !.next = 1, !.buffer = <<>>, !.open = @ \/ writer[e].next > 1]]
  /\ UNCHANGED <<monitor, troubles, panelVars>>

MonitorNext ==
  \/ Press \/ Quit \/ Refresh
  \/ AskReadyz \/ AskMetrics \/ AskEvents \/ AskLogs
  \/ Log \/ RecordOne \/ GoDown \/ ComeUp

MonitorSpec == MonitorInit /\ [][MonitorNext]_monitorVars

-----------------------------------------------------------------------------
(* A panel that follows shows the last lines the daemon gave, and is as full   *)
(* as there are lines; one the user scrolled holds still, whatever is logged, *)
(* as long as no line that was fetched falls out of what is fetched, and is    *)
(* never below the end (ui.rs 60).                                          *)
PanelTrue ==
  LET lines == monitor.status.lines IN
  IF monitor.scroll = Following
  THEN /\ Len(Panel) = IF Len(lines) < VisibleLines THEN Len(lines) ELSE VisibleLines
       /\ Panel # <<>> => Last(Panel) = Last(lines)
  ELSE ~moved /\ held # Unknown => Panel # <<>> /\ Head(Panel) = held

(* Scrolled down to the end means following: only a panel that was scrolled up *)
(* or to the top says "scrolled" (ui.rs 85).                                 *)
DownResumes ==
  [][monitor.scroll = Following \/ monitor'.scroll = Following \/ monitor'.scroll <= monitor.scroll
       \/ monitor'.scroll < MaxOffset(monitor.status.lines)]_monitorVars

(* What one snapshot puts together from answers given at different times does  *)
(* not contradict itself: the rows are as new as the count, and nothing is     *)
(* said of a daemon that did not answer (client.rs 109).                     *)
SnapshotTrue ==
  LET s == monitor.status IN
  /\ Unknown \notin {s.total, s.newest} => s.newest >= s.total
  /\ ~s.connected => s = Silent

(* The trend has the newest samples in their order, none for a poll that got   *)
(* none (main.rs 132).                                                      *)
TrendTrue ==
  /\ Len(monitor.rss) <= Window
  /\ \A i, j \in DOMAIN monitor.rss : i < j => monitor.rss[i] < monitor.rss[j]
  /\ monitor.status.rss # Unknown => monitor.rss # <<>> /\ Last(monitor.rss) = monitor.status.rss

(* What the log keeps and the terminal shows is what happened: LogSound, and   *)
(* the above.                                                               *)
MonitorSound == LogSound /\ MonitorTypeOK /\ PanelTrue /\ SnapshotTrue /\ TrendTrue
=============================================================================
