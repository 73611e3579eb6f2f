----------------------------- MODULE LogHistory -----------------------------
(***************************************************************************)
(* The ring of recent log lines (dafs-api log_history.rs): every log event    *)
(* has a writer of its own, which gets the event in chunks and pushes a line  *)
(* to the ring when its end arrives; the ring's lock is taken line by line,   *)
(* so that events logged by different threads interleave.                    *)
(*                                                                         *)
(* A text is a sequence of letters and ends of line; "bad" is a byte that is  *)
(* not UTF-8, which takes its whole chunk with it.                           *)
(***************************************************************************)
EXTENDS Naturals, Sequences, SequencesExt, Functions

CONSTANTS
  LogEvents,
  Texts,          (* what an event may be: a sequence of chunks              *)
  Capacity        (* CAPACITY                                               *)

ASSUME LogAssumption ==
  /\ Texts \subseteq Seq(Seq(STRING))
  /\ Capacity \in Nat \ {0}

Line == [of : LogEvents, line : Seq(STRING)]
Writer == [text : Seq(Seq(STRING)), next : Nat \ {0}, buffer : Seq(STRING), open : BOOLEAN]

VARIABLES
  ring,           (* the lines, each with the event it is of                *)
  writer,         (* of each event: what it has to write, its buffer        *)
  pushed          (* history: every line that was pushed                    *)

logVars == <<ring, writer, pushed>>

NewWriters == [LogEvents -> [text : Texts, next : {1}, buffer : {<<>>}, open : {TRUE}]]

LogInit ==
  /\ ring = <<>>
  /\ writer \in NewWriters
  /\ pushed = <<>>

LogTypeOK ==
  /\ ring \in Seq(Line)
  /\ pushed \in Seq(Line)
  /\ writer \in [LogEvents -> Writer]
  /\ \A e \in LogEvents : writer[e].next \in 1 .. Len(writer[e].text) + 1

Newest(lines) == IF Len(lines) > Capacity THEN Tail(lines) ELSE lines

(* push_line: an empty line is none.                                         *)
PushLine(e, line) ==
  IF line = <<>> THEN UNCHANGED <<ring, pushed>>
  ELSE /\ ring' = Newest(Append(ring, [of |-> e, line |-> line]))
       /\ pushed' = Append(pushed, [of |-> e, line |-> line])

Ends(buffer) == {i \in DOMAIN buffer : buffer[i] = "\n"}

Until(buffer) == CHOOSE i \in Ends(buffer) : \A j \in Ends(buffer) : i <= j

(* `write`: the chunk joins the buffer.                                      *)
Write(e) ==
  LET w == writer[e] IN
  /\ w.open /\ w.next <= Len(w.text) /\ Ends(w.buffer) = {}
  /\ writer' = [writer EXCEPT ![e].next = @ + 1,
                  ![e].buffer = IF "bad" \in Range(w.text[w.next]) THEN @ ELSE @ \o w.text[w.next]]
  /\ UNCHANGED <<ring, pushed>>

(* A mistaken variant of Split, used only by the mutation runs: what follows   *)
(* the line is cleared with it.                                             *)
SplitClearing(e) ==
  LET buffer == writer[e].buffer IN
  /\ writer[e].open /\ Ends(buffer) # {}
  /\ PushLine(e, SubSeq(buffer, 1, Until(buffer) - 1))
  /\ writer' = [writer EXCEPT ![e].buffer = <<>>]

(* One more line of what it holds.                                           *)
Split(e) ==
  LET buffer == writer[e].buffer IN
  /\ writer[e].open /\ Ends(buffer) # {}
  /\ PushLine(e, SubSeq(buffer, 1, Until(buffer) - 1))
  /\ writer' = [writer EXCEPT ![e].buffer = SubSeq(@, Until(buffer) + 1, Len(@))]

(* `drop`, which flushes the rest.                                           *)
Flush(e) ==
  LET w == writer[e] IN
  /\ w.open /\ w.next > Len(w.text) /\ Ends(w.buffer) = {}
  /\ PushLine(e, w.buffer)
  /\ writer' = [writer EXCEPT ![e].open = FALSE, ![e].buffer = <<>>]

LogNext == \E e \in LogEvents : Write(e) \/ Split(e) \/ Flush(e)

LogSpec == LogInit /\ [][LogNext]_logVars

(* `recent`, as the /logs handler asks for it.                               *)
Recent(limit) == SubSeq(ring, (IF limit < Len(ring) THEN Len(ring) - limit ELSE 0) + 1, Len(ring))

-----------------------------------------------------------------------------
(* What was written of an event, what was pushed for it, and a text but for its *)
(* ends of line.                                                            *)
WrittenOf(w) ==
  FlattenSeq([i \in 1 .. w.next - 1 |-> IF "bad" \in Range(w.text[i]) THEN <<>> ELSE w.text[i]])

Written(e) == WrittenOf(writer[e])

PushedFor(lines, e) ==
  FlattenSeq([i \in DOMAIN lines |-> IF lines[i].of = e THEN lines[i].line ELSE <<>>])

Letters(text) ==
  FlattenSeq([i \in DOMAIN text |-> IF text[i] = "\n" THEN <<>> ELSE <<text[i]>>])

(* From an end of line, or its start, to the next, or its end.                *)
IsLineOf(line, text) ==
  /\ "\n" \notin Range(line)
  /\ \E i, j \in 0 .. Len(text) :
       /\ SubSeq(text, i + 1, j) = line
       /\ i > 0 => text[i] = "\n"
       /\ j < Len(text) => text[j + 1] = "\n"

(* No event is split at a chunk's end, mixed with another's or shortened:      *)
(* joined by the ends of line that closed them, the lines pushed for it and   *)
(* what its writer still holds are what was written of it, but for empty      *)
(* lines (log_history.rs 64).                                               *)
EventsWhole ==
  \A e \in LogEvents :
    /\ Letters(PushedFor(pushed, e) \o writer[e].buffer) = Letters(Written(e))
    /\ \A i \in DOMAIN pushed : pushed[i].of = e => IsLineOf(pushed[i].line, Written(e))

(* What a monitor is shown is the newest lines, none skipped, and never more  *)
(* than the ring keeps (log_history.rs 53).                                  *)
ShownNewest ==
  \A limit \in 0 .. Capacity + 1 :
    LET n == CHOOSE n \in {limit, Capacity, Len(pushed)} : \A m \in {limit, Capacity, Len(pushed)} : n <= m
    IN Recent(limit) = SubSeq(pushed, Len(pushed) - n + 1, Len(pushed))

(* The log that is shown is the one that was written: the two above.          *)
LogSound == LogTypeOK /\ EventsWhole /\ ShownNewest
=============================================================================
