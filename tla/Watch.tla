------------------------------- MODULE Watch -------------------------------
(***************************************************************************)
(* The watch (dafs-scan watch.rs): raw notify events are folded into        *)
(* pending changes, one per path, halves of renames are paired by the       *)
(* kernel's cookie, and changes that stayed quiet are handed to the caller.  *)
(*                                                                         *)
(* `pending` is the hash map of that name with its entries in the order of  *)
(* last_seen. Of the time only that order is kept: any oldest part of it    *)
(* may have been quiet for DEBOUNCE, and any half may be older than         *)
(* PENDING_RENAME_TTL, though if that constant is as long as it should be   *)
(* only when no partner of it is on its way.                                *)
(***************************************************************************)
EXTENDS Changes, FiniteSets, Functions

CONSTANTS
  LateHalves,    (* a half may be later than PENDING_RENAME_TTL             *)
  MaxEdits,      (* bound: changes made under the root, and cookies         *)
  MaxOverflows   (* bound: times the kernel's queue overflows               *)

ASSUME WatchAssumption ==
  /\ LateHalves \in BOOLEAN
  /\ MaxEdits \in Nat
  /\ MaxOverflows \in Nat

VARIABLES
  raw,          (* notify events on their way, oldest first                 *)
  pending,      (* changes not yet handed over, quietest first              *)
  halves,       (* pending_renames                                          *)
  overflowed,   (* the flag of that name                                    *)
  inbox,        (* the changes the latest poll returned, to be applied      *)
  edits,        (* changes so far                                           *)
  overflows,    (* overflows so far                                         *)
  moves,        (* history: the moves made, as <<from, to>>                 *)
  unsaid,       (* history: names absorbed and not in a change since        *)
  reused        (* history: names at which something happened while half of *)
                (* a move away from them was waiting for its partner        *)

watch == <<pending, halves, overflowed>>
history == <<moves, unsaid, reused>>
vars == <<raw, watch, inbox, edits, overflows, history>>

-----------------------------------------------------------------------------
(* Raw events. A move is reported as two halves with one cookie, or as one   *)
(* event with both paths. (inotify sends the latter too, at once after the  *)
(* second half; absorbing it again changes nothing.) Of a move that crosses  *)
(* the root's border there is only one half.                                *)

Plain(c) == [kind |-> "plain", change |-> c, cookie |-> 0]
Half(kind, c, cookie) == [kind |-> kind, change |-> c, cookie |-> cookie]
From(n, cookie) == Half("from", Removed(n), cookie)
To(n, cookie) == Half("to", Touched(n), cookie)
Both(c) == [kind |-> "both", change |-> c, cookie |-> 0]
Rescan == [kind |-> "rescan", change |-> Overflowed, cookie |-> 0]

HalfEvent ==
  {From(n, k) : n \in Names, k \in 1 .. MaxEdits}
    \cup {To(n, k) : n \in Names, k \in 1 .. MaxEdits}

RawEvent ==
  {Plain(c) : c \in FileChange} \cup {Both(c) : c \in FileChange} \cup HalfEvent
    \cup {Rescan}

Reports(c, cookie) ==
  CASE c.kind = "touched" -> {<<Plain(c)>>, <<To(c.to, cookie)>>}
    [] c.kind = "removed" -> {<<Plain(c)>>, <<From(c.to, cookie)>>}
    [] c.kind = "renamed" -> {<<From(c.from, cookie), To(c.to, cookie)>>, <<Both(c)>>}

OneEntryPerPath ==
  \A i, j \in DOMAIN pending : pending[i].to = pending[j].to => i = j

TypeOK ==
  /\ raw \in Seq(RawEvent)
  /\ pending \in Seq(FileChange)
  /\ OneEntryPerPath
  /\ halves \subseteq HalfEvent
  /\ \A g, h \in halves : g.cookie = h.cookie => g = h
  /\ overflowed \in BOOLEAN
  /\ inbox \in Seq(Change)
  /\ edits \in 0 .. MaxEdits
  /\ overflows \in 0 .. MaxOverflows
  /\ moves \subseteq Names \X Names
  /\ unsaid \subseteq Names
  /\ reused \subseteq Names

WatchInit ==
  /\ raw = <<>>
  /\ pending = <<>>
  /\ halves = {}
  /\ overflowed = FALSE
  /\ inbox = <<>>
  /\ moves = {}
  /\ unsaid = {}
  /\ reused = {}

Init == WatchInit /\ edits = 0 /\ overflows = 0

(* Nothing is on its way to the caller.                                     *)
Drained == raw = <<>> /\ pending = <<>> /\ halves = {} /\ ~overflowed

(* The names of what is on its way.                                         *)
Held ==
  Mentioned(pending) \cup {h.change.to : h \in halves}
    \cup UNION {NamesOf(raw[i].change) : i \in DOMAIN raw}

-----------------------------------------------------------------------------
(* The kernel and notify's thread.                                          *)

Notify(c) ==
  /\ \E es \in Reports(c, edits + 1) : raw' = raw \o es
  /\ moves' = IF c.kind = "renamed" THEN moves \cup {<<c.from, c.to>>} ELSE moves
  /\ UNCHANGED <<watch, inbox, overflows, unsaid, reused>>

(* The queue is full in the middle of a report, or before it.               *)
NotifyOverflows(c) ==
  /\ overflows < MaxOverflows
  /\ overflows' = overflows + 1
  /\ \E es \in Reports(c, edits + 1) : \E k \in 0 .. Len(es) - 1 :
       raw' = raw \o SubSeq(es, 1, k) \o <<Rescan>>
  /\ moves' = IF c.kind = "renamed" THEN moves \cup {<<c.from, c.to>>} ELSE moves
  /\ UNCHANGED <<watch, inbox, unsaid, reused>>

-----------------------------------------------------------------------------
(* poll, first half: absorb what has arrived. The caller polls again when it *)
(* has applied what the last poll returned.                                 *)

(* Operators named ...Either, ...OldChange, ...KeepsTo, ...AnyCookie and      *)
(* ...SourcesOnly are mistaken variants for the mutation runs.              *)

WithoutEither(s, n) == SelectSeq(s, LAMBDA c : n \notin {c.from, c.to})

(* pending.remove(n)                                                        *)
Without(s, n) ==
  LET at == {i \in DOMAIN s : s[i].to = n}
      k == CHOOSE i \in at : TRUE
  IN IF at = {} THEN s ELSE SubSeq(s, 1, k - 1) \o SubSeq(s, k + 1, Len(s))

(* pending.insert: the newest entry, in the place of what its path had.     *)
With(s, c) == Append(Without(s, c.to), c)

InsertOldChange(c) ==
  LET old == SelectSeq(pending, LAMBDA d : d.to = c.to)
  IN pending' = With(pending, IF old = <<>> THEN c ELSE Head(old))

Insert(c) == pending' = With(pending, c)

EmitRenameKeepsTo(from, to) == pending' = Append(Without(pending, from), Renamed(from, to))

(* emit_rename: what was pending at either end is superseded.               *)
EmitRename(from, to) == pending' = With(Without(pending, from), Renamed(from, to))

Absorb(kind) ==
  /\ inbox = <<>>
  /\ raw # <<>>
  /\ Head(raw).kind = kind
  /\ raw' = Tail(raw)
  /\ reused' = reused \cup
       ({h.change.to : h \in {g \in halves : g.kind = "from"}} \cap NamesOf(Head(raw).change))
  /\ UNCHANGED <<inbox, edits, overflows, moves>>

AbsorbOverflow ==
  /\ Absorb("rescan")
  /\ overflowed' = TRUE
  /\ UNCHANGED <<pending, halves, unsaid>>

AbsorbPlain ==
  /\ Absorb("plain")
  /\ Insert(Head(raw).change)
  /\ unsaid' = unsaid \cup NamesOf(Head(raw).change)
  /\ UNCHANGED <<halves, overflowed>>

AbsorbBoth ==
  /\ Absorb("both")
  /\ EmitRename(Head(raw).change.from, Head(raw).change.to)
  /\ unsaid' = unsaid \cup NamesOf(Head(raw).change)
  /\ UNCHANGED <<halves, overflowed>>

PartnersAnyCookie(h) == halves

Partners(h) == {g \in halves : g.cookie = h.cookie}

(* A half waits for its partner, in the place of one of the same direction. *)
AbsorbHalf(kind) ==
  /\ Absorb(kind)
  /\ LET h == Head(raw) IN
       \/ \E g \in Partners(h) :
            /\ g.kind # h.kind
            /\ halves' = halves \ {g}
            /\ LET from == IF h.kind = "from" THEN h.change.to ELSE g.change.to
                   to == IF h.kind = "from" THEN g.change.to ELSE h.change.to
               IN /\ EmitRename(from, to)
                  /\ unsaid' = unsaid \cup {from, to}
       \/ /\ \A g \in Partners(h) : g.kind = h.kind
          /\ halves' = (halves \ Partners(h)) \cup {h}
          /\ UNCHANGED <<pending, unsaid>>
  /\ UNCHANGED overflowed

-----------------------------------------------------------------------------
(* poll, second half: take_expired.                                         *)

ExpireHalfSourcesOnly(h) ==
  /\ inbox = <<>>
  /\ h \in halves
  /\ h.kind = "from"
  /\ LateHalves \/ \A i \in DOMAIN raw : raw[i].cookie # h.cookie
  /\ halves' = halves \ {h}
  /\ Insert(h.change)
  /\ unsaid' = unsaid \cup NamesOf(h.change)
  /\ UNCHANGED <<raw, overflowed, inbox, edits, overflows, moves, reused>>

(* A half that found no partner becomes the plain change it is.             *)
ExpireHalf(h) ==
  /\ inbox = <<>>
  /\ h \in halves
  /\ LateHalves \/ \A i \in DOMAIN raw : raw[i].cookie # h.cookie
  /\ halves' = halves \ {h}
  /\ Insert(h.change)
  /\ unsaid' = unsaid \cup NamesOf(h.change)
  /\ UNCHANGED <<raw, overflowed, inbox, edits, overflows, moves, reused>>

(* The overflow first, then the changes that were quiet long enough, in the *)
(* order the hash map happens to have.                                      *)
TakeExpired ==
  /\ inbox = <<>>
  /\ \E k \in 0 .. Len(pending) :
       /\ k > 0 \/ overflowed
       /\ pending' = SubSeq(pending, k + 1, Len(pending))
       /\ \E order \in Bijection(1 .. k, 1 .. k) :
            inbox' = (IF overflowed THEN <<Overflowed>> ELSE <<>>)
                       \o [i \in 1 .. k |-> pending[order[i]]]
  /\ overflowed' = FALSE
  /\ unsaid' = (unsaid \ Mentioned(inbox')) \cup (unsaid \cap Mentioned(pending'))
  /\ UNCHANGED <<raw, halves, edits, overflows, moves, reused>>

Poll ==
  \/ AbsorbOverflow
  \/ AbsorbPlain
  \/ AbsorbBoth
  \/ AbsorbHalf("from")
  \/ AbsorbHalf("to")
  \/ \E h \in halves : ExpireHalf(h)
  \/ TakeExpired

-----------------------------------------------------------------------------
(* Alone: any changes at all, and a caller that applies what it is given.   *)

Users ==
  /\ edits < MaxEdits
  /\ edits' = edits + 1
  /\ \E c \in FileChange : Notify(c) \/ NotifyOverflows(c)

Apply ==
  /\ inbox # <<>>
  /\ inbox' = <<>>
  /\ UNCHANGED <<raw, watch, edits, overflows, history>>

Next == Users \/ Poll \/ Apply

Spec == Init /\ [][Next]_vars

(* The caller loops on poll; the thread that applies what it returns is the *)
(* same. A window that keeps being restarted ends with the edits.           *)
FairSpec == Spec /\ WF_vars(Poll) /\ WF_vars(Apply)

-----------------------------------------------------------------------------
(* A reported rename is a move that was made: halves of two moves are never *)
(* paired, whatever was lost between them.                                  *)
TruePairs ==
  \A s \in {pending, inbox} : \A i \in DOMAIN s :
    s[i].kind = "renamed" => <<s[i].from, s[i].to>> \in moves

(* A name that was absorbed is in some change handed over afterwards, unless *)
(* it was the source of a move.                                             *)
OnlySourcesForgotten == unsaid \subseteq Mentioned(pending) \cup {m[1] : m \in moves}

(* Whatever comes in gets out: no half waits for ever, no window is open    *)
(* for ever once its path is quiet, an overflow is reported.                *)
Surfaces == ~Drained ~> Drained

=============================================================================
