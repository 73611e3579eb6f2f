---------------------------- MODULE WatchProofs -----------------------------
(***************************************************************************)
(* Theorems about Watch, for any names, any number of changes and overflows *)
(* and whether halves may come late or not.                                 *)
(***************************************************************************)
EXTENDS Watch, SequenceTheorems, TLAPS

(* A hash map of changes by path: no path has two entries.                  *)
IsMap(s) == \A i, j \in DOMAIN s : s[i].to = s[j].to => i = j

-----------------------------------------------------------------------------
(* What a change is.                                                        *)
LEMMA FileChangeFields ==
  ASSUME NEW c \in FileChange
  PROVE  /\ c.kind \in {"touched", "removed", "renamed"}
         /\ c.from \in Names
         /\ c.to \in Names
         /\ c.kind = "renamed" => c.from # c.to
         /\ c.kind # "renamed" => c.from = c.to
         /\ NamesOf(c) = {c.from, c.to}
  <1>1. \/ \E n \in Names : c = Touched(n)
        \/ \E n \in Names : c = Removed(n)
        \/ \E n \in Names : \E m \in Names \ {n} : c = Renamed(n, m)
    BY DEF FileChange
  <1>2. /\ c.kind \in {"touched", "removed", "renamed"}
        /\ c.from \in Names
        /\ c.to \in Names
        /\ c.kind = "renamed" => c.from # c.to
        /\ c.kind # "renamed" => c.from = c.to
    BY <1>1 DEF Touched, Removed, Renamed
  <1>3. QED
    BY <1>2 DEF NamesOf

LEMMA RenamedIsChange ==
  ASSUME NEW n \in Names, NEW m \in Names, n # m
  PROVE  /\ Renamed(n, m) \in FileChange
         /\ Renamed(n, m).kind = "renamed"
         /\ Renamed(n, m).from = n
         /\ Renamed(n, m).to = m
  BY DEF FileChange, Renamed

(* What a raw event is.                                                     *)
LEMMA RawEventFields ==
  ASSUME NEW e \in RawEvent
  PROVE  /\ e.kind \in {"plain", "both", "from", "to", "rescan"}
         /\ e.kind # "rescan" => e.change \in FileChange
         /\ e.kind \in {"from", "to"} => e \in HalfEvent
         /\ e.cookie \in 0 .. MaxEdits
  <1> USE WatchAssumption
  <1>1. CASE e \in {Plain(c) : c \in FileChange}
    BY <1>1 DEF Plain
  <1>2. CASE e \in {Both(c) : c \in FileChange}
    BY <1>2 DEF Both
  <1>3. CASE e \in {From(n, k) : n \in Names, k \in 1 .. MaxEdits}
    BY <1>3 DEF HalfEvent, From, Half, FileChange
  <1>4. CASE e \in {To(n, k) : n \in Names, k \in 1 .. MaxEdits}
    BY <1>4 DEF HalfEvent, To, Half, FileChange
  <1>5. CASE e = Rescan
    BY <1>5 DEF Rescan
  <1>6. QED
    BY <1>1, <1>2, <1>3, <1>4, <1>5 DEF RawEvent, HalfEvent

LEMMA HalfEventFields ==
  ASSUME NEW h \in HalfEvent
  PROVE  /\ h \in RawEvent
         /\ h.kind \in {"from", "to"}
         /\ h.change \in FileChange
         /\ h.change.kind # "renamed"
         /\ h.change.to \in Names
         /\ h.cookie \in 1 .. MaxEdits
  <1>1. CASE h \in {From(n, k) : n \in Names, k \in 1 .. MaxEdits}
    BY <1>1 DEF RawEvent, From, Half, FileChange, Removed
  <1>2. CASE h \in {To(n, k) : n \in Names, k \in 1 .. MaxEdits}
    BY <1>2 DEF RawEvent, To, Half, FileChange, Touched
  <1>3. QED
    BY <1>1, <1>2 DEF HalfEvent, RawEvent

-----------------------------------------------------------------------------
(* pending.remove and pending.insert: no path gets two entries, the entry of *)
(* the path goes, and no other does.                                        *)
LEMMA WithoutIsMap ==
  ASSUME NEW s \in Seq(FileChange), IsMap(s), NEW n
  PROVE  /\ Without(s, n) \in Seq(FileChange)
         /\ IsMap(Without(s, n))
         /\ \A i \in DOMAIN Without(s, n) :
              \E j \in DOMAIN s : Without(s, n)[i] = s[j] /\ s[j].to # n
         /\ \A j \in DOMAIN s :
              s[j].to # n => \E i \in DOMAIN Without(s, n) : Without(s, n)[i] = s[j]
  <1> DEFINE at == {i \in DOMAIN s : s[i].to = n}
             k == CHOOSE i \in at : TRUE
             a == SubSeq(s, 1, k - 1)
             b == SubSeq(s, k + 1, Len(s))
             t == a \o b
  <1>1. CASE at = {}
    BY <1>1 DEF Without
  <1>2. CASE at # {}
    <2>1. k \in 1 .. Len(s) /\ s[k].to = n
      BY <1>2
    <2> HIDE DEF k
    <2>2. \A i \in 1 .. Len(s) : s[i] \in FileChange
      OBVIOUS
    <2>3. /\ a \in Seq(FileChange)
          /\ Len(a) = k - 1
          /\ \A i \in 1 .. k - 1 : a[i] = s[i]
      <3>1. k \in Int /\ k - 1 \in Int /\ Len(s) \in Nat
        BY <2>1
      <3>2. \A i \in 1 .. k - 1 : s[i] \in FileChange
        BY <2>1, <2>2
      <3>3. /\ a \in Seq(FileChange)
            /\ Len(a) = IF 1 <= k - 1 THEN k - 1 - 1 + 1 ELSE 0
            /\ \A i \in 1 .. k - 1 - 1 + 1 : a[i] = s[1 + i - 1]
        BY <3>1, <3>2, SubSeqProperties
      <3>4. QED
        BY <2>1, <3>1, <3>3
    <2>4. /\ b \in Seq(FileChange)
          /\ Len(b) = Len(s) - k
          /\ \A i \in 1 .. Len(s) - k : b[i] = s[k + i]
      <3>1. k \in Int /\ k + 1 \in Int /\ Len(s) \in Int
        BY <2>1
      <3>2. \A i \in k + 1 .. Len(s) : s[i] \in FileChange
        BY <2>1, <2>2
      <3>3. /\ b \in Seq(FileChange)
            /\ Len(b) = IF k + 1 <= Len(s) THEN Len(s) - (k + 1) + 1 ELSE 0
            /\ \A i \in 1 .. Len(s) - (k + 1) + 1 : b[i] = s[(k + 1) + i - 1]
        BY <3>1, <3>2, SubSeqProperties
      <3>4. QED
        BY <2>1, <3>1, <3>3
    <2> HIDE DEF a, b
    <2>5. /\ t \in Seq(FileChange)
          /\ Len(t) = Len(s) - 1
          /\ \A i \in 1 .. Len(t) : t[i] = IF i < k THEN s[i] ELSE s[i + 1]
      <3>1. /\ t \in Seq(FileChange)
            /\ Len(t) = Len(a) + Len(b)
            /\ \A i \in 1 .. Len(a) + Len(b) :
                 t[i] = IF i <= Len(a) THEN a[i] ELSE b[i - Len(a)]
        BY <2>3, <2>4, ConcatProperties
      <3> HIDE DEF t
      <3>2. k \in Int /\ Len(s) \in Nat /\ 1 <= k /\ k <= Len(s)
        BY <2>1
      <3>3. Len(t) = Len(s) - 1
        BY <3>1, <3>2, <2>3, <2>4
      <3>4. ASSUME NEW i \in 1 .. Len(t) PROVE t[i] = IF i < k THEN s[i] ELSE s[i + 1]
        <4>1. CASE i < k
          BY <4>1, <3>1, <3>2, <3>3, <2>3, <2>4
        <4>2. CASE ~(i < k)
          <5>1. i - (k - 1) \in 1 .. Len(s) - k /\ k + (i - (k - 1)) = i + 1
            BY <4>2, <3>2, <3>3
          <5>2. t[i] = b[i - (k - 1)]
            BY <4>2, <3>1, <3>2, <3>3, <2>3, <2>4
          <5>3. QED
            BY <4>2, <5>1, <5>2, <2>4
        <4>3. QED
          BY <4>1, <4>2
      <3>5. QED
        BY <3>1, <3>3, <3>4
    <2>6. Without(s, n) = t
      BY <1>2 DEF Without, k, a, b
    <2> HIDE DEF t
    <2>7. DOMAIN t = 1 .. Len(s) - 1 /\ DOMAIN s = 1 .. Len(s)
      BY <2>5
    <2> DEFINE Old(i) == IF i < k THEN i ELSE i + 1
    <2>8. \A i \in DOMAIN t : Old(i) \in DOMAIN s \ {k} /\ t[i] = s[Old(i)]
      BY <2>1, <2>5, <2>7
    <2>9. \A i, j \in DOMAIN t : Old(i) = Old(j) => i = j
      BY <2>1, <2>7
    <2>10. k \in DOMAIN s
      BY <2>1, <2>7
    <2> HIDE DEF Old
    <2>11. IsMap(t)
      BY <2>8, <2>9 DEF IsMap
    <2>12. \A i \in DOMAIN t : \E j \in DOMAIN s : t[i] = s[j] /\ s[j].to # n
      BY <2>1, <2>8, <2>10 DEF IsMap
    <2>13. \A j \in DOMAIN s : s[j].to # n => \E i \in DOMAIN t : t[i] = s[j]
      <3> SUFFICES ASSUME NEW j \in DOMAIN s, s[j].to # n
                   PROVE  \E i \in DOMAIN t : t[i] = s[j]
        OBVIOUS
      <3>1. CASE j < k
        BY <3>1, <2>1, <2>5, <2>7
      <3>2. CASE j > k
        <4>1. j - 1 \in DOMAIN t /\ t[j - 1] = s[j]
          BY <3>2, <2>1, <2>5, <2>7
        <4>2. QED
          BY <4>1
      <3>3. QED
        BY <2>1, <2>7, <3>1, <3>2
    <2>14. QED
      BY <2>5, <2>6, <2>11, <2>12, <2>13
  <1>3. QED
    BY <1>1, <1>2

LEMMA WithIsMap ==
  ASSUME NEW s \in Seq(FileChange), IsMap(s), NEW c \in FileChange
  PROVE  /\ With(s, c) \in Seq(FileChange)
         /\ IsMap(With(s, c))
         /\ \A i \in DOMAIN With(s, c) :
              \/ With(s, c)[i] = c
              \/ \E j \in DOMAIN s : With(s, c)[i] = s[j] /\ s[j].to # c.to
         /\ \A j \in DOMAIN s :
              s[j].to # c.to => \E i \in DOMAIN With(s, c) : With(s, c)[i] = s[j]
         /\ \E i \in DOMAIN With(s, c) : With(s, c)[i] = c
  <1> DEFINE t == Without(s, c.to)
             u == Append(t, c)
  <1>1. /\ t \in Seq(FileChange)
        /\ IsMap(t)
        /\ \A i \in DOMAIN t : \E j \in DOMAIN s : t[i] = s[j] /\ s[j].to # c.to
        /\ \A j \in DOMAIN s : s[j].to # c.to => \E i \in DOMAIN t : t[i] = s[j]
    <2> DEFINE n == c.to
    <2> HIDE DEF n
    <2>1. /\ Without(s, n) \in Seq(FileChange)
          /\ IsMap(Without(s, n))
          /\ \A i \in DOMAIN Without(s, n) :
               \E j \in DOMAIN s : Without(s, n)[i] = s[j] /\ s[j].to # n
          /\ \A j \in DOMAIN s :
               s[j].to # n => \E i \in DOMAIN Without(s, n) : Without(s, n)[i] = s[j]
      BY WithoutIsMap
    <2>2. QED
      BY <2>1 DEF n
  <1> HIDE DEF t
  <1>2. /\ u \in Seq(FileChange)
        /\ Len(u) = Len(t) + 1
        /\ \A i \in 1 .. Len(t) : u[i] = t[i]
        /\ u[Len(t) + 1] = c
    BY <1>1, AppendProperties
  <1>3. With(s, c) = u
    BY DEF With, t
  <1> HIDE DEF u
  <1>4. DOMAIN u = 1 .. Len(t) + 1 /\ DOMAIN t = 1 .. Len(t) /\ Len(t) \in Nat
    BY <1>1, <1>2
  <1>5. IsMap(u)
    <2> SUFFICES ASSUME NEW i \in DOMAIN u, NEW j \in DOMAIN u, u[i].to = u[j].to
                 PROVE  i = j
      BY DEF IsMap
    <2>1. \A l \in DOMAIN t : u[l] = t[l] /\ t[l].to # c.to
      BY <1>1, <1>2, <1>4
    <2>2. CASE i = Len(t) + 1
      BY <2>1, <2>2, <1>2, <1>4
    <2>3. CASE j = Len(t) + 1
      BY <2>1, <2>3, <1>2, <1>4
    <2>4. CASE i \in DOMAIN t /\ j \in DOMAIN t
      BY <2>1, <2>4, <1>1 DEF IsMap
    <2>5. QED
      BY <2>2, <2>3, <2>4, <1>4
  <1>6. \A i \in DOMAIN u : u[i] = c \/ \E j \in DOMAIN s : u[i] = s[j] /\ s[j].to # c.to
    BY <1>1, <1>2, <1>4
  <1>7. \A j \in DOMAIN s : s[j].to # c.to => \E i \in DOMAIN u : u[i] = s[j]
    BY <1>1, <1>2, <1>4
  <1>8. \E i \in DOMAIN u : u[i] = c
    BY <1>2, <1>4
  <1>9. QED
    BY <1>2, <1>3, <1>5, <1>6, <1>7, <1>8

-----------------------------------------------------------------------------
(* The inductive invariant. The kernel takes a cookie once: two halves that  *)
(* carry the same one are of one move, wherever they are. Only this makes a  *)
(* pair put together from the events, whatever is missing between them, a    *)
(* move somebody made, and its two ends different names.                     *)

(* What is known of the changes and not yet in `pending`.                   *)
Reported == halves \cup Range(raw)

CookiesAreMoves ==
  /\ \A m \in moves : m[1] # m[2]
  /\ \A g \in Reported : g.cookie <= edits
  /\ \A g, h \in Reported :
       g.kind = "from" /\ h.kind = "to" /\ g.cookie = h.cookie
         => <<g.change.to, h.change.to>> \in moves
  /\ \A g, h \in Reported :
       g.kind = h.kind /\ g.kind \in {"from", "to"} /\ g.cookie = h.cookie
         => g.change.to = h.change.to
  /\ \A g \in Reported :
       /\ g.kind = "plain" => g.change.kind # "renamed"
       /\ g.kind = "both" =>
            g.change.kind = "renamed" /\ <<g.change.from, g.change.to>> \in moves

WatchInv == TypeOK /\ CookiesAreMoves

-----------------------------------------------------------------------------
(* What the kernel reports of a change with a new cookie.                   *)
LEMMA ReportsFields ==
  ASSUME NEW c \in FileChange, NEW k \in 1 .. MaxEdits, NEW es \in Reports(c, k)
  PROVE  /\ es \in Seq(RawEvent)
         /\ Len(es) \in {1, 2}
         /\ \A e \in Range(es) :
              /\ e.cookie <= k
              /\ e.kind = "from" =>
                   e.cookie = k /\ e.change.to = c.from /\ c.kind # "touched"
              /\ e.kind = "to" =>
                   e.cookie = k /\ e.change.to = c.to /\ c.kind # "removed"
              /\ e.kind = "plain" => e.change.kind # "renamed"
              /\ e.kind = "both" => e.change = c /\ c.kind = "renamed"
  <1> DEFINE Fit(e) ==
        /\ e \in RawEvent
        /\ e.cookie <= k
        /\ e.kind = "from" => e.cookie = k /\ e.change.to = c.from /\ c.kind # "touched"
        /\ e.kind = "to" => e.cookie = k /\ e.change.to = c.to /\ c.kind # "removed"
        /\ e.kind = "plain" => e.change.kind # "renamed"
        /\ e.kind = "both" => e.change = c /\ c.kind = "renamed"
  <1> USE WatchAssumption
  <1>1. /\ c.kind \in {"touched", "removed", "renamed"}
        /\ c.from \in Names /\ c.to \in Names
        /\ c.kind # "renamed" => c.from = c.to
    BY FileChangeFields
  <1>2. c.kind # "renamed" => Fit(Plain(c))
    BY DEF Plain, RawEvent
  <1>3. c.kind = "renamed" => Fit(Both(c))
    BY DEF Both, RawEvent
  <1>4. c.kind # "touched" => Fit(From(c.from, k))
    BY <1>1 DEF From, Half, Removed, RawEvent, HalfEvent
  <1>5. c.kind # "removed" => Fit(To(c.to, k))
    BY <1>1 DEF To, Half, Touched, RawEvent, HalfEvent
  <1>6. \/ c.kind # "renamed" /\ es = <<Plain(c)>>
        \/ c.kind = "removed" /\ es = <<From(c.from, k)>>
        \/ c.kind = "touched" /\ es = <<To(c.to, k)>>
        \/ c.kind = "renamed" /\ es = <<From(c.from, k), To(c.to, k)>>
        \/ c.kind = "renamed" /\ es = <<Both(c)>>
    <2>1. CASE c.kind = "touched"
      BY <2>1 DEF Reports
    <2>2. CASE c.kind = "removed"
      <3>1. Reports(c, k) = {<<Plain(c)>>, <<From(c.to, k)>>}
        BY <2>2 DEF Reports
      <3>2. QED
        BY <3>1, <2>2, <1>1
    <2>3. CASE c.kind = "renamed"
      <3>1. Reports(c, k) = {<<From(c.from, k), To(c.to, k)>>, <<Both(c)>>}
        BY <2>3 DEF Reports
      <3>2. QED
        BY <3>1, <2>3
    <2>4. QED
      BY <2>1, <2>2, <2>3, <1>1
  <1> HIDE DEF Fit
  <1>7. \/ \E e : Fit(e) /\ es = <<e>>
        \/ \E e, f : Fit(e) /\ Fit(f) /\ es = <<e, f>>
    BY <1>2, <1>3, <1>4, <1>5, <1>6
  <1>8. es \in Seq(RawEvent) /\ Len(es) \in {1, 2} /\ \A i \in 1 .. Len(es) : Fit(es[i])
    <2>1. CASE \E e : Fit(e) /\ es = <<e>>
      BY <2>1 DEF Fit
    <2>2. CASE \E e, f : Fit(e) /\ Fit(f) /\ es = <<e, f>>
      BY <2>2 DEF Fit
    <2>3. QED
      BY <1>7, <2>1, <2>2
  <1>9. \A e \in Range(es) : Fit(e)
    BY <1>8 DEF Range
  <1>10. QED
    BY <1>8, <1>9 DEF Fit

(* What the caller sees next, and what is left of the queue.                *)
LEMMA AbsorbTakesHead ==
  ASSUME WatchInv, NEW kind, Absorb(kind)
  PROVE  /\ Head(raw) \in RawEvent
         /\ Head(raw) \in Reported
         /\ Head(raw).kind = kind
         /\ raw' \in Seq(RawEvent)
         /\ Range(raw') \subseteq Range(raw)
         /\ reused' \subseteq Names
         /\ inbox' = inbox /\ edits' = edits /\ overflows' = overflows /\ moves' = moves
  <1>1. raw \in Seq(RawEvent) /\ raw # <<>> /\ raw' = Tail(raw) /\ reused \subseteq Names
    BY DEF Absorb, WatchInv, TypeOK
  <1>2. /\ Head(raw) \in RawEvent
        /\ Tail(raw) \in Seq(RawEvent)
        /\ Len(Tail(raw)) = Len(raw) - 1
        /\ \A i \in 1 .. Len(Tail(raw)) : Tail(raw)[i] = raw[i + 1]
    BY <1>1, HeadTailProperties
  <1>3. Head(raw) = raw[1] /\ 1 \in DOMAIN raw
    BY <1>1
  <1>4. Range(Tail(raw)) \subseteq Range(raw)
    BY <1>1, <1>2 DEF Range
  <1>5. reused' \subseteq Names
    BY <1>1 DEF Absorb, NamesOf
  <1>6. QED
    BY <1>1, <1>2, <1>3, <1>4, <1>5 DEF Absorb, Reported, Range

(* A change noticed keeps the invariant: its cookie is new.                 *)
LEMMA NotifyStep ==
  ASSUME WatchInv, NEW c \in FileChange, edits < MaxEdits, edits' = edits + 1,
         Notify(c) \/ NotifyOverflows(c)
  PROVE  WatchInv'
  <1> USE WatchAssumption
  <1>1. edits \in Nat /\ edits + 1 \in 1 .. MaxEdits
    BY DEF WatchInv, TypeOK
  <1>2. /\ c.kind \in {"touched", "removed", "renamed"}
        /\ c.from \in Names /\ c.to \in Names
        /\ c.kind = "renamed" => c.from # c.to
    BY FileChangeFields
  <1>3. PICK es \in Reports(c, edits + 1) :
          \/ raw' = raw \o es
          \/ \E k \in 0 .. Len(es) - 1 : raw' = raw \o SubSeq(es, 1, k) \o <<Rescan>>
    BY DEF Notify, NotifyOverflows
  <1>4. /\ es \in Seq(RawEvent)
        /\ Len(es) \in {1, 2}
        /\ \A e \in Range(es) :
             /\ e.cookie <= edits + 1
             /\ e.kind = "from" =>
                  e.cookie = edits + 1 /\ e.change.to = c.from /\ c.kind # "touched"
             /\ e.kind = "to" =>
                  e.cookie = edits + 1 /\ e.change.to = c.to /\ c.kind # "removed"
             /\ e.kind = "plain" => e.change.kind # "renamed"
             /\ e.kind = "both" => e.change = c /\ c.kind = "renamed"
    BY <1>1, ReportsFields
  <1>5. raw \in Seq(RawEvent)
    BY DEF WatchInv, TypeOK
  <1>6. /\ raw' \in Seq(RawEvent)
        /\ Range(raw') \subseteq Range(raw) \cup Range(es) \cup {Rescan}
    <2>1. CASE raw' = raw \o es
      BY <2>1, <1>4, <1>5, ConcatProperties, RangeConcatenation
    <2>2. ASSUME NEW k \in 0 .. Len(es) - 1, raw' = raw \o SubSeq(es, 1, k) \o <<Rescan>>
          PROVE  /\ raw' \in Seq(RawEvent)
                 /\ Range(raw') \subseteq Range(raw) \cup Range(es) \cup {Rescan}
      <3> DEFINE cut == SubSeq(es, 1, k)
                 last == <<Rescan>>
      <3>1. \A i \in 1 .. k : es[i] \in RawEvent
        BY <1>4
      <3>2. /\ cut \in Seq(RawEvent)
            /\ Len(cut) = k
            /\ \A i \in 1 .. k : cut[i] = es[i]
        BY <3>1, SubSeqProperties
      <3>3. Range(cut) \subseteq Range(es)
        BY <3>2, <1>4 DEF Range
      <3>4. last \in Seq(RawEvent) /\ Range(last) = {Rescan}
        BY DEF Range, RawEvent
      <3> HIDE DEF cut, last
      <3>5. /\ raw \o cut \in Seq(RawEvent)
            /\ Range(raw \o cut) = Range(raw) \cup Range(cut)
        BY <3>2, <1>5, ConcatProperties, RangeConcatenation
      <3> DEFINE most == raw \o cut
      <3>6. raw' = most \o last
        BY <2>2 DEF cut, last
      <3> HIDE DEF most
      <3>7. /\ most \o last \in Seq(RawEvent)
            /\ Range(most \o last) = Range(most) \cup Range(last)
        <4>1. most \in Seq(RawEvent)
          BY <3>5 DEF most
        <4>2. QED
          BY <4>1, <3>4, ConcatProperties, RangeConcatenation
      <3>8. QED
        BY <3>3, <3>4, <3>5, <3>6, <3>7 DEF most
    <2>3. QED
      BY <1>3, <2>1, <2>2
  <1>7. /\ moves \subseteq moves' /\ moves' \subseteq moves \cup {<<c.from, c.to>>}
        /\ c.kind = "renamed" => <<c.from, c.to>> \in moves'
        /\ c.kind # "renamed" => moves' = moves
    BY DEF Notify, NotifyOverflows
  <1>8. pending' = pending /\ halves' = halves /\ overflowed' = overflowed
        /\ inbox' = inbox /\ unsaid' = unsaid /\ reused' = reused
    BY DEF Notify, NotifyOverflows, watch
  <1>9. overflows' \in 0 .. MaxOverflows
    BY DEF Notify, NotifyOverflows, WatchInv, TypeOK
  <1>10. TypeOK'
    <2>1. moves' \subseteq Names \X Names
      BY <1>2, <1>7 DEF WatchInv, TypeOK
    <2>2. QED
      BY <2>1, <1>1, <1>6, <1>8, <1>9 DEF WatchInv, TypeOK, OneEntryPerPath
  <1>11. CookiesAreMoves'
    <2>1. Reported' \subseteq Reported \cup Range(es) \cup {Rescan}
      BY <1>6, <1>8 DEF Reported
    <2>2. Rescan.kind = "rescan" /\ Rescan.cookie = 0
      BY DEF Rescan
    <2>3. \A g \in Reported : g.cookie <= edits /\ g.cookie \in Int
      <3>1. \A g \in Reported : g \in RawEvent
        BY <1>5, HalfEventFields DEF Reported, Range, WatchInv, TypeOK
      <3>2. QED
        BY <3>1, RawEventFields DEF WatchInv, CookiesAreMoves
    <2>4. \A m \in moves' : m[1] # m[2]
      BY <1>2, <1>7 DEF WatchInv, CookiesAreMoves
    <2>5. \A g \in Reported' : g.cookie <= edits'
      BY <1>1, <1>4, <2>1, <2>2, <2>3
    <2>6. ASSUME NEW g \in Reported', NEW h \in Reported',
                 g.kind = "from", h.kind = "to", g.cookie = h.cookie
          PROVE  <<g.change.to, h.change.to>> \in moves'
      <3>1. CASE g \in Reported /\ h \in Reported
        BY <2>6, <3>1, <1>7 DEF WatchInv, CookiesAreMoves
      <3>2. CASE g \in Range(es) /\ h \in Range(es)
        BY <2>6, <3>2, <1>2, <1>4, <1>7
      <3>3. CASE g \in Reported /\ h \in Range(es)
        BY <2>6, <3>3, <1>1, <1>4, <2>3
      <3>4. CASE g \in Range(es) /\ h \in Reported
        BY <2>6, <3>4, <1>1, <1>4, <2>3
      <3>5. QED
        BY <2>1, <2>2, <2>6, <3>1, <3>2, <3>3, <3>4
    <2>7. ASSUME NEW g \in Reported', NEW h \in Reported',
                 g.kind = h.kind, g.kind \in {"from", "to"}, g.cookie = h.cookie
          PROVE  g.change.to = h.change.to
      <3>1. CASE g \in Reported /\ h \in Reported
        BY <2>7, <3>1 DEF WatchInv, CookiesAreMoves
      <3>2. CASE g \in Range(es) /\ h \in Range(es)
        BY <2>7, <3>2, <1>4
      <3>3. CASE g \in Reported /\ h \in Range(es)
        BY <2>7, <3>3, <1>1, <1>4, <2>3
      <3>4. CASE g \in Range(es) /\ h \in Reported
        BY <2>7, <3>4, <1>1, <1>4, <2>3
      <3>5. QED
        BY <2>1, <2>2, <2>7, <3>1, <3>2, <3>3, <3>4
    <2>8. ASSUME NEW g \in Reported'
          PROVE  /\ g.kind = "plain" => g.change.kind # "renamed"
                 /\ g.kind = "both" =>
                      g.change.kind = "renamed" /\ <<g.change.from, g.change.to>> \in moves'
      <3>1. CASE g \in Reported
        BY <3>1, <1>7 DEF WatchInv, CookiesAreMoves
      <3>2. CASE g \in Range(es)
        BY <3>2, <1>4, <1>7
      <3>3. QED
        BY <2>1, <2>2, <3>1, <3>2
    <2>9. QED
      BY <2>4, <2>5, <2>6, <2>8, <2>7 DEF CookiesAreMoves
  <1>12. QED
    BY <1>10, <1>11 DEF WatchInv

-----------------------------------------------------------------------------
(* The polling thread reports nothing new: of a step that only takes away    *)
(* what is reported, there is no more to show than what `pending` becomes.  *)
LEMMA PollKeeps ==
  ASSUME WatchInv,
         raw' \in Seq(RawEvent), Range(raw') \subseteq Range(raw),
         halves' \subseteq Reported, halves' \subseteq HalfEvent,
         \A g, h \in halves' : g.cookie = h.cookie => g = h,
         pending' \in Seq(FileChange), IsMap(pending'),
         overflowed' \in BOOLEAN, inbox' \in Seq(Change),
         edits' = edits, overflows' = overflows, moves' = moves,
         unsaid' \subseteq Names, reused' \subseteq Names
  PROVE  WatchInv'
  <1>1. TypeOK'
    BY DEF WatchInv, TypeOK, OneEntryPerPath, IsMap
  <1>2. Reported' \subseteq Reported
    BY DEF Reported
  <1>3. CookiesAreMoves'
    BY <1>2 DEF WatchInv, CookiesAreMoves
  <1>4. QED
    BY <1>1, <1>3 DEF WatchInv

LEMMA InsertKeepsMap ==
  ASSUME WatchInv, NEW c \in FileChange, Insert(c)
  PROVE  pending' \in Seq(FileChange) /\ IsMap(pending')
  <1>1. pending \in Seq(FileChange) /\ IsMap(pending) /\ pending' = With(pending, c)
    BY DEF WatchInv, TypeOK, OneEntryPerPath, IsMap, Insert
  <1>2. QED
    BY <1>1, WithIsMap

LEMMA EmitRenameKeepsMap ==
  ASSUME WatchInv, NEW n \in Names, NEW m \in Names, n # m, EmitRename(n, m)
  PROVE  pending' \in Seq(FileChange) /\ IsMap(pending')
  <1>1. /\ pending \in Seq(FileChange) /\ IsMap(pending)
        /\ pending' = With(Without(pending, n), Renamed(n, m))
    BY DEF WatchInv, TypeOK, OneEntryPerPath, IsMap, EmitRename
  <1>2. Without(pending, n) \in Seq(FileChange) /\ IsMap(Without(pending, n))
    BY <1>1, WithoutIsMap
  <1>3. Renamed(n, m) \in FileChange
    BY RenamedIsChange
  <1>4. QED
    BY <1>1, <1>2, <1>3, WithIsMap

-----------------------------------------------------------------------------
(* Each step of a poll keeps the invariant.                                 *)
LEMMA AbsorbOverflowStep ==
  ASSUME WatchInv, AbsorbOverflow
  PROVE  WatchInv'
  <1>1. Absorb("rescan")
    BY DEF AbsorbOverflow
  <1>2. /\ raw' \in Seq(RawEvent) /\ Range(raw') \subseteq Range(raw)
        /\ reused' \subseteq Names
        /\ inbox' = inbox /\ edits' = edits /\ overflows' = overflows /\ moves' = moves
    BY <1>1, AbsorbTakesHead
  <1>3. /\ halves' = halves /\ pending' = pending /\ unsaid' = unsaid
        /\ overflowed' \in BOOLEAN
    BY DEF AbsorbOverflow
  <1>4. QED
    BY <1>2, <1>3, PollKeeps DEF WatchInv, TypeOK, OneEntryPerPath, IsMap, Reported

LEMMA AbsorbPlainStep ==
  ASSUME WatchInv, AbsorbPlain
  PROVE  WatchInv'
  <1>1. Absorb("plain")
    BY DEF AbsorbPlain
  <1>2. /\ Head(raw) \in RawEvent /\ Head(raw).kind = "plain"
        /\ raw' \in Seq(RawEvent) /\ Range(raw') \subseteq Range(raw)
        /\ reused' \subseteq Names
        /\ inbox' = inbox /\ edits' = edits /\ overflows' = overflows /\ moves' = moves
    BY <1>1, AbsorbTakesHead
  <1>3. Head(raw).change \in FileChange
    BY <1>2, RawEventFields
  <1>4. pending' \in Seq(FileChange) /\ IsMap(pending')
    BY <1>3, InsertKeepsMap DEF AbsorbPlain
  <1>5. halves' = halves /\ overflowed' = overflowed /\ unsaid' \subseteq Names
    BY DEF AbsorbPlain, NamesOf, WatchInv, TypeOK
  <1>6. QED
    BY <1>2, <1>4, <1>5, PollKeeps DEF WatchInv, TypeOK, Reported

LEMMA AbsorbBothStep ==
  ASSUME WatchInv, AbsorbBoth
  PROVE  WatchInv'
  <1>1. Absorb("both")
    BY DEF AbsorbBoth
  <1>2. /\ Head(raw) \in RawEvent /\ Head(raw) \in Reported /\ Head(raw).kind = "both"
        /\ raw' \in Seq(RawEvent) /\ Range(raw') \subseteq Range(raw)
        /\ reused' \subseteq Names
        /\ inbox' = inbox /\ edits' = edits /\ overflows' = overflows /\ moves' = moves
    BY <1>1, AbsorbTakesHead
  <1>3. PICK c \in FileChange : c = Head(raw).change
    BY <1>2, RawEventFields
  <1>4. c.kind = "renamed"
    BY <1>2, <1>3 DEF WatchInv, CookiesAreMoves
  <1>5. c.from \in Names /\ c.to \in Names /\ c.from # c.to
    BY <1>4, FileChangeFields
  <1>6. EmitRename(c.from, c.to)
    BY <1>3 DEF AbsorbBoth
  <1>7. pending' \in Seq(FileChange) /\ IsMap(pending')
    BY <1>5, <1>6, EmitRenameKeepsMap
  <1>8. halves' = halves /\ overflowed' = overflowed /\ unsaid' \subseteq Names
    BY DEF AbsorbBoth, NamesOf, WatchInv, TypeOK
  <1>9. QED
    BY <1>2, <1>7, <1>8, PollKeeps DEF WatchInv, TypeOK, Reported

(* Of a pair of halves the two ends are those of a move.                    *)
LEMMA PairIsMove ==
  ASSUME WatchInv, NEW g \in Reported, NEW h \in Reported,
         g.kind = "from", h.kind = "to", g.cookie = h.cookie
  PROVE  /\ <<g.change.to, h.change.to>> \in moves
         /\ g.change.to \in Names /\ h.change.to \in Names
         /\ g.change.to # h.change.to
  <1> DEFINE m == <<g.change.to, h.change.to>>
  <1>1. m \in moves
    BY DEF WatchInv, CookiesAreMoves
  <1>2. m \in Names \X Names /\ m[1] # m[2]
    BY <1>1 DEF WatchInv, TypeOK, CookiesAreMoves
  <1>3. QED
    BY <1>1, <1>2

(* A half taken up is paired, as the move it is of, or it waits.            *)
LEMMA AbsorbHalfWrites ==
  ASSUME WatchInv, NEW kind \in {"from", "to"}, AbsorbHalf(kind)
  PROVE  /\ halves' \subseteq Reported /\ halves' \subseteq HalfEvent
         /\ \A f, g \in halves' : f.cookie = g.cookie => f = g
         /\ \/ \E n, m \in Names :
                 /\ n # m /\ <<n, m>> \in moves
                 /\ EmitRename(n, m) /\ unsaid' = unsaid \cup {n, m}
                 /\ Head(raw).change.to \in {n, m}
                 /\ halves' \subseteq halves
                 /\ \A f \in halves \ halves' : f.change.to \in {n, m}
            \/ /\ pending' = pending /\ unsaid' = unsaid
               /\ Head(raw) \in halves' /\ halves' \subseteq halves \cup {Head(raw)}
               /\ \A f \in halves \ halves' : f.change.to = Head(raw).change.to
  <1>1. Absorb(kind)
    BY DEF AbsorbHalf
  <1>2. Head(raw) \in RawEvent /\ Head(raw) \in Reported /\ Head(raw).kind = kind
    BY <1>1, AbsorbTakesHead
  <1>3. PICK h \in HalfEvent : h = Head(raw)
    BY <1>2, RawEventFields
  <1>4. h \in Reported /\ h.kind = kind
    BY <1>2, <1>3
  <1>5. /\ halves \subseteq HalfEvent /\ halves \subseteq Reported
        /\ \A f, g \in halves : f.cookie = g.cookie => f = g
    BY DEF WatchInv, TypeOK, Reported
  <1>6. ASSUME NEW g \in Partners(h), g.kind # h.kind,
               halves' = halves \ {g},
               LET from == IF h.kind = "from" THEN h.change.to ELSE g.change.to
                   to == IF h.kind = "from" THEN g.change.to ELSE h.change.to
               IN EmitRename(from, to) /\ unsaid' = unsaid \cup {from, to}
        PROVE  \E n, m \in Names :
                 /\ n # m /\ <<n, m>> \in moves
                 /\ EmitRename(n, m) /\ unsaid' = unsaid \cup {n, m}
                 /\ h.change.to \in {n, m} /\ g.change.to \in {n, m}
    <2>1. g \in halves /\ g.cookie = h.cookie
      BY <1>6 DEF Partners
    <2>2. g.kind \in {"from", "to"} /\ g \in Reported
      BY <2>1, <1>5, HalfEventFields
    <2>3. CASE h.kind = "from"
      <3>1. /\ h.change.to \in Names /\ g.change.to \in Names
            /\ h.change.to # g.change.to /\ <<h.change.to, g.change.to>> \in moves
        BY <2>3, <1>4, <1>6, <2>1, <2>2, PairIsMove
      <3>2. QED
        BY <2>3, <3>1, <1>6
    <2>4. CASE h.kind = "to"
      <3>1. /\ h.change.to \in Names /\ g.change.to \in Names
            /\ h.change.to # g.change.to /\ <<g.change.to, h.change.to>> \in moves
        BY <2>4, <1>4, <1>6, <2>1, <2>2, PairIsMove
      <3>2. QED
        BY <2>4, <3>1, <1>6
    <2>5. QED
      BY <2>3, <2>4, <1>4
  <1>7. ASSUME halves' = (halves \ Partners(h)) \cup {h}, \A g \in Partners(h) : g.kind = h.kind
        PROVE  /\ halves' \subseteq Reported /\ halves' \subseteq HalfEvent
               /\ \A f, g \in halves' : f.cookie = g.cookie => f = g
               /\ h \in halves' /\ halves' \subseteq halves \cup {h}
               /\ \A f \in halves \ halves' : f.change.to = h.change.to
    <2>1. \A f \in Partners(h) : f \in Reported /\ f.cookie = h.cookie /\ f.kind = h.kind
      BY <1>5, <1>7 DEF Partners
    <2>2. \A f \in Partners(h) : f.change.to = h.change.to
      BY <2>1, <1>4 DEF WatchInv, CookiesAreMoves
    <2>3. QED
      BY <2>2, <1>4, <1>5, <1>7 DEF Partners
  <1>8. CASE \E g \in Partners(h) :
               /\ g.kind # h.kind
               /\ halves' = halves \ {g}
               /\ LET from == IF h.kind = "from" THEN h.change.to ELSE g.change.to
                      to == IF h.kind = "from" THEN g.change.to ELSE h.change.to
                  IN EmitRename(from, to) /\ unsaid' = unsaid \cup {from, to}
    <2>1. PICK g \in Partners(h) :
               /\ g.kind # h.kind
               /\ halves' = halves \ {g}
               /\ LET from == IF h.kind = "from" THEN h.change.to ELSE g.change.to
                      to == IF h.kind = "from" THEN g.change.to ELSE h.change.to
                  IN EmitRename(from, to) /\ unsaid' = unsaid \cup {from, to}
      BY <1>8
    <2>2. PICK n \in Names, m \in Names :
                 /\ n # m /\ <<n, m>> \in moves
                 /\ EmitRename(n, m) /\ unsaid' = unsaid \cup {n, m}
                 /\ h.change.to \in {n, m} /\ g.change.to \in {n, m}
      BY <2>1, <1>6
    <2>3. /\ halves' \subseteq halves
          /\ \A f \in halves \ halves' : f.change.to \in {n, m}
      BY <2>1, <2>2
    <2>4. QED
      BY <2>2, <2>3, <1>3, <1>5
  <1>9. CASE halves' = (halves \ Partners(h)) \cup {h} /\ (\A g \in Partners(h) : g.kind = h.kind)
             /\ pending' = pending /\ unsaid' = unsaid
    BY <1>3, <1>7, <1>9
  <1>10. QED
    BY <1>3, <1>8, <1>9 DEF AbsorbHalf

LEMMA AbsorbHalfStep ==
  ASSUME WatchInv, NEW kind \in {"from", "to"}, AbsorbHalf(kind)
  PROVE  WatchInv'
  <1>1. Absorb(kind)
    BY DEF AbsorbHalf
  <1>2. /\ raw' \in Seq(RawEvent) /\ Range(raw') \subseteq Range(raw)
        /\ reused' \subseteq Names
        /\ inbox' = inbox /\ edits' = edits /\ overflows' = overflows /\ moves' = moves
    BY <1>1, AbsorbTakesHead
  <1>3. /\ overflowed' \in BOOLEAN /\ inbox' \in Seq(Change) /\ unsaid \subseteq Names
        /\ pending \in Seq(FileChange) /\ IsMap(pending)
    BY <1>2 DEF AbsorbHalf, WatchInv, TypeOK, OneEntryPerPath, IsMap
  <1>4. /\ pending' \in Seq(FileChange) /\ IsMap(pending')
        /\ unsaid' \subseteq Names
    <2>1. CASE \E n, m \in Names :
                 n # m /\ EmitRename(n, m) /\ unsaid' = unsaid \cup {n, m}
      BY <2>1, <1>3, EmitRenameKeepsMap
    <2>2. CASE pending' = pending /\ unsaid' = unsaid
      BY <2>2, <1>3
    <2>3. QED
      BY <2>1, <2>2, AbsorbHalfWrites
  <1>5. QED
    BY <1>2, <1>3, <1>4, AbsorbHalfWrites, PollKeeps

LEMMA ExpireHalfStep ==
  ASSUME WatchInv, NEW h \in halves, ExpireHalf(h)
  PROVE  WatchInv'
  <1>1. h \in HalfEvent /\ h.change \in FileChange
    BY HalfEventFields DEF WatchInv, TypeOK
  <1>2. pending' \in Seq(FileChange) /\ IsMap(pending')
    BY <1>1, InsertKeepsMap DEF ExpireHalf
  <1>3. /\ halves' \subseteq halves /\ unsaid' \subseteq Names /\ raw' = raw
        /\ overflowed' = overflowed /\ inbox' = inbox /\ edits' = edits
        /\ overflows' = overflows /\ moves' = moves /\ reused' = reused
    BY DEF ExpireHalf, NamesOf, WatchInv, TypeOK
  <1>4. QED
    BY <1>2, <1>3, PollKeeps DEF WatchInv, TypeOK, Reported

(* The oldest k elements of a sequence taken off it.                        *)
LEMMA TakingOff ==
  ASSUME NEW S, NEW s \in Seq(S), NEW k \in 0 .. Len(s)
  PROVE  LET rest == SubSeq(s, k + 1, Len(s))
         IN /\ rest \in Seq(S)
            /\ DOMAIN rest = 1 .. Len(s) - k
            /\ \A i \in 1 .. Len(s) - k : k + i \in DOMAIN s /\ rest[i] = s[k + i]
  <1> DEFINE rest == SubSeq(s, k + 1, Len(s))
  <1>1. PICK l \in Nat : l = Len(s)
    OBVIOUS
  <1>2. k \in Int /\ 0 <= k /\ k <= l /\ DOMAIN s = 1 .. l
    BY <1>1
  <1>3. \A i \in k + 1 .. l : s[i] \in S
    BY <1>1, <1>2
  <1>4. /\ rest \in Seq(S)
        /\ Len(rest) = IF k + 1 <= l THEN l - (k + 1) + 1 ELSE 0
        /\ \A i \in 1 .. l - (k + 1) + 1 : rest[i] = s[(k + 1) + i - 1]
    <2>1. k + 1 \in Int /\ l \in Int
      BY <1>1, <1>2
    <2>2. QED
      BY <2>1, <1>1, <1>3, SubSeqProperties
  <1> HIDE DEF rest
  <1>5. Len(rest) = l - k
    BY <1>2, <1>4
  <1>6. ASSUME NEW i \in 1 .. l - k
        PROVE  k + i \in DOMAIN s /\ rest[i] = s[k + i]
    <2>1. i \in 1 .. l - (k + 1) + 1 /\ (k + 1) + i - 1 = k + i /\ k + i \in 1 .. l
      BY <1>2
    <2>2. rest[i] = s[(k + 1) + i - 1]
      BY <2>1, <1>4
    <2>3. QED
      BY <2>1, <2>2, <1>2
  <1>7. DOMAIN rest = 1 .. l - k
    BY <1>4, <1>5
  <1>8. QED
    BY <1>1, <1>4, <1>6, <1>7 DEF rest

(* What is handed over is the quietest part of `pending`, each change once.  *)
LEMMA TakeExpiredFields ==
  ASSUME WatchInv, TakeExpired
  PROVE  /\ pending' \in Seq(FileChange) /\ IsMap(pending')
         /\ inbox' \in Seq(Change)
         /\ Range(pending') \subseteq Range(pending)
         /\ Range(inbox') \subseteq Range(pending) \cup {Overflowed}
         /\ Range(pending) \subseteq Range(pending') \cup Range(inbox')
  <1>1. pending \in Seq(FileChange) /\ IsMap(pending) /\ overflowed \in BOOLEAN
    BY DEF WatchInv, TypeOK, OneEntryPerPath, IsMap
  <1>2. PICK k \in 0 .. Len(pending) :
          /\ pending' = SubSeq(pending, k + 1, Len(pending))
          /\ \E order \in Bijection(1 .. k, 1 .. k) :
               inbox' = (IF overflowed THEN <<Overflowed>> ELSE <<>>)
                          \o [i \in 1 .. k |-> pending[order[i]]]
    BY DEF TakeExpired
  <1>3. PICK order \in Bijection(1 .. k, 1 .. k) :
          inbox' = (IF overflowed THEN <<Overflowed>> ELSE <<>>)
                     \o [i \in 1 .. k |-> pending[order[i]]]
    BY <1>2
  <1> DEFINE first == IF overflowed THEN <<Overflowed>> ELSE <<>>
             quiet == [i \in 1 .. k |-> pending[order[i]]]
  <1>4. PICK l \in Nat : l = Len(pending) /\ DOMAIN pending = 1 .. l /\ k \in 0 .. l
    BY <1>1
  <1>5. /\ pending' \in Seq(FileChange)
        /\ DOMAIN pending' = 1 .. l - k
        /\ \A i \in 1 .. l - k : k + i \in DOMAIN pending /\ pending'[i] = pending[k + i]
    BY <1>1, <1>2, <1>4, TakingOff
  <1>6. /\ order \in [1 .. k -> 1 .. k]
        /\ \A j \in 1 .. k : \E i \in 1 .. k : order[i] = j
    BY DEF Bijection, Injection, Surjection, IsInjective
  <1>7. quiet \in Seq(Change) /\ DOMAIN quiet = 1 .. k
    BY <1>1, <1>4, <1>6 DEF Change
  <1>8. Range(quiet) \subseteq Range(pending)
    BY <1>4, <1>6, <1>7 DEF Range
  <1>9. \A j \in 1 .. k : pending[j] \in Range(quiet)
    BY <1>6, <1>7 DEF Range
  <1>10. first \in Seq(Change) /\ Range(first) \subseteq {Overflowed}
    <2>1. CASE overflowed
      <3>1. first = <<Overflowed>>
        BY <2>1
      <3>2. Overflowed \in Change
        BY DEF Change
      <3>3. QED
        BY <3>1, <3>2 DEF Range
    <2>2. CASE ~overflowed
      <3>1. first = <<>>
        BY <2>2
      <3>2. QED
        BY <3>1 DEF Range
    <2>3. QED
      BY <2>1, <2>2
  <1>11. inbox' = first \o quiet
    BY <1>3
  <1> HIDE DEF first, quiet
  <1>12. /\ first \o quiet \in Seq(Change)
         /\ Range(first \o quiet) = Range(first) \cup Range(quiet)
    BY <1>7, <1>10, ConcatProperties, RangeConcatenation
  <1>13. Range(pending') \subseteq Range(pending)
    BY <1>5 DEF Range
  <1>14. IsMap(pending')
    <2> SUFFICES ASSUME NEW i \in 1 .. l - k, NEW j \in 1 .. l - k, pending'[i].to = pending'[j].to
                 PROVE  i = j
      BY <1>5 DEF IsMap
    <2>1. /\ k + i \in DOMAIN pending /\ pending'[i] = pending[k + i]
          /\ k + j \in DOMAIN pending /\ pending'[j] = pending[k + j]
      BY <1>5
    <2>2. pending[k + i].to = pending[k + j].to
      BY <2>1
    <2>3. k + i = k + j
      BY <2>1, <2>2, <1>1 DEF IsMap
    <2>4. QED
      BY <2>3, <1>4
  <1>15. Range(pending) \subseteq Range(pending') \cup Range(quiet)
    <2> SUFFICES ASSUME NEW j \in 1 .. l
                 PROVE  pending[j] \in Range(pending') \cup Range(quiet)
      BY <1>4 DEF Range
    <2>1. CASE j <= k
      BY <2>1, <1>9, <1>4
    <2>2. CASE j > k
      <3>1. j - k \in DOMAIN pending' /\ k + (j - k) = j
        BY <2>2, <1>4, <1>5
      <3>2. pending'[j - k] = pending[j]
        BY <3>1, <1>5
      <3>3. QED
        BY <3>1, <3>2 DEF Range
    <2>3. QED
      BY <2>1, <2>2, <1>4
  <1>16. QED
    BY <1>5, <1>8, <1>10, <1>11, <1>12, <1>13, <1>14, <1>15

LEMMA TakeExpiredStep ==
  ASSUME WatchInv, TakeExpired
  PROVE  WatchInv'
  <1>1. pending' \in Seq(FileChange) /\ IsMap(pending') /\ inbox' \in Seq(Change)
    BY TakeExpiredFields
  <1>2. /\ unsaid' \subseteq unsaid /\ raw' = raw /\ halves' = halves
        /\ overflowed' \in BOOLEAN /\ edits' = edits /\ overflows' = overflows
        /\ moves' = moves /\ reused' = reused
    BY DEF TakeExpired
  <1>3. QED
    BY <1>1, <1>2, PollKeeps DEF WatchInv, TypeOK, Reported

LEMMA PollStep ==
  ASSUME WatchInv, Poll
  PROVE  WatchInv' /\ edits' = edits /\ overflows' = overflows
  <1>1. WatchInv'
    BY AbsorbOverflowStep, AbsorbPlainStep, AbsorbBothStep, AbsorbHalfStep, ExpireHalfStep,
       TakeExpiredStep DEF Poll
  <1>2. edits' = edits /\ overflows' = overflows
    BY DEF Poll, Absorb, AbsorbOverflow, AbsorbPlain, AbsorbBoth, AbsorbHalf, ExpireHalf,
           TakeExpired
  <1>3. QED
    BY <1>1, <1>2

(* What the rest of the daemon does about the watch: it takes changes from   *)
(* the inbox, and when it ends, so does what was pending. What is edited     *)
(* unseen uses up no cookie that is reported.                               *)
LEMMA OutsideStep ==
  ASSUME WatchInv,
         edits' \in edits .. MaxEdits, overflows' \in 0 .. MaxOverflows,
         inbox' \in Seq(Change), moves' = moves, reused' = reused,
         \/ UNCHANGED <<raw, watch, unsaid>>
         \/ /\ raw' = <<>> /\ pending' = <<>> /\ halves' = {} /\ overflowed' = FALSE
            /\ unsaid' = {}
  PROVE  WatchInv'
  <1>1. edits \in 0 .. MaxEdits /\ MaxEdits \in Nat
    BY WatchAssumption DEF WatchInv, TypeOK
  <1>2. edits' \in 0 .. MaxEdits /\ edits <= edits'
    BY <1>1
  <1>3. CASE UNCHANGED <<raw, watch, unsaid>>
    <2>1. TypeOK'
      BY <1>2, <1>3 DEF WatchInv, TypeOK, OneEntryPerPath, watch
    <2>2. Reported' = Reported
      BY <1>3 DEF Reported, Range, watch
    <2>3. \A g \in Reported : g.cookie \in 0 .. MaxEdits
      <3>1. \A g \in Reported : g \in RawEvent
        BY HalfEventFields DEF Reported, Range, WatchInv, TypeOK
      <3>2. QED
        BY <3>1, RawEventFields
    <2>4. CookiesAreMoves'
      BY <1>1, <1>2, <2>2, <2>3 DEF WatchInv, CookiesAreMoves
    <2>5. QED
      BY <2>1, <2>4 DEF WatchInv
  <1>4. CASE /\ raw' = <<>> /\ pending' = <<>> /\ halves' = {} /\ overflowed' = FALSE
             /\ unsaid' = {}
    <2>1. TypeOK'
      <3>1. raw' \in Seq(RawEvent) /\ pending' \in Seq(FileChange) /\ OneEntryPerPath'
        BY <1>4 DEF OneEntryPerPath
      <3>2. halves' = {} /\ overflowed' = FALSE /\ unsaid' = {}
        BY <1>4
      <3>3. QED
        BY <1>2, <3>1, <3>2 DEF WatchInv, TypeOK
    <2>2. Reported' = {}
      BY <1>4 DEF Reported, Range
    <2>3. CookiesAreMoves'
      BY <2>2 DEF WatchInv, CookiesAreMoves
    <2>4. QED
      BY <2>1, <2>3 DEF WatchInv
  <1>5. QED
    BY <1>3, <1>4

LEMMA InitialInv == WatchInit /\ edits = 0 /\ overflows = 0 => WatchInv
  <1> SUFFICES ASSUME WatchInit, edits = 0, overflows = 0 PROVE WatchInv
    OBVIOUS
  <1>1. Reported = {}
    BY DEF WatchInit, Reported, Range
  <1>2. CookiesAreMoves
    BY <1>1 DEF WatchInit, CookiesAreMoves
  <1>3. OneEntryPerPath
    BY DEF WatchInit, OneEntryPerPath
  <1>4. TypeOK
    <2>1. raw \in Seq(RawEvent) /\ pending \in Seq(FileChange) /\ inbox \in Seq(Change)
      BY DEF WatchInit
    <2>2. edits \in 0 .. MaxEdits /\ overflows \in 0 .. MaxOverflows
      BY WatchAssumption
    <2>3. halves = {} /\ overflowed = FALSE /\ moves = {} /\ unsaid = {} /\ reused = {}
      BY DEF WatchInit
    <2>4. QED
      BY <2>1, <2>2, <2>3, <1>3 DEF TypeOK
  <1>5. QED
    BY <1>2, <1>4 DEF WatchInv

LEMMA InvariantHolds == Spec => []WatchInv
  <1>1. Init => WatchInv
    BY InitialInv DEF Init
  <1>2. WatchInv /\ [Next]_vars => WatchInv'
    <2> SUFFICES ASSUME WatchInv, [Next]_vars PROVE WatchInv'
      OBVIOUS
    <2>1. CASE Users
      <3>1. PICK c \in FileChange : Notify(c) \/ NotifyOverflows(c)
        BY <2>1 DEF Users
      <3>2. QED
        BY <2>1, <3>1, NotifyStep DEF Users
    <2>2. CASE Poll
      BY <2>2, PollStep
    <2>3. CASE Apply
      BY <2>3, PollKeeps
      DEF Apply, watch, history, WatchInv, TypeOK, OneEntryPerPath, IsMap, Reported
    <2>4. CASE UNCHANGED vars
      BY <2>4
      DEF vars, watch, history, WatchInv, TypeOK, OneEntryPerPath, CookiesAreMoves,
          Reported, Range
    <2>5. QED
      BY <2>1, <2>2, <2>3, <2>4 DEF Next
  <1>3. QED
    BY <1>1, <1>2, PTL DEF Spec

(* Every variable keeps its type: above all the hash map never has two       *)
(* entries for a path (absorb, emit_rename), and no two halves of one        *)
(* direction wait under a cookie (absorb_rename).                           *)
THEOREM WatchTypeCorrect == Spec => []TypeOK
  <1>1. WatchInv => TypeOK
    BY DEF WatchInv
  <1>2. QED
    BY <1>1, InvariantHolds, PTL

-----------------------------------------------------------------------------
(* All a poll does to `pending`, in four cases.                             *)
LEMMA PollWrites ==
  ASSUME WatchInv, Poll
  PROVE  /\ moves' = moves
         /\ \/ \E c \in FileChange :
                 /\ c.kind # "renamed" /\ Insert(c)
                 /\ unsaid' = unsaid \cup NamesOf(c) /\ inbox' = inbox
            \/ \E n, m \in Names :
                 /\ n # m /\ <<n, m>> \in moves /\ EmitRename(n, m)
                 /\ unsaid' = unsaid \cup {n, m} /\ inbox' = inbox
            \/ pending' = pending /\ unsaid' = unsaid /\ inbox' = inbox
            \/ TakeExpired
  <1>1. CASE AbsorbOverflow
    BY <1>1 DEF AbsorbOverflow, Absorb
  <1>2. CASE AbsorbPlain
    <2>1. Absorb("plain")
      BY <1>2 DEF AbsorbPlain
    <2>2. Head(raw) \in RawEvent /\ Head(raw) \in Reported /\ Head(raw).kind = "plain"
      BY <2>1, AbsorbTakesHead
    <2>3. Head(raw).change \in FileChange /\ Head(raw).change.kind # "renamed"
      BY <2>2, RawEventFields DEF WatchInv, CookiesAreMoves
    <2>4. QED
      BY <1>2, <2>3 DEF AbsorbPlain, Absorb
  <1>3. CASE AbsorbBoth
    <2>1. Absorb("both")
      BY <1>3 DEF AbsorbBoth
    <2>2. Head(raw) \in RawEvent /\ Head(raw) \in Reported /\ Head(raw).kind = "both"
      BY <2>1, AbsorbTakesHead
    <2>3. PICK c \in FileChange : c = Head(raw).change
      BY <2>2, RawEventFields
    <2>4. c.kind = "renamed" /\ <<c.from, c.to>> \in moves
      BY <2>2, <2>3 DEF WatchInv, CookiesAreMoves
    <2>5. c.from \in Names /\ c.to \in Names /\ c.from # c.to /\ NamesOf(c) = {c.from, c.to}
      BY <2>4, FileChangeFields
    <2>6. QED
      BY <1>3, <2>3, <2>4, <2>5 DEF AbsorbBoth, Absorb
  <1>4. ASSUME NEW kind \in {"from", "to"}, AbsorbHalf(kind)
        PROVE  /\ moves' = moves /\ inbox' = inbox
               /\ \/ \E n, m \in Names :
                       /\ n # m /\ <<n, m>> \in moves /\ EmitRename(n, m)
                       /\ unsaid' = unsaid \cup {n, m}
                  \/ pending' = pending /\ unsaid' = unsaid
    BY <1>4, AbsorbHalfWrites DEF AbsorbHalf, Absorb
  <1>5. ASSUME NEW h \in halves, ExpireHalf(h)
        PROVE  /\ moves' = moves /\ inbox' = inbox
               /\ \E c \in FileChange :
                    c.kind # "renamed" /\ Insert(c) /\ unsaid' = unsaid \cup NamesOf(c)
    <2>1. h.change \in FileChange /\ h.change.kind # "renamed"
      BY HalfEventFields DEF WatchInv, TypeOK
    <2>2. QED
      BY <1>5, <2>1 DEF ExpireHalf
  <1>6. CASE TakeExpired
    BY <1>6 DEF TakeExpired
  <1>7. QED
    BY <1>1, <1>2, <1>3, <1>4, <1>5, <1>6 DEF Poll

LEMMA TruePairsOfRange ==
  TruePairs <=> \A d \in Range(pending) \cup Range(inbox) :
                  d.kind = "renamed" => <<d.from, d.to>> \in moves
  BY DEF TruePairs, Range

(* What becomes of the entries of the map.                                  *)
LEMMA WithEntries ==
  ASSUME NEW s \in Seq(FileChange), IsMap(s), NEW c \in FileChange
  PROVE  /\ c \in Range(With(s, c))
         /\ Range(With(s, c)) \subseteq Range(s) \cup {c}
         /\ \A d \in Range(s) : d.to # c.to => d \in Range(With(s, c))
         /\ \A d \in Range(With(s, c)) : d = c \/ d.to # c.to
  <1> DEFINE t == With(s, c)
  <1>1. /\ \A i \in DOMAIN t : t[i] = c \/ \E j \in DOMAIN s : t[i] = s[j] /\ s[j].to # c.to
        /\ \A j \in DOMAIN s : s[j].to # c.to => \E i \in DOMAIN t : t[i] = s[j]
        /\ \E i \in DOMAIN t : t[i] = c
    BY WithIsMap
  <1> HIDE DEF t
  <1>2. c \in Range(t)
    BY <1>1 DEF Range
  <1>3. Range(t) \subseteq Range(s) \cup {c}
    BY <1>1 DEF Range
  <1>4. \A d \in Range(s) : d.to # c.to => d \in Range(t)
    BY <1>1 DEF Range
  <1>5. \A d \in Range(t) : d = c \/ d.to # c.to
    BY <1>1 DEF Range
  <1>6. QED
    BY <1>2, <1>3, <1>4, <1>5 DEF t

LEMMA InsertEntries ==
  ASSUME WatchInv, NEW c \in FileChange, Insert(c)
  PROVE  /\ c \in Range(pending')
         /\ Range(pending') \subseteq Range(pending) \cup {c}
         /\ \A d \in Range(pending) : d.to # c.to => d \in Range(pending')
         /\ \A d \in Range(pending') : d = c \/ d.to # c.to
  <1>1. pending \in Seq(FileChange) /\ IsMap(pending) /\ pending' = With(pending, c)
    BY DEF WatchInv, TypeOK, OneEntryPerPath, IsMap, Insert
  <1>2. QED
    BY <1>1, WithEntries

LEMMA EmitRenameEntries ==
  ASSUME WatchInv, NEW n \in Names, NEW m \in Names, n # m, EmitRename(n, m)
  PROVE  /\ Renamed(n, m) \in Range(pending')
         /\ Range(pending') \subseteq Range(pending) \cup {Renamed(n, m)}
         /\ \A d \in Range(pending) : d.to \notin {n, m} => d \in Range(pending')
  <1> DEFINE left == Without(pending, n)
  <1>1. pending \in Seq(FileChange) /\ IsMap(pending)
    BY DEF WatchInv, TypeOK, OneEntryPerPath, IsMap
  <1>2. /\ left \in Seq(FileChange) /\ IsMap(left)
        /\ Range(left) \subseteq Range(pending)
        /\ \A d \in Range(pending) : d.to # n => d \in Range(left)
    BY <1>1, WithoutIsMap DEF Range
  <1>3. pending' = With(left, Renamed(n, m))
    BY DEF EmitRename
  <1> HIDE DEF left
  <1>4. Renamed(n, m) \in FileChange /\ Renamed(n, m).to = m
    BY RenamedIsChange
  <1>5. /\ Renamed(n, m) \in Range(pending')
        /\ Range(pending') \subseteq Range(left) \cup {Renamed(n, m)}
        /\ \A d \in Range(left) : d.to # m => d \in Range(pending')
    <2> DEFINE c == Renamed(n, m)
    <2> HIDE DEF c
    <2>1. c \in FileChange /\ c.to = m /\ pending' = With(left, c)
      BY <1>3, <1>4 DEF c
    <2>2. /\ c \in Range(With(left, c))
          /\ Range(With(left, c)) \subseteq Range(left) \cup {c}
          /\ \A d \in Range(left) : d.to # c.to => d \in Range(With(left, c))
      BY <1>2, <2>1, WithEntries
    <2>3. QED
      BY <2>1, <2>2 DEF c
  <1>6. QED
    BY <1>2, <1>5

LEMMA PollKeepsPairs ==
  ASSUME WatchInv, TruePairs, Poll
  PROVE  TruePairs'
  <1> DEFINE Moved(d) == d.kind = "renamed" => <<d.from, d.to>> \in moves
  <1>1. \A d \in Range(pending) \cup Range(inbox) : Moved(d)
    BY TruePairsOfRange
  <1>2. moves' = moves
    BY PollWrites
  <1>3. ASSUME \A d \in Range(pending') \cup Range(inbox') : Moved(d)
        PROVE  TruePairs'
    BY <1>2, <1>3 DEF TruePairs, Range
  <1>4. ASSUME NEW c \in FileChange, c.kind # "renamed", Insert(c), inbox' = inbox
        PROVE  TruePairs'
    BY <1>1, <1>3, <1>4, InsertEntries
  <1>5. ASSUME NEW n \in Names, NEW m \in Names, n # m, <<n, m>> \in moves,
               EmitRename(n, m), inbox' = inbox
        PROVE  TruePairs'
    <2>1. Moved(Renamed(n, m))
      BY <1>5 DEF Renamed
    <2>2. QED
      BY <2>1, <1>1, <1>3, <1>5, EmitRenameEntries
  <1>6. CASE pending' = pending /\ inbox' = inbox
    BY <1>1, <1>3, <1>6
  <1>7. CASE TakeExpired
    <2>1. Moved(Overflowed)
      BY DEF Overflowed
    <2>2. QED
      BY <2>1, <1>1, <1>3, <1>7, TakeExpiredFields
  <1>8. QED
    BY <1>4, <1>5, <1>6, <1>7, PollWrites

(* A reported rename is a move somebody made (absorb_rename pairs by cookie *)
(* and nothing else): whatever is lost, late or overtaken in between.       *)
THEOREM WatchTruePairs == Spec => []TruePairs
  <1>1. Init => TruePairs
    BY DEF Init, WatchInit, TruePairs
  <1>2. WatchInv /\ TruePairs /\ [Next]_vars => TruePairs'
    <2> SUFFICES ASSUME WatchInv, TruePairs, [Next]_vars PROVE TruePairs'
      OBVIOUS
    <2>1. ASSUME moves \subseteq moves', pending' = pending,
                 inbox' = inbox \/ inbox' = <<>>
          PROVE  TruePairs'
      BY <2>1 DEF TruePairs
    <2>2. CASE Users
      BY <2>1, <2>2 DEF Users, Notify, NotifyOverflows, watch
    <2>3. CASE Poll
      BY <2>3, PollKeepsPairs
    <2>4. CASE Apply
      BY <2>1, <2>4 DEF Apply, watch, history
    <2>5. CASE UNCHANGED vars
      BY <2>1, <2>5 DEF vars, watch, history
    <2>6. QED
      BY <2>2, <2>3, <2>4, <2>5 DEF Next
  <1>3. QED
    BY <1>1, <1>2, InvariantHolds, PTL DEF Spec

-----------------------------------------------------------------------------
LEMMA MentionedOfRange ==
  ASSUME NEW s, NEW x
  PROVE  x \in Mentioned(s) <=> \E d \in Range(s) : x \in NamesOf(d)
  BY DEF Mentioned, Range

(* A change lost to a later one of its path leaves a trace: only the name a *)
(* file moved away from may never be heard of again (emit_rename and the     *)
(* hash map keep one change for each path).                                 *)
THEOREM WatchOnlySourcesForgotten == Spec => []OnlySourcesForgotten
  <1>1. Init => OnlySourcesForgotten
    BY DEF Init, WatchInit, OnlySourcesForgotten
  <1>2. WatchInv /\ TruePairs /\ OnlySourcesForgotten /\ [Next]_vars => OnlySourcesForgotten'
    <2> SUFFICES ASSUME WatchInv, TruePairs, OnlySourcesForgotten, [Next]_vars
                 PROVE  OnlySourcesForgotten'
      OBVIOUS
    <2> DEFINE Sources == {m[1] : m \in moves}
    <2>1. \A x \in unsaid : (\E d \in Range(pending) : x \in NamesOf(d)) \/ x \in Sources
      BY MentionedOfRange DEF OnlySourcesForgotten
    <2>2. ASSUME moves \subseteq moves',
                 \A x \in unsaid' :
                   (\E d \in Range(pending') : x \in NamesOf(d)) \/ x \in Sources
          PROVE  OnlySourcesForgotten'
      <3>1. \A x \in unsaid' : x \in Mentioned(pending') \/ x \in Sources
        BY <2>2, MentionedOfRange
      <3>2. Sources \subseteq {m[1] : m \in moves'}
        BY <2>2
      <3>3. QED
        BY <3>1, <3>2 DEF OnlySourcesForgotten
    (* An entry is of its own path, or of a move whose source the other is.  *)
    <2>3. \A d \in Range(pending) : \A x \in NamesOf(d) : x = d.to \/ x \in Sources
      <3> SUFFICES ASSUME NEW d \in Range(pending), NEW x \in NamesOf(d), x # d.to
                   PROVE  x \in Sources
        OBVIOUS
      <3>1. d \in FileChange
        BY DEF WatchInv, TypeOK, Range
      <3>2. x = d.from /\ d.kind = "renamed"
        BY <3>1, FileChangeFields
      <3>3. <<d.from, d.to>> \in moves
        BY <3>2, TruePairsOfRange
      <3>4. QED
        BY <3>2, <3>3
    <2>4. CASE Users
      BY <2>1, <2>2, <2>4 DEF Users, Notify, NotifyOverflows, watch
    <2>5. CASE Poll
      <3>1. moves' = moves
        BY <2>5, PollWrites
      <3>2. ASSUME NEW c \in FileChange, c.kind # "renamed", Insert(c),
                   unsaid' = unsaid \cup NamesOf(c)
            PROVE  OnlySourcesForgotten'
        <4>1. NamesOf(c) = {c.to}
          BY <3>2, FileChangeFields
        <4>2. ASSUME NEW x \in unsaid'
              PROVE  (\E d \in Range(pending') : x \in NamesOf(d)) \/ x \in Sources
          <5>1. CASE x = c.to
            BY <5>1, <4>1, <3>2, InsertEntries
          <5>2. CASE x # c.to
            <6>1. (\E d \in Range(pending) : x \in NamesOf(d)) \/ x \in Sources
              BY <5>2, <4>1, <3>2, <2>1
            <6>2. ASSUME NEW d \in Range(pending), x \in NamesOf(d), x \notin Sources
                  PROVE  d \in Range(pending')
              BY <6>2, <5>2, <2>3, <3>2, InsertEntries
            <6>3. QED
              BY <6>1, <6>2
          <5>3. QED
            BY <5>1, <5>2
        <4>3. QED
          BY <4>2, <3>1, <2>2
      <3>3. ASSUME NEW n \in Names, NEW m \in Names, n # m, <<n, m>> \in moves,
                   EmitRename(n, m), unsaid' = unsaid \cup {n, m}
            PROVE  OnlySourcesForgotten'
        <4>1. n \in Sources
          BY <3>3
        <4>2. m \in NamesOf(Renamed(n, m))
          BY DEF Renamed, NamesOf
        <4>3. ASSUME NEW x \in unsaid'
              PROVE  (\E d \in Range(pending') : x \in NamesOf(d)) \/ x \in Sources
          <5>1. CASE x = m
            BY <5>1, <4>2, <3>3, EmitRenameEntries
          <5>2. CASE x # m /\ x # n
            <6>1. (\E d \in Range(pending) : x \in NamesOf(d)) \/ x \in Sources
              BY <5>2, <3>3, <2>1
            <6>2. ASSUME NEW d \in Range(pending), x \in NamesOf(d), x \notin Sources
                  PROVE  d \in Range(pending')
              BY <6>2, <5>2, <2>3, <3>3, EmitRenameEntries
            <6>3. QED
              BY <6>1, <6>2
          <5>3. QED
            BY <5>1, <5>2, <4>1
        <4>4. QED
          BY <4>3, <3>1, <2>2
      <3>4. CASE pending' = pending /\ unsaid' = unsaid
        BY <3>1, <3>4, <2>1, <2>2
      <3>5. CASE TakeExpired
        <4>1. ASSUME NEW x \in unsaid'
              PROVE  (\E d \in Range(pending') : x \in NamesOf(d)) \/ x \in Sources
          <5>1. CASE x \in Mentioned(pending')
            BY <5>1, MentionedOfRange
          <5>2. CASE x \in unsaid /\ x \notin Mentioned(inbox')
            <6>1. ASSUME NEW d \in Range(pending), x \in NamesOf(d)
                  PROVE  d \in Range(pending')
              <7>1. d \notin Range(inbox')
                BY <6>1, <5>2, MentionedOfRange
              <7>2. QED
                BY <7>1, <3>5, TakeExpiredFields
            <6>2. QED
              BY <5>2, <6>1, <2>1
          <5>3. QED
            BY <3>5, <5>1, <5>2 DEF TakeExpired
        <4>2. QED
          BY <4>1, <3>1, <2>2
      <3>6. QED
        BY <2>5, <3>2, <3>3, <3>4, <3>5, PollWrites
    <2>6. CASE Apply
      BY <2>6, <2>1, <2>2 DEF Apply, watch, history
    <2>7. CASE UNCHANGED vars
      BY <2>7, <2>1, <2>2 DEF vars, watch, history
    <2>8. QED
      BY <2>4, <2>5, <2>6, <2>7 DEF Next
  <1>3. QED
    BY <1>1, <1>2, InvariantHolds, WatchTruePairs, PTL DEF Spec

-----------------------------------------------------------------------------
(* What waits about a name no rename touches, and whether the last of it, in *)
(* the order it will be applied, leaves the name a file. This is for those   *)
(* who apply the changes: a change touched is looked up when it is applied,  *)
(* and only a removal that comes last says by itself that nothing is there.  *)

Unmoved(n) == n \in Names /\ \A m \in moves : n \notin {m[1], m[2]}

(* Where a sequence of raw events is about n, and whether the last of these  *)
(* spares the name.                                                         *)
RawAt(s, n) == {i \in DOMAIN s : n \in NamesOf(s[i].change)}

LastSpares(s, n) ==
  \A i \in RawAt(s, n) : (\A j \in RawAt(s, n) : j <= i) => s[i].change.kind # "removed"

HalvesOf(n) == {h \in halves : h.change.to = n}

Of(s, n) == {d \in Range(s) : n \in NamesOf(d)}

Waits(n) == RawAt(raw, n) # {} \/ HalvesOf(n) # {} \/ Of(pending, n) # {} \/ Of(inbox, n) # {}

(* The last to be applied is the last raw event, else the halves, else what  *)
(* is pending, else what was handed over.                                   *)
Stays(n) ==
  IF RawAt(raw, n) # {} THEN LastSpares(raw, n)
  ELSE IF HalvesOf(n) # {} THEN \A h \in HalvesOf(n) : h.kind # "from"
  ELSE IF Of(pending, n) # {} THEN \A d \in Of(pending, n) : d.kind # "removed"
  ELSE \A d \in Of(inbox, n) : d.kind # "removed"

-----------------------------------------------------------------------------
(* A half's change is a removal just if it is a move's first half.           *)
LEMMA HalfChange ==
  ASSUME NEW h \in HalfEvent
  PROVE  /\ NamesOf(h.change) = {h.change.to}
         /\ h.kind = "from" <=> h.change.kind = "removed"
  <1>1. NamesOf(h.change) = {h.change.to}
    BY HalfEventFields, FileChangeFields
  <1>2. CASE h \in {From(n, k) : n \in Names, k \in 1 .. MaxEdits}
    BY <1>1, <1>2 DEF From, Half, Removed
  <1>3. CASE h \in {To(n, k) : n \in Names, k \in 1 .. MaxEdits}
    BY <1>1, <1>3 DEF To, Half, Touched
  <1> QED
    BY <1>2, <1>3 DEF HalfEvent

LEMMA RescanNames ==
  ASSUME NEW e \in RawEvent, e.kind = "rescan"
  PROVE  NamesOf(e.change) = {}
  <1>1. \A f \in HalfEvent : f.kind # "rescan"
    BY HalfEventFields
  <1>2. \A c : Plain(c).kind # "rescan" /\ Both(c).kind # "rescan"
    BY DEF Plain, Both
  <1>3. e = Rescan
    BY <1>1, <1>2 DEF RawEvent
  <1>4. e.change = Overflowed /\ Overflowed.from = None /\ Overflowed.to = None
    BY <1>3 DEF Rescan, Overflowed
  <1> QED
    BY <1>4, ChangesAssumption DEF NamesOf

(* Changes about a name no move touches are about nothing else.              *)
LEMMA UnmovedChange ==
  ASSUME WatchInv, TruePairs, NEW n, Unmoved(n),
         NEW d \in Range(pending) \cup Range(inbox), n \in NamesOf(d)
  PROVE  d.to = n /\ d.kind \in {"touched", "removed"} /\ d \in FileChange
  <1>1. d \in Change
    BY DEF WatchInv, TypeOK, Range, Change
  <1>2. d # Overflowed
    BY ChangesAssumption DEF Overflowed, NamesOf
  <1>3. d \in FileChange
    BY <1>1, <1>2 DEF Change
  <1>4. d.kind # "renamed"
    <2>1. NamesOf(d) = {d.from, d.to}
      BY <1>3, FileChangeFields
    <2>2. d.kind = "renamed" => <<d.from, d.to>> \in moves
      BY TruePairsOfRange
    <2> QED
      BY <2>1, <2>2 DEF Unmoved
  <1> QED
    BY <1>3, <1>4, FileChangeFields

-----------------------------------------------------------------------------
(* The raw events: what is added at the end, and taken from the front.        *)
LEMMA RawAddsOthers ==
  ASSUME NEW s \in Seq(RawEvent), NEW t \in Seq(RawEvent), NEW n,
         \A e \in Range(t) : n \notin NamesOf(e.change)
  PROVE  /\ RawAt(s \o t, n) = RawAt(s, n)
         /\ LastSpares(s \o t, n) <=> LastSpares(s, n)
  <1> DEFINE u == s \o t
  <1>1. /\ u \in Seq(RawEvent) /\ Len(u) = Len(s) + Len(t)
        /\ \A i \in 1 .. Len(s) + Len(t) : u[i] = IF i <= Len(s) THEN s[i] ELSE t[i - Len(s)]
    BY ConcatProperties
  <1> HIDE DEF u
  <1>2. Len(s) \in Nat /\ Len(t) \in Nat /\ DOMAIN s = 1 .. Len(s) /\ DOMAIN t = 1 .. Len(t)
        /\ DOMAIN u = 1 .. Len(s) + Len(t)
    BY <1>1, LenProperties
  <1>3. \A i \in DOMAIN s : i \in DOMAIN u /\ u[i] = s[i]
    BY <1>1, <1>2
  <1>4. \A i \in DOMAIN u \ DOMAIN s : i - Len(s) \in DOMAIN t /\ u[i] = t[i - Len(s)]
    BY <1>1, <1>2
  <1>5. \A i \in DOMAIN u \ DOMAIN s : n \notin NamesOf(u[i].change)
    BY <1>4 DEF Range
  <1>6. RawAt(u, n) = RawAt(s, n)
    BY <1>3, <1>5 DEF RawAt
  <1>7. \A i \in RawAt(s, n) : u[i] = s[i]
    BY <1>3 DEF RawAt
  <1>8. LastSpares(u, n) <=> LastSpares(s, n)
    BY <1>6, <1>7 DEF LastSpares
  <1> QED
    BY <1>6, <1>8 DEF u

LEMMA RawAddsLast ==
  ASSUME NEW s \in Seq(RawEvent), NEW e \in RawEvent, NEW n, n \in NamesOf(e.change)
  PROVE  /\ RawAt(s \o <<e>>, n) # {}
         /\ LastSpares(s \o <<e>>, n) <=> e.change.kind # "removed"
  <1> DEFINE u == s \o <<e>>
  <1>1. PICK l \in Nat : l = Len(s) + 1
    BY LenProperties
  <1>2. Len(u) = l /\ u[l] = e /\ u \in Seq(RawEvent)
    BY <1>1, AppendProperties
  <1> HIDE DEF u
  <1>3. DOMAIN u = 1 .. l /\ l >= 1
    BY <1>1, <1>2, LenProperties
  <1>4. l \in RawAt(u, n) /\ \A i \in RawAt(u, n) : i <= l /\ i \in Int
    BY <1>2, <1>3 DEF RawAt
  <1>5. \A i \in RawAt(u, n) : (\A j \in RawAt(u, n) : j <= i) => i = l
    BY <1>4
  <1>6. LastSpares(u, n) <=> e.change.kind # "removed"
    BY <1>2, <1>4, <1>5 DEF LastSpares
  <1> QED
    BY <1>4, <1>6 DEF u

LEMMA RawTaken ==
  ASSUME NEW s \in Seq(RawEvent), s # <<>>, NEW n
  PROVE  /\ RawAt(Tail(s), n) # {} =>
              RawAt(s, n) # {} /\ (LastSpares(s, n) => LastSpares(Tail(s), n))
         /\ RawAt(Tail(s), n) = {} /\ n \in NamesOf(Head(s).change) =>
              RawAt(s, n) # {} /\ (LastSpares(s, n) => Head(s).change.kind # "removed")
         /\ RawAt(Tail(s), n) = {} /\ n \notin NamesOf(Head(s).change) => RawAt(s, n) = {}
  <1> DEFINE u == Tail(s)
  <1>1. PICK l \in Nat : l + 1 = Len(s)
    <2>1. Len(s) \in Nat /\ Len(s) # 0
      BY LenProperties, EmptySeq
    <2>2. Len(s) - 1 \in Nat /\ (Len(s) - 1) + 1 = Len(s)
      BY <2>1
    <2> QED
      BY <2>2
  <1>2. /\ u \in Seq(RawEvent) /\ DOMAIN u = 1 .. l /\ DOMAIN s = 1 .. l + 1
        /\ \A i \in 1 .. l : u[i] = s[i + 1]
        /\ Head(s) = s[1]
    <2>1. u \in Seq(RawEvent) /\ Len(u) = Len(s) - 1 /\ \A i \in 1 .. Len(u) : u[i] = s[i + 1]
      BY HeadTailProperties
    <2>2. Len(u) = l
      BY <1>1, <2>1
    <2>3. DOMAIN u = 1 .. l /\ DOMAIN s = 1 .. l + 1
      BY <1>1, <2>1, <2>2, LenProperties
    <2>4. Head(s) = s[1]
      OBVIOUS
    <2> HIDE DEF u
    <2> QED
      BY <2>1, <2>2, <2>3, <2>4
  <1> HIDE DEF u
  <1>3. \A i \in RawAt(u, n) : i + 1 \in RawAt(s, n) /\ u[i] = s[i + 1] /\ i \in Int
    <2>1. \A i \in 1 .. l : i + 1 \in 1 .. l + 1
      BY <1>1
    <2> QED
      BY <1>2, <2>1 DEF RawAt
  <1>4. \A i \in RawAt(s, n) : i = 1 \/ (\E j \in RawAt(u, n) : i = j + 1)
    <2>1. \A i \in 1 .. l + 1 : i = 1 \/ (i - 1 \in 1 .. l /\ i = (i - 1) + 1)
      BY <1>1
    <2> QED
      BY <1>2, <2>1 DEF RawAt
  <1>5. 1 \in RawAt(s, n) <=> n \in NamesOf(Head(s).change)
    BY <1>1, <1>2 DEF RawAt
  <1>6. ASSUME RawAt(u, n) # {}, LastSpares(s, n) PROVE LastSpares(u, n)
    <2> SUFFICES ASSUME NEW i \in RawAt(u, n), \A j \in RawAt(u, n) : j <= i
                 PROVE  u[i].change.kind # "removed"
      BY DEF LastSpares
    <2>1. \A j \in RawAt(s, n) : j <= i + 1
      <3> SUFFICES ASSUME NEW j \in RawAt(s, n) PROVE j <= i + 1
        OBVIOUS
      <3>1. CASE j = 1
        <4>1. i \in 1 .. l
          BY <1>2 DEF RawAt
        <4> QED
          BY <3>1, <4>1
      <3>2. CASE \E k \in RawAt(u, n) : j = k + 1
        <4>1. PICK k \in RawAt(u, n) : j = k + 1
          BY <3>2
        <4>2. k <= i /\ k \in Int /\ i \in Int
          BY <1>3
        <4> QED
          BY <4>1, <4>2
      <3> QED
        BY <3>1, <3>2, <1>4
    <2>2. i + 1 \in RawAt(s, n) /\ u[i] = s[i + 1]
      BY <1>3
    <2>3. PICK k : k = i + 1
      OBVIOUS
    <2> QED
      BY <1>6, <2>1, <2>2, <2>3 DEF LastSpares
  <1>7. ASSUME RawAt(u, n) = {}, n \in NamesOf(Head(s).change), LastSpares(s, n)
        PROVE  Head(s).change.kind # "removed"
    <2>1. 1 \in RawAt(s, n) /\ \A j \in RawAt(s, n) : j <= 1
      BY <1>4, <1>5, <1>7
    <2> QED
      BY <1>2, <1>7, <2>1 DEF LastSpares
  <1> QED
    BY <1>3, <1>4, <1>5, <1>6, <1>7 DEF u

-----------------------------------------------------------------------------
(* What a caller does that takes the first change it was handed.             *)
LEMMA InboxTaken ==
  ASSUME WatchInv, inbox # <<>>, inbox' = Tail(inbox),
         UNCHANGED <<raw, pending, halves>>, NEW n
  PROVE  /\ Stays(n) => Stays(n)'
         /\ Waits(n) => Waits(n)' \/ n \in NamesOf(Head(inbox))
         /\ Stays(n) /\ n \in NamesOf(Head(inbox)) /\ ~ Waits(n)' => Head(inbox).kind # "removed"
  <1>1. inbox \in Seq(Change)
    BY DEF WatchInv, TypeOK
  <1>2. Range(inbox) = {Head(inbox)} \cup Range(Tail(inbox))
    <2>1. PICK l \in Nat : l + 1 = Len(inbox)
      <3>1. Len(inbox) \in Nat /\ Len(inbox) # 0
        BY <1>1, LenProperties, EmptySeq
      <3>2. Len(inbox) - 1 \in Nat /\ (Len(inbox) - 1) + 1 = Len(inbox)
        BY <3>1
      <3> QED
        BY <3>2
    <2> DEFINE t == Tail(inbox)
    <2>2. t \in Seq(Change) /\ Len(t) = Len(inbox) - 1 /\ \A i \in 1 .. Len(t) : t[i] = inbox[i + 1]
      BY <1>1, HeadTailProperties
    <2>3. Head(inbox) = inbox[1]
      BY <1>1
    <2> HIDE DEF t
    <2>4. DOMAIN t = 1 .. l /\ DOMAIN inbox = 1 .. l + 1 /\ \A i \in 1 .. l : t[i] = inbox[i + 1]
      BY <1>1, <2>1, <2>2, LenProperties
    <2>5. \A i \in 1 .. l + 1 : i = 1 \/ (\E j \in 1 .. l : i = j + 1)
      <3>1. \A i \in 1 .. l + 1 : i = 1 \/ (i - 1 \in 1 .. l /\ i = (i - 1) + 1)
        BY <2>1
      <3> QED
        BY <3>1
    <2>6. 1 \in 1 .. l + 1 /\ \A i \in 1 .. l : i + 1 \in 1 .. l + 1
      BY <2>1
    <2>7. Range(inbox) \subseteq {inbox[1]} \cup Range(t)
      <3>1. ASSUME NEW i \in 1 .. l + 1 PROVE inbox[i] \in {inbox[1]} \cup Range(t)
        <4>1. CASE i = 1
          BY <4>1
        <4>2. ASSUME NEW j \in 1 .. l, i = j + 1 PROVE inbox[i] \in Range(t)
          BY <4>2, <2>4 DEF Range
        <4> QED
          BY <4>1, <4>2, <2>5
      <3> QED
        BY <3>1, <2>4 DEF Range
    <2>8. {inbox[1]} \cup Range(t) \subseteq Range(inbox)
      BY <2>4, <2>6 DEF Range
    <2>9. Range(inbox) = {Head(inbox)} \cup Range(t)
      BY <2>3, <2>7, <2>8
    <2> QED
      BY <2>9 DEF t
  <1>3. /\ n \notin NamesOf(Head(inbox)) => Of(inbox', n) = Of(inbox, n)
        /\ Of(inbox', n) \subseteq Of(inbox, n)
    BY <1>2 DEF Of
  <1>4. n \in NamesOf(Head(inbox)) => Head(inbox) \in Of(inbox, n)
    BY <1>2 DEF Of
  <1>5. /\ RawAt(raw', n) = RawAt(raw, n) /\ (LastSpares(raw', n) <=> LastSpares(raw, n))
        /\ HalvesOf(n)' = HalvesOf(n) /\ Of(pending', n) = Of(pending, n)
    BY DEF HalvesOf
  <1>6. Stays(n) => Stays(n)'
    BY <1>3, <1>5 DEF Stays
  <1>7. Waits(n) => Waits(n)' \/ n \in NamesOf(Head(inbox))
    BY <1>3, <1>5 DEF Waits
  <1>8. Stays(n) /\ n \in NamesOf(Head(inbox)) /\ ~ Waits(n)' => Head(inbox).kind # "removed"
    BY <1>4, <1>5 DEF Stays, Waits
  <1> QED
    BY <1>6, <1>7, <1>8

(* And what leaves the watch alone.                                          *)
LEMMA WaitsSame ==
  ASSUME UNCHANGED <<raw, pending, halves, inbox>>, NEW n
  PROVE  (Stays(n)' <=> Stays(n)) /\ (Waits(n)' <=> Waits(n))
  BY DEF Stays, Waits, HalvesOf

-----------------------------------------------------------------------------
(* A change noticed: the names it is about stay just if it is no removal; of *)
(* the others nothing new waits, whatever the queue could not hold.         *)
LEMMA ReportsNames ==
  ASSUME NEW c \in FileChange, NEW k \in 1 .. MaxEdits, NEW es \in Reports(c, k)
  PROVE  /\ \A e \in Range(es) : NamesOf(e.change) \subseteq NamesOf(c)
         /\ c.kind # "renamed" => \E e \in RawEvent : es = <<e>> /\ e.change = c
  <1>1. /\ NamesOf(c) = {c.from, c.to} /\ c.from \in Names /\ c.to \in Names
        /\ c.kind \in {"touched", "removed", "renamed"}
        /\ c.kind = "touched" => c = Touched(c.to)
        /\ c.kind = "removed" => c = Removed(c.to)
    BY FileChangeFields DEF FileChange, Touched, Removed, Renamed
  <1>2. /\ From(c.from, k) \in RawEvent /\ From(c.from, k).change = Removed(c.from)
        /\ From(c.to, k) \in RawEvent /\ From(c.to, k).change = Removed(c.to)
        /\ To(c.to, k) \in RawEvent /\ To(c.to, k).change = Touched(c.to)
        /\ Plain(c) \in RawEvent /\ Plain(c).change = c
        /\ Both(c).change = c
    BY <1>1 DEF RawEvent, HalfEvent, From, To, Half, Plain, Both
  <1>3. /\ NamesOf(Removed(c.from)) \subseteq NamesOf(c)
        /\ NamesOf(Removed(c.to)) \subseteq NamesOf(c)
        /\ NamesOf(Touched(c.to)) \subseteq NamesOf(c)
    BY <1>1 DEF NamesOf, Removed, Touched
  <1>4. CASE c.kind = "touched"
    <2>1. es = <<Plain(c)>> \/ es = <<To(c.to, k)>>
      BY <1>4 DEF Reports
    <2>2. \E e \in RawEvent : es = <<e>> /\ e.change = c
      BY <2>1, <1>1, <1>2, <1>4
    <2> QED
      BY <2>2 DEF Range
  <1>5. CASE c.kind = "removed"
    <2>1. es = <<Plain(c)>> \/ es = <<From(c.to, k)>>
      BY <1>5 DEF Reports
    <2>2. \E e \in RawEvent : es = <<e>> /\ e.change = c
      BY <2>1, <1>1, <1>2, <1>5
    <2> QED
      BY <2>2 DEF Range
  <1>6. CASE c.kind = "renamed"
    <2>1. es = <<From(c.from, k), To(c.to, k)>> \/ es = <<Both(c)>>
      BY <1>6 DEF Reports
    <2>2. Range(es) \subseteq {From(c.from, k), To(c.to, k), Both(c)}
      BY <2>1 DEF Range
    <2> QED
      BY <2>2, <1>2, <1>3, <1>6
  <1> QED
    BY <1>1, <1>4, <1>5, <1>6

LEMMA NotifyStays ==
  ASSUME WatchInv, NEW c \in FileChange, edits < MaxEdits, NEW n \in Names,
         Notify(c) \/ NotifyOverflows(c)
  PROVE  /\ n \notin NamesOf(c) => (Stays(n)' <=> Stays(n)) /\ (Waits(n)' <=> Waits(n))
         /\ n \in NamesOf(c) /\ c.kind # "renamed" /\ Notify(c) =>
              Waits(n)' /\ (c.kind # "removed" => Stays(n)')
  <1>1. PICK k \in 1 .. MaxEdits : k = edits + 1
    BY WatchAssumption DEF WatchInv, TypeOK
  <1>2. raw \in Seq(RawEvent)
    BY DEF WatchInv, TypeOK
  <1>3. UNCHANGED <<pending, halves, inbox>>
    BY DEF Notify, NotifyOverflows, watch
  <1>4. HalvesOf(n)' = HalvesOf(n)
    BY <1>3 DEF HalvesOf
  <1>5. ASSUME n \notin NamesOf(c) PROVE RawAt(raw', n) = RawAt(raw, n) /\ (LastSpares(raw', n) <=> LastSpares(raw, n))
    <2>1. CASE Notify(c)
      <3>1. PICK es \in Reports(c, k) : raw' = raw \o es
        BY <2>1, <1>1 DEF Notify
      <3>2. es \in Seq(RawEvent) /\ \A e \in Range(es) : n \notin NamesOf(e.change)
        BY <1>5, ReportsFields, ReportsNames
      <3> QED
        BY <1>2, <3>1, <3>2, RawAddsOthers
    <2>2. CASE NotifyOverflows(c)
      <3>1. PICK es \in Reports(c, k) : \E j \in 0 .. Len(es) - 1 :
              raw' = raw \o SubSeq(es, 1, j) \o <<Rescan>>
        BY <2>2, <1>1 DEF NotifyOverflows
      <3>2. PICK j \in 0 .. Len(es) - 1 : raw' = raw \o SubSeq(es, 1, j) \o <<Rescan>>
        BY <3>1
      <3>3. es \in Seq(RawEvent) /\ \A e \in Range(es) : n \notin NamesOf(e.change)
        BY <1>5, ReportsFields, ReportsNames
      <3> DEFINE cut == SubSeq(es, 1, j)
                 last == <<Rescan>>
                 most == raw \o cut
      <3>4. Len(es) \in Nat /\ DOMAIN es = 1 .. Len(es) /\ j \in Int /\ j <= Len(es)
        BY <3>3, LenProperties
      <3>5. \A i \in 1 .. j : es[i] \in RawEvent /\ n \notin NamesOf(es[i].change)
        BY <3>3, <3>4 DEF Range
      <3>6. /\ cut \in Seq(RawEvent)
            /\ Len(cut) = j
            /\ \A i \in 1 .. j : cut[i] = es[i]
        BY <3>4, <3>5, SubSeqProperties
      <3>7. \A e \in Range(cut) : n \notin NamesOf(e.change)
        BY <3>5, <3>6 DEF Range
      <3>8. Rescan \in RawEvent /\ Rescan.kind = "rescan"
        BY DEF RawEvent, Rescan
      <3>9. last \in Seq(RawEvent) /\ \A e \in Range(last) : n \notin NamesOf(e.change)
        <4>1. last \in Seq(RawEvent) /\ Range(last) = {Rescan}
          BY <3>8 DEF Range
        <4>2. NamesOf(Rescan.change) = {}
          BY <3>8, RescanNames
        <4> QED
          BY <4>1, <4>2
      <3> HIDE DEF cut, last
      <3>10. most \in Seq(RawEvent) /\ RawAt(most, n) = RawAt(raw, n)
             /\ (LastSpares(most, n) <=> LastSpares(raw, n))
        BY <1>2, <3>6, <3>7, RawAddsOthers, ConcatProperties
      <3>11. raw' = most \o last
        BY <3>2 DEF cut, last
      <3> HIDE DEF most
      <3>12. /\ RawAt(most \o last, n) = RawAt(most, n)
             /\ LastSpares(most \o last, n) <=> LastSpares(most, n)
        BY <3>9, <3>10, RawAddsOthers
      <3> QED
        BY <3>10, <3>11, <3>12
    <2> QED
      BY <2>1, <2>2
  <1>6. n \notin NamesOf(c) => (Stays(n)' <=> Stays(n)) /\ (Waits(n)' <=> Waits(n))
    BY <1>3, <1>4, <1>5 DEF Stays, Waits
  <1>7. ASSUME n \in NamesOf(c), c.kind # "renamed", Notify(c)
        PROVE  Waits(n)' /\ (c.kind # "removed" => Stays(n)')
    <2>1. PICK es \in Reports(c, k) : raw' = raw \o es
      BY <1>7, <1>1 DEF Notify
    <2>2. PICK e \in RawEvent : es = <<e>> /\ e.change = c
      BY <1>7, ReportsNames
    <2>3. RawAt(raw', n) # {} /\ (LastSpares(raw', n) <=> c.kind # "removed")
      BY <1>2, <1>7, <2>1, <2>2, RawAddsLast
    <2> QED
      BY <2>3 DEF Stays, Waits
  <1> QED
    BY <1>6, <1>7

-----------------------------------------------------------------------------
(* A poll loses nothing of a name no move touches, and keeps what comes last *)
(* there last, unless something happened at it while half of what looked     *)
(* like a move away from it was waiting (`reused`).                         *)

(* The entries about n, after each kind of write to `pending`.               *)
LEMMA InsertOf ==
  ASSUME WatchInv, TruePairs, NEW n, Unmoved(n), NEW c \in FileChange, Insert(c),
         c.kind # "renamed"
  PROVE  Of(pending', n) = IF c.to = n THEN {c} ELSE Of(pending, n)
  <1>1. \A d \in Of(pending, n) : d \in Range(pending) /\ d.to = n
    BY UnmovedChange DEF Of
  <1>2. n \in NamesOf(c) <=> c.to = n
    BY FileChangeFields
  <1>3. /\ c \in Range(pending')
        /\ Range(pending') \subseteq Range(pending) \cup {c}
        /\ \A d \in Range(pending) : d.to # c.to => d \in Range(pending')
        /\ \A d \in Range(pending') : d = c \/ d.to # c.to
    BY InsertEntries
  <1>4. CASE c.to = n
    BY <1>1, <1>2, <1>3, <1>4 DEF Of
  <1>5. CASE c.to # n
    BY <1>1, <1>2, <1>3, <1>5 DEF Of
  <1> QED
    BY <1>4, <1>5

LEMMA EmitRenameOf ==
  ASSUME WatchInv, TruePairs, NEW n, Unmoved(n), NEW from \in Names, NEW to \in Names,
         from # to, <<from, to>> \in moves, EmitRename(from, to)
  PROVE  n \notin {from, to} /\ Of(pending', n) = Of(pending, n)
  <1>1. n # from /\ n # to
    BY DEF Unmoved
  <1>2. \A d \in Of(pending, n) : d \in Range(pending) /\ d.to = n
    BY UnmovedChange DEF Of
  <1>3. n \notin NamesOf(Renamed(from, to))
    BY <1>1 DEF NamesOf, Renamed
  <1>4. /\ Range(pending') \subseteq Range(pending) \cup {Renamed(from, to)}
        /\ \A d \in Range(pending) : d.to \notin {from, to} => d \in Range(pending')
    BY EmitRenameEntries
  <1> QED
    BY <1>1, <1>2, <1>3, <1>4 DEF Of

(* What is known in common of the steps that take up a raw event.            *)
LEMMA AbsorbedRaw ==
  ASSUME WatchInv, NEW kind, Absorb(kind), NEW n, n \notin reused'
  PROVE  /\ inbox' = inbox /\ Of(inbox', n) = {}
         /\ RawAt(raw', n) # {} =>
              RawAt(raw, n) # {} /\ (LastSpares(raw, n) => LastSpares(raw', n))
         /\ RawAt(raw', n) = {} /\ n \in NamesOf(Head(raw).change) =>
              /\ RawAt(raw, n) # {}
              /\ LastSpares(raw, n) => Head(raw).change.kind # "removed"
              /\ \A h \in HalvesOf(n) : h.kind # "from"
         /\ RawAt(raw', n) = {} /\ n \notin NamesOf(Head(raw).change) => RawAt(raw, n) = {}
  <1>1. raw \in Seq(RawEvent) /\ raw # <<>> /\ raw' = Tail(raw) /\ inbox' = inbox /\ inbox = <<>>
    BY DEF Absorb, WatchInv, TypeOK
  <1>2. Of(inbox', n) = {}
    BY <1>1 DEF Of, Range
  <1>3. n \in NamesOf(Head(raw).change) => \A h \in HalvesOf(n) : h.kind # "from"
    BY DEF Absorb, HalvesOf
  <1> QED
    BY <1>1, <1>2, <1>3, RawTaken

LEMMA AbsorbOverflowStays ==
  ASSUME WatchInv, AbsorbOverflow, NEW n, n \notin reused'
  PROVE  (Stays(n) => Stays(n)') /\ (Waits(n) => Waits(n)')
  <1>1. Absorb("rescan") /\ UNCHANGED <<pending, halves>>
    BY DEF AbsorbOverflow
  <1>2. Head(raw) \in RawEvent /\ Head(raw).kind = "rescan"
    BY <1>1, AbsorbTakesHead
  <1>3. n \notin NamesOf(Head(raw).change)
    BY <1>2, RescanNames
  <1>4. Of(pending', n) = Of(pending, n) /\ HalvesOf(n)' = HalvesOf(n)
    BY <1>1 DEF HalvesOf
  <1>5. inbox' = inbox
    BY <1>1, AbsorbedRaw
  <1>6. CASE RawAt(raw', n) # {}
    BY <1>1, <1>6, AbsorbedRaw DEF Stays, Waits
  <1>7. CASE RawAt(raw', n) = {}
    <2>1. RawAt(raw, n) = {}
      BY <1>1, <1>3, <1>7, AbsorbedRaw
    <2> QED
      BY <1>4, <1>5, <1>7, <2>1 DEF Stays, Waits
  <1> QED
    BY <1>6, <1>7

LEMMA AbsorbPlainStays ==
  ASSUME WatchInv, TruePairs, AbsorbPlain, NEW n, Unmoved(n), n \notin reused'
  PROVE  (Stays(n) => Stays(n)') /\ (Waits(n) => Waits(n)')
  <1> DEFINE c == Head(raw).change
  <1>1. Absorb("plain") /\ Insert(c) /\ UNCHANGED halves
    BY DEF AbsorbPlain
  <1>2. Head(raw) \in RawEvent /\ Head(raw).kind = "plain" /\ Head(raw) \in Reported
    BY <1>1, AbsorbTakesHead
  <1>3. c \in FileChange /\ c.kind # "renamed"
    BY <1>2, RawEventFields DEF WatchInv, CookiesAreMoves
  <1>4. n \in NamesOf(c) <=> c.to = n
    BY <1>3, FileChangeFields
  <1>5. HalvesOf(n)' = HalvesOf(n)
    BY <1>1 DEF HalvesOf
  <1>6. Of(pending', n) = IF c.to = n THEN {c} ELSE Of(pending, n)
    BY <1>1, <1>3, InsertOf
  <1>7. inbox' = inbox
    BY <1>1, AbsorbedRaw
  <1>8. CASE RawAt(raw', n) # {}
    BY <1>1, <1>8, AbsorbedRaw DEF Stays, Waits
  <1>9. CASE RawAt(raw', n) = {} /\ c.to # n
    <2>1. RawAt(raw, n) = {}
      BY <1>1, <1>4, <1>9, AbsorbedRaw
    <2> QED
      BY <1>5, <1>6, <1>7, <1>9, <2>1 DEF Stays, Waits
  <1>10. CASE RawAt(raw', n) = {} /\ c.to = n
    <2>1. /\ RawAt(raw, n) # {}
          /\ LastSpares(raw, n) => c.kind # "removed"
          /\ \A h \in HalvesOf(n) : h.kind # "from"
      BY <1>1, <1>4, <1>10, AbsorbedRaw
    <2>2. Of(pending', n) = {c}
      BY <1>6, <1>10
    <2> HIDE DEF c
    <2> QED
      BY <1>5, <1>10, <2>1, <2>2 DEF Stays, Waits
  <1> QED
    BY <1>8, <1>9, <1>10

LEMMA AbsorbBothStays ==
  ASSUME WatchInv, TruePairs, AbsorbBoth, NEW n, Unmoved(n), n \notin reused'
  PROVE  (Stays(n) => Stays(n)') /\ (Waits(n) => Waits(n)')
  <1>1. Absorb("both") /\ UNCHANGED halves
        /\ EmitRename(Head(raw).change.from, Head(raw).change.to)
    BY DEF AbsorbBoth
  <1>2. Head(raw) \in RawEvent /\ Head(raw).kind = "both" /\ Head(raw) \in Reported
    BY <1>1, AbsorbTakesHead
  <1>3. PICK c \in FileChange : c = Head(raw).change
    BY <1>2, RawEventFields
  <1>4. /\ c.from \in Names /\ c.to \in Names /\ c.from # c.to
        /\ <<c.from, c.to>> \in moves /\ NamesOf(c) = {c.from, c.to}
    BY <1>2, <1>3, FileChangeFields DEF WatchInv, CookiesAreMoves
  <1>5. n \notin NamesOf(Head(raw).change) /\ Of(pending', n) = Of(pending, n)
    BY <1>1, <1>3, <1>4, EmitRenameOf
  <1>6. HalvesOf(n)' = HalvesOf(n)
    BY <1>1 DEF HalvesOf
  <1>7. inbox' = inbox
    BY <1>1, AbsorbedRaw
  <1>8. CASE RawAt(raw', n) # {}
    BY <1>1, <1>8, AbsorbedRaw DEF Stays, Waits
  <1>9. CASE RawAt(raw', n) = {}
    <2>1. RawAt(raw, n) = {}
      BY <1>1, <1>5, <1>9, AbsorbedRaw
    <2> QED
      BY <1>5, <1>6, <1>7, <1>9, <2>1 DEF Stays, Waits
  <1> QED
    BY <1>8, <1>9

LEMMA AbsorbHalfStays ==
  ASSUME WatchInv, TruePairs, NEW kind \in {"from", "to"}, AbsorbHalf(kind),
         NEW n, Unmoved(n), n \notin reused'
  PROVE  (Stays(n) => Stays(n)') /\ (Waits(n) => Waits(n)')
  <1>1. Absorb(kind)
    BY DEF AbsorbHalf
  <1>2. Head(raw) \in RawEvent /\ Head(raw).kind = kind
    BY <1>1, AbsorbTakesHead
  <1>3. PICK h \in HalfEvent : h = Head(raw)
    BY <1>2, RawEventFields
  <1>4. NamesOf(Head(raw).change) = {h.change.to} /\ (h.kind = "from" <=> h.change.kind = "removed")
    BY <1>3, HalfChange
  <1>5. inbox' = inbox
    BY <1>1, AbsorbedRaw
  <1>6. CASE RawAt(raw', n) # {}
    BY <1>1, <1>6, AbsorbedRaw DEF Stays, Waits
  <1>7. ASSUME RawAt(raw', n) = {},
               NEW from \in Names, NEW to \in Names, from # to, <<from, to>> \in moves,
               EmitRename(from, to), h.change.to \in {from, to}, halves' \subseteq halves,
               \A f \in halves \ halves' : f.change.to \in {from, to}
        PROVE  (Stays(n) => Stays(n)') /\ (Waits(n) => Waits(n)')
    <2>1. n \notin {from, to} /\ Of(pending', n) = Of(pending, n)
      BY <1>7, EmitRenameOf
    <2>2. HalvesOf(n)' = HalvesOf(n)
      BY <1>7, <2>1 DEF HalvesOf
    <2>3. RawAt(raw, n) = {}
      BY <1>1, <1>4, <1>7, <2>1, AbsorbedRaw
    <2> QED
      BY <1>5, <1>7, <2>1, <2>2, <2>3 DEF Stays, Waits
  <1>8. ASSUME RawAt(raw', n) = {}, pending' = pending,
               h \in halves', halves' \subseteq halves \cup {h},
               \A f \in halves \ halves' : f.change.to = h.change.to
        PROVE  (Stays(n) => Stays(n)') /\ (Waits(n) => Waits(n)')
    <2>1. CASE n # h.change.to
      <3>1. HalvesOf(n)' = HalvesOf(n)
        BY <1>8, <2>1 DEF HalvesOf
      <3>2. RawAt(raw, n) = {}
        BY <1>1, <1>4, <1>8, <2>1, AbsorbedRaw
      <3> QED
        BY <1>5, <1>8, <3>1, <3>2 DEF Stays, Waits
    <2>2. CASE n = h.change.to
      <3>1. /\ RawAt(raw, n) # {}
            /\ LastSpares(raw, n) => h.kind # "from"
            /\ \A f \in HalvesOf(n) : f.kind # "from"
        BY <1>1, <1>3, <1>4, <1>8, <2>2, AbsorbedRaw
      <3>2. h \in HalvesOf(n)' /\ HalvesOf(n)' \subseteq HalvesOf(n) \cup {h}
        BY <1>8, <2>2 DEF HalvesOf
      <3> QED
        BY <1>8, <3>1, <3>2 DEF Stays, Waits
    <2> QED
      BY <2>1, <2>2
  <1> QED
    BY <1>3, <1>6, <1>7, <1>8, AbsorbHalfWrites

LEMMA ExpireHalfStays ==
  ASSUME WatchInv, TruePairs, NEW h \in halves, ExpireHalf(h), NEW n, Unmoved(n)
  PROVE  (Stays(n) => Stays(n)') /\ (Waits(n) => Waits(n)')
  <1>1. h \in HalfEvent
    BY DEF WatchInv, TypeOK
  <1>2. /\ h.change \in FileChange /\ h.change.kind # "renamed"
        /\ h.kind = "from" <=> h.change.kind = "removed"
    BY <1>1, HalfEventFields, HalfChange
  <1>3. /\ raw' = raw /\ inbox' = inbox /\ halves' = halves \ {h} /\ Insert(h.change)
    BY DEF ExpireHalf
  <1>4. Of(pending', n) = IF h.change.to = n THEN {h.change} ELSE Of(pending, n)
    BY <1>2, <1>3, InsertOf
  <1>5. CASE h.change.to # n
    <2>1. HalvesOf(n)' = HalvesOf(n)
      BY <1>3, <1>5 DEF HalvesOf
    <2> QED
      BY <1>3, <1>4, <1>5, <2>1 DEF Stays, Waits
  <1>6. CASE h.change.to = n
    <2>1. h \in HalvesOf(n) /\ HalvesOf(n)' \subseteq HalvesOf(n)
      BY <1>3, <1>6 DEF HalvesOf
    <2>2. PICK c \in FileChange : c = h.change
      BY <1>2
    <2>3. Of(pending', n) = {c} /\ (h.kind = "from" <=> c.kind = "removed")
      BY <1>2, <1>4, <1>6, <2>2
    <2> QED
      BY <1>3, <2>1, <2>3 DEF Stays, Waits
  <1> QED
    BY <1>5, <1>6

LEMMA TakeExpiredStays ==
  ASSUME WatchInv, TakeExpired, NEW n
  PROVE  (Stays(n) => Stays(n)') /\ (Waits(n) => Waits(n)')
  <1>1. raw' = raw /\ halves' = halves /\ inbox = <<>>
    BY DEF TakeExpired
  <1>2. Of(inbox, n) = {}
    BY <1>1 DEF Of, Range
  <1>3. HalvesOf(n)' = HalvesOf(n)
    BY <1>1 DEF HalvesOf
  <1>4. n \notin NamesOf(Overflowed)
    BY ChangesAssumption DEF NamesOf, Overflowed
  <1>5. /\ Of(pending', n) \subseteq Of(pending, n)
        /\ Of(inbox', n) \subseteq Of(pending, n)
        /\ Of(pending, n) \subseteq Of(pending', n) \cup Of(inbox', n)
    BY <1>4, TakeExpiredFields DEF Of
  <1> QED
    BY <1>1, <1>2, <1>3, <1>5 DEF Stays, Waits

LEMMA PollStays ==
  ASSUME WatchInv, TruePairs, Poll, NEW n, Unmoved(n), n \notin reused'
  PROVE  (Stays(n) => Stays(n)') /\ (Waits(n) => Waits(n)')
  BY AbsorbOverflowStays, AbsorbPlainStays, AbsorbBothStays, AbsorbHalfStays, ExpireHalfStays,
     TakeExpiredStays DEF Poll
=============================================================================
