---------------------------- MODULE ReadsProofs ----------------------------
(***************************************************************************)
(* Proofs about reading: a client that pages through the timeline (Paging),   *)
(* the page that shows it (WebUI), and a search by meaning (Search). First    *)
(* what ORDER BY and LIMIT return, then what a list made of such answers is,   *)
(* then the three; then the dates of pictures (Exif), the objects in a model's  *)
(* replies (Replies), and paths as the store keeps them (Paths).              *)
(***************************************************************************)
EXTENDS Paging, WebUI, Search, Exif, Replies, Paths, FiniteSetTheorems, SequenceTheorems,
        WellFoundedInduction, TLAPS

(* A strict order r of some ids, as the set of its pairs; what comes before an  *)
(* id; and the ids in that order, which is what InOrder has them in.          *)
Orders(r, ids) ==
  /\ \A i \in ids : <<i, i>> \notin r
  /\ \A i, j \in ids : i = j \/ <<i, j>> \in r \/ <<j, i>> \in r
  /\ \A i, j, k \in ids : <<i, j>> \in r /\ <<j, k>> \in r => <<i, k>> \in r

Earlier(r, ids, i) == {j \in ids : <<j, i>> \in r}

Ranked(r, ids) ==
  [n \in 1 .. Cardinality(ids) |-> CHOOSE i \in ids : Cardinality(Earlier(r, ids, i)) = n - 1]

(* Of two ids, the one that comes before the other has fewer before it.        *)
LEMMA EarlierGrows ==
  ASSUME NEW ids, IsFiniteSet(ids), NEW r, Orders(r, ids), NEW i \in ids, NEW j \in ids, <<j, i>> \in r
  PROVE  /\ Cardinality(Earlier(r, ids, j)) < Cardinality(Earlier(r, ids, i))
         /\ Cardinality(Earlier(r, ids, i)) \in Nat /\ Cardinality(Earlier(r, ids, j)) \in Nat
  <1>1. /\ Earlier(r, ids, i) \subseteq ids /\ j \in Earlier(r, ids, i)
        /\ Earlier(r, ids, j) \subseteq Earlier(r, ids, i) \ {j}
    BY DEF Earlier, Orders
  <1>2. IsFiniteSet(Earlier(r, ids, i))
    BY <1>1, FS_Subset
  <1>3. /\ IsFiniteSet(Earlier(r, ids, i) \ {j})
        /\ Cardinality(Earlier(r, ids, i) \ {j}) = Cardinality(Earlier(r, ids, i)) - 1
    BY <1>1, <1>2, FS_RemoveElement
  <1>4. /\ IsFiniteSet(Earlier(r, ids, j))
        /\ Cardinality(Earlier(r, ids, j)) <= Cardinality(Earlier(r, ids, i) \ {j})
    BY <1>1, <1>3, FS_Subset
  <1>5. Cardinality(Earlier(r, ids, i)) \in Nat /\ Cardinality(Earlier(r, ids, j)) \in Nat
    BY <1>2, <1>4, FS_CardinalityType
  <1> QED
    BY <1>3, <1>4, <1>5

(* How many come before an id is less than how many there are.               *)
LEMMA RankIsThere ==
  ASSUME NEW ids, IsFiniteSet(ids), NEW r, Orders(r, ids), NEW i \in ids
  PROVE  /\ Cardinality(ids) \in Nat
         /\ Cardinality(Earlier(r, ids, i)) + 1 \in 1 .. Cardinality(ids)
         /\ Cardinality(Earlier(r, ids, i)) \in Nat
  <1>1. Earlier(r, ids, i) \subseteq ids \ {i} /\ Cardinality(ids) \in Nat
    BY FS_CardinalityType DEF Earlier, Orders
  <1>2. IsFiniteSet(ids \ {i}) /\ Cardinality(ids \ {i}) = Cardinality(ids) - 1
    BY FS_RemoveElement
  <1>3. /\ IsFiniteSet(Earlier(r, ids, i))
        /\ Cardinality(Earlier(r, ids, i)) <= Cardinality(ids) - 1
    BY <1>1, <1>2, FS_Subset
  <1>4. Cardinality(Earlier(r, ids, i)) \in Nat
    BY <1>3, FS_CardinalityType
  <1> QED
    BY <1>1, <1>3, <1>4

(* Two ids that as many come before are one.                                 *)
LEMMA OneOfARank ==
  ASSUME NEW ids, IsFiniteSet(ids), NEW r, Orders(r, ids), NEW i \in ids, NEW j \in ids,
         Cardinality(Earlier(r, ids, i)) = Cardinality(Earlier(r, ids, j))
  PROVE  i = j
  <1>1. <<i, j>> \notin r
    BY EarlierGrows
  <1>2. <<j, i>> \notin r
    BY EarlierGrows
  <1> QED
    BY <1>1, <1>2 DEF Orders

(* There is an id with any number of others before it, smaller than all.      *)
LEMMA RanksAreTaken ==
  ASSUME NEW ids, IsFiniteSet(ids), NEW r, Orders(r, ids), NEW n \in 1 .. Cardinality(ids)
  PROVE  \E i \in ids : Cardinality(Earlier(r, ids, i)) = n - 1
  <1> DEFINE c == Cardinality(ids)
             f == [i \in ids |-> Cardinality(Earlier(r, ids, i)) + 1]
  <1>1. c \in Nat
    BY FS_CardinalityType
  <1>2. f \in [ids -> 1 .. c]
    BY RankIsThere
  <1>3. ASSUME NEW i \in ids, NEW j \in ids, f[i] = f[j] PROVE i = j
    <2>1. Cardinality(Earlier(r, ids, i)) = Cardinality(Earlier(r, ids, j))
      BY <1>3, RankIsThere
    <2> QED
      BY <2>1, OneOfARank
  <1>4. f \in Injection(ids, 1 .. c)
    BY <1>2, <1>3 DEF Injection, IsInjective
  <1>5. IsFiniteSet(1 .. c) /\ Cardinality(1 .. c) = c
    BY <1>1, FS_Interval
  <1>6. f \in Surjection(ids, 1 .. c)
    BY <1>4, <1>5, FS_Injection
  <1>7. PICK i \in ids : f[i] = n
    BY <1>6 DEF Surjection
  <1>8. Cardinality(Earlier(r, ids, i)) \in Nat
    BY RankIsThere
  <1> QED
    BY <1>7, <1>8

(* The ids in their order are all of them, each before what it precedes.      *)
LEMMA RankedSorts ==
  ASSUME NEW ids, IsFiniteSet(ids), NEW r, Orders(r, ids)
  PROVE  /\ Ranked(r, ids) \in Seq(ids)
         /\ Len(Ranked(r, ids)) = Cardinality(ids) /\ Cardinality(ids) \in Nat
         /\ Range(Ranked(r, ids)) = ids
         /\ \A m, n \in DOMAIN Ranked(r, ids) : m < n => <<Ranked(r, ids)[m], Ranked(r, ids)[n]>> \in r
  <1> DEFINE c == Cardinality(ids)
             s == Ranked(r, ids)
  <1>1. c \in Nat
    BY FS_CardinalityType
  <1>2. s = [n \in 1 .. c |-> CHOOSE i \in ids : Cardinality(Earlier(r, ids, i)) = n - 1]
    BY DEF Ranked
  <1> HIDE DEF s
  <1>3. ASSUME NEW n \in 1 .. c PROVE s[n] \in ids /\ Cardinality(Earlier(r, ids, s[n])) = n - 1
    BY <1>2, RanksAreTaken
  <1>4. s \in Seq(ids) /\ Len(s) = c /\ DOMAIN s = 1 .. c
    <2>1. s \in [1 .. c -> ids]
      BY <1>2, <1>3
    <2> QED
      BY <1>1, <2>1
  <1>5. ASSUME NEW m \in 1 .. c, NEW n \in 1 .. c, m < n PROVE <<s[m], s[n]>> \in r
    <2>1. s[m] # s[n]
      BY <1>3, <1>5
    <2>2. PICK x \in ids, y \in ids : x = s[m] /\ y = s[n]
      BY <1>3
    <2>3. Cardinality(Earlier(r, ids, x)) = m - 1 /\ Cardinality(Earlier(r, ids, y)) = n - 1
      BY <1>3, <2>2
    <2>4. <<y, x>> \notin r
      <3> SUFFICES ASSUME <<y, x>> \in r PROVE FALSE
        OBVIOUS
      <3>1. Cardinality(Earlier(r, ids, y)) < Cardinality(Earlier(r, ids, x))
        BY EarlierGrows
      <3> QED
        BY <1>5, <2>3, <3>1
    <2> QED
      BY <2>1, <2>2, <2>4 DEF Orders
  <1>6. ASSUME NEW i \in ids PROVE i \in Range(s)
    <2> DEFINE k == Cardinality(Earlier(r, ids, i))
    <2>1. k \in Nat /\ k + 1 \in 1 .. c
      BY RankIsThere
    <2> HIDE DEF k
    <2>2. PICK x \in ids : x = s[k + 1] /\ Cardinality(Earlier(r, ids, x)) = k
      BY <1>3, <2>1
    <2>3. x = i
      BY <2>2, OneOfARank DEF k
    <2> QED
      BY <1>4, <2>1, <2>2, <2>3 DEF Range
  <1>7. Range(s) = ids
    BY <1>3, <1>4, <1>6 DEF Range
  <1> QED
    BY <1>1, <1>4, <1>5, <1>7 DEF s

(* An id is at the place of its rank.                                       *)
LEMMA AtItsRank ==
  ASSUME NEW ids, IsFiniteSet(ids), NEW r, Orders(r, ids), NEW n \in 1 .. Cardinality(ids),
         NEW i \in ids, Cardinality(Earlier(r, ids, i)) = n - 1
  PROVE  Ranked(r, ids)[n] = i
  <1>1. PICK j \in ids : j = Ranked(r, ids)[n] /\ Cardinality(Earlier(r, ids, j)) = n - 1
    BY DEF Ranked
  <1> QED
    BY <1>1, OneOfARank

-----------------------------------------------------------------------------
(* The newest first: the order of the greater id.                            *)
Greater == {p \in Nat \X Nat : p[1] > p[2]}

LEMMA GreaterOrders ==
  ASSUME NEW ids \in SUBSET Nat, IsFiniteSet(ids)
  PROVE  /\ \A i, j \in ids : <<i, j>> \in Greater <=> i > j
         /\ Orders(Greater, ids)
         /\ NewestFirst(ids) = Ranked(Greater, ids)
  <1>1. \A i, j \in ids : <<i, j>> \in Greater <=> i > j
    BY DEF Greater
  <1>2. Orders(Greater, ids)
    <2>1. \A i \in ids : i \in Nat
      OBVIOUS
    <2>2. \A i \in ids : ~ (i > i)
      BY <2>1
    <2>3. \A i, j \in ids : i = j \/ i > j \/ j > i
      BY <2>1
    <2>4. \A i, j, k \in ids : i > j /\ j > k => i > k
      BY <2>1
    <2> QED
      BY <1>1, <2>2, <2>3, <2>4 DEF Orders
  <1> DEFINE above(i) == {j \in ids : j > i}
             s == NewestFirst(ids)
             c == Cardinality(ids)
  <1>3. \A i \in ids : above(i) = Earlier(Greater, ids, i)
    BY <1>1 DEF Earlier
  <1>4. s = [n \in 1 .. c |-> CHOOSE i \in ids : Cardinality(above(i)) = n - 1]
    BY DEF NewestFirst, InOrder
  <1> HIDE DEF above, s
  <1>5. ASSUME NEW n \in 1 .. c PROVE s[n] = Ranked(Greater, ids)[n]
    <2>1. PICK i \in ids : Cardinality(Earlier(Greater, ids, i)) = n - 1
      BY <1>2, RanksAreTaken
    <2>2. Cardinality(above(i)) = n - 1
      BY <1>3, <2>1
    <2>3. PICK j \in ids : j = s[n] /\ Cardinality(above(j)) = n - 1
      BY <1>4, <2>2
    <2> QED
      BY <1>2, <1>3, <2>3, AtItsRank
  <1> QED
    BY <1>1, <1>2, <1>4, <1>5 DEF Ranked, s

(* Each is greater than the next.                                          *)
Falling(s) == \A m, n \in DOMAIN s : m < n => s[m] > s[n]

(* NewestFirst has every id once, the newest first.                          *)
LEMMA NewestFirstSorts ==
  ASSUME NEW ids \in SUBSET Nat, IsFiniteSet(ids)
  PROVE  /\ NewestFirst(ids) \in Seq(ids)
         /\ Len(NewestFirst(ids)) = Cardinality(ids)
         /\ Cardinality(ids) \in Nat
         /\ Range(NewestFirst(ids)) = ids
         /\ Falling(NewestFirst(ids))
  <1> DEFINE s == NewestFirst(ids)
  <1>1. Orders(Greater, ids) /\ s = Ranked(Greater, ids)
    BY GreaterOrders
  <1> HIDE DEF s
  <1>2. /\ s \in Seq(ids) /\ Len(s) = Cardinality(ids) /\ Cardinality(ids) \in Nat
        /\ Range(s) = ids
        /\ \A m, n \in DOMAIN s : m < n => <<s[m], s[n]>> \in Greater
    BY <1>1, RankedSorts
  <1>3. \A m \in DOMAIN s : s[m] \in ids
    BY <1>2
  <1>4. Falling(s)
    BY <1>2, <1>3, GreaterOrders DEF Falling
  <1> QED
    BY <1>2, <1>4 DEF s

(* A falling sequence is its range, the newest first.                        *)
LEMMA FallingIsNewestFirst ==
  ASSUME NEW s \in Seq(Nat), Falling(s)
  PROVE  /\ IsFiniteSet(Range(s)) /\ Cardinality(Range(s)) = Len(s)
         /\ s = NewestFirst(Range(s))
  <1> DEFINE ids == Range(s)
             l == Len(s)
  <1>1. l \in Nat /\ DOMAIN s = 1 .. l /\ s \in [1 .. l -> Nat] /\ ids \in SUBSET Nat
    BY DEF Range
  <1>2. ASSUME NEW m \in 1 .. l, NEW n \in 1 .. l PROVE s[m] > s[n] <=> m < n
    <2>1. m < n => s[m] > s[n]
      BY <1>1 DEF Falling
    <2>2. n < m => s[n] > s[m]
      BY <1>1 DEF Falling
    <2>3. s[m] \in Nat /\ s[n] \in Nat /\ m \in Nat /\ n \in Nat
      BY <1>1
    <2> QED
      BY <2>1, <2>2, <2>3
  <1>3. s \in Bijection(1 .. l, ids)
    <2>1. ASSUME NEW m \in 1 .. l, NEW n \in 1 .. l, s[m] = s[n] PROVE m = n
      BY <1>1, <1>2, <2>1
    <2>2. s \in [1 .. l -> ids]
      BY <1>1 DEF Range
    <2> QED
      BY <1>1, <2>1, <2>2 DEF Bijection, Injection, Surjection, IsInjective, Range
  <1>4. IsFiniteSet(1 .. l) /\ Cardinality(1 .. l) = l
    BY <1>1, FS_Interval, SMTT(30)
  <1>5. IsFiniteSet(ids) /\ Cardinality(ids) = l
    BY <1>3, <1>4, FS_Bijection DEF ExistsBijection
  <1>6. /\ Orders(Greater, ids) /\ NewestFirst(ids) = Ranked(Greater, ids)
        /\ \A i, j \in ids : <<i, j>> \in Greater <=> i > j
    BY <1>1, <1>5, GreaterOrders
  <1>7. ASSUME NEW n \in 1 .. l
         PROVE  /\ \A j \in ids : j > s[n] => j \in Earlier(Greater, ids, s[n])
                /\ \A j \in Earlier(Greater, ids, s[n]) : j \in ids /\ j > s[n]
    <2>1. s[n] \in ids
      BY <1>1 DEF Range
    <2> QED
      BY <1>6, <2>1 DEF Earlier, Greater
  <1>8. ASSUME NEW n \in 1 .. l PROVE Cardinality(Earlier(Greater, ids, s[n])) = n - 1
    <2> DEFINE b == [m \in 1 .. n - 1 |-> s[m]]
    <2>1. n - 1 \in Nat /\ 1 .. n - 1 \subseteq 1 .. l
      BY <1>1
    <2>2. \A m \in 1 .. n - 1 : s[m] \in Earlier(Greater, ids, s[n])
      BY <1>1, <1>2, <1>7, <2>1, SMTT(30) DEF Range
    <2>3. ASSUME NEW i \in Earlier(Greater, ids, s[n]) PROVE \E m \in 1 .. n - 1 : s[m] = i
      <3>1. PICK m \in 1 .. l : s[m] = i
        BY <1>1, <1>7 DEF Range
      <3>2. m < n
        BY <1>2, <1>7, <3>1
      <3> QED
        BY <1>1, <3>1, <3>2
    <2>4. b \in [1 .. n - 1 -> Earlier(Greater, ids, s[n])]
      BY <2>2
    <2>5. b \in Surjection(1 .. n - 1, Earlier(Greater, ids, s[n]))
      BY <2>3, <2>4 DEF Surjection
    <2>6. ASSUME NEW x \in 1 .. n - 1, NEW y \in 1 .. n - 1, b[x] = b[y] PROVE x = y
      BY <1>1, <1>2, <2>1, <2>6
    <2>7. b \in Injection(1 .. n - 1, Earlier(Greater, ids, s[n]))
      BY <2>4, <2>6 DEF Injection, IsInjective
    <2>8. IsFiniteSet(1 .. n - 1) /\ Cardinality(1 .. n - 1) = n - 1
      BY <2>1, FS_Interval
    <2>9. b \in Bijection(1 .. n - 1, Earlier(Greater, ids, s[n]))
      BY <2>5, <2>7 DEF Bijection
    <2> HIDE DEF b
    <2> QED
      BY <2>8, <2>9, FS_Bijection DEF ExistsBijection
  <1>9. ASSUME NEW n \in 1 .. l PROVE Ranked(Greater, ids)[n] = s[n]
    <2>1. s[n] \in ids /\ n \in 1 .. Cardinality(ids)
      BY <1>1, <1>5 DEF Range
    <2> HIDE DEF ids, l
    <2>2. PICK x \in ids : x = s[n]
      BY <2>1
    <2> QED
      BY <1>5, <1>8, <1>6, <2>1, <2>2, AtItsRank
  <1>10. Ranked(Greater, ids) \in Seq(ids) /\ Len(Ranked(Greater, ids)) = l
    BY <1>5, <1>6, RankedSorts
  <1>11. NewestFirst(ids) = s
    BY <1>1, <1>6, <1>9, <1>10
  <1> QED
    BY <1>5, <1>11

(* The first rows of some ids: newest first, and what is not among them is     *)
(* older than all of them and left out for the limit.                        *)
Top(rows, ids, limit) ==
  /\ rows \in Seq(ids)
  /\ Falling(rows)
  /\ Len(rows) <= limit
  /\ \A i \in ids : i \in Range(rows) \/ (Len(rows) = limit /\ \A j \in Range(rows) : j > i)

(* The smaller and the greater of two numbers.                               *)
LEMMA MinMaxOfTwo ==
  ASSUME NEW a \in Int, NEW b \in Int
  PROVE  /\ Min({a, b}) = IF a <= b THEN a ELSE b
         /\ Max({a, b}) = IF a <= b THEN b ELSE a
  <1>1. PICK m \in {a, b} : m = Min({a, b}) /\ \A y \in {a, b} : m <= y
    <2>1. \E m \in {a, b} : \A y \in {a, b} : m <= y
      OBVIOUS
    <2> QED
      BY <2>1 DEF Min
  <1>2. PICK n \in {a, b} : n = Max({a, b}) /\ \A y \in {a, b} : n >= y
    <2>1. \E n \in {a, b} : \A y \in {a, b} : n >= y
      OBVIOUS
    <2> QED
      BY <2>1 DEF Max
  <1> QED
    BY <1>1, <1>2

(* FirstRows keeps the beginning.                                            *)
LEMMA FirstRowsOf ==
  ASSUME NEW S, NEW s \in Seq(S), NEW limit \in Nat
  PROVE  /\ FirstRows(s, limit) \in Seq(S)
         /\ Len(FirstRows(s, limit)) = IF Len(s) <= limit THEN Len(s) ELSE limit
         /\ \A n \in 1 .. Len(FirstRows(s, limit)) : FirstRows(s, limit)[n] = s[n]
  <1> DEFINE k == Min({Len(s), limit})
             r == FirstRows(s, limit)
  <1>1. Len(s) \in Nat /\ DOMAIN s = 1 .. Len(s)
    OBVIOUS
  <1>2. k = IF Len(s) <= limit THEN Len(s) ELSE limit
    BY <1>1, MinMaxOfTwo
  <1>3. r = SubSeq(s, 1, k) /\ k \in 0 .. Len(s)
    BY <1>1, <1>2 DEF FirstRows
  <1> HIDE DEF k, r
  <1>4. r \in Seq(S) /\ Len(r) = k /\ \A n \in 1 .. k : r[n] = s[n]
    BY <1>1, <1>3
  <1> QED
    BY <1>2, <1>4 DEF r

(* A page of what a statement selects.                                       *)
LEMMA PageIsTop ==
  ASSUME NEW ids \in SUBSET Nat, IsFiniteSet(ids), NEW limit \in Nat
  PROVE  Top(FirstRows(NewestFirst(ids), limit), ids, limit)
  <1> DEFINE s == NewestFirst(ids)
             r == FirstRows(s, limit)
             l == Len(s)
  <1>1. s \in Seq(ids) /\ l \in Nat /\ Range(s) = ids /\ Falling(s) /\ DOMAIN s = 1 .. l
    BY NewestFirstSorts
  <1> HIDE DEF s
  <1>2. /\ r \in Seq(ids) /\ Len(r) = (IF l <= limit THEN l ELSE limit)
        /\ \A n \in 1 .. Len(r) : r[n] = s[n]
    BY <1>1, FirstRowsOf
  <1> HIDE DEF r, l
  <1>3. Len(r) \in Nat /\ Len(r) <= limit /\ Len(r) <= l /\ DOMAIN r = 1 .. Len(r)
    BY <1>1, <1>2
  <1>4. \A n \in 1 .. Len(r) : n \in 1 .. l
    BY <1>1, <1>3
  <1>5. Falling(r)
    BY <1>1, <1>2, <1>3, <1>4 DEF Falling
  <1>6. ASSUME NEW i \in ids, i \notin Range(r)
        PROVE  Len(r) = limit /\ \A j \in Range(r) : j > i
    <2>1. PICK n \in 1 .. l : s[n] = i
      BY <1>1 DEF Range
    <2>2. ~ (n <= Len(r))
      BY <1>2, <1>3, <1>6, <2>1 DEF Range
    <2>3. Len(r) = limit
      BY <1>1, <1>2, <2>2
    <2>4. ASSUME NEW j \in Range(r) PROVE j > i
      <3>1. PICK m \in 1 .. Len(r) : r[m] = j
        BY <1>3 DEF Range
      <3>2. m < n /\ m \in 1 .. l /\ s[m] = j
        BY <1>1, <1>2, <1>3, <1>4, <2>2, <3>1
      <3> QED
        BY <1>1, <2>1, <3>2 DEF Falling
    <2> QED
      BY <2>3, <2>4
  <1>7. Top(r, ids, limit)
    BY <1>2, <1>3, <1>5, <1>6 DEF Top
  <1> QED
    BY <1>7 DEF r, s

-----------------------------------------------------------------------------
(* What is in a sequence of a set's elements, and of a greater set's.         *)
LEMMA ElementsOfSeq ==
  ASSUME NEW T, NEW S \in SUBSET T, NEW s \in Seq(S)
  PROVE  s \in Seq(T) /\ Len(s) \in Nat /\ \A i \in Range(s) : i \in S /\ i \in T
  <1>1. s \in [1 .. Len(s) -> S] /\ Len(s) \in Nat
    OBVIOUS
  <1>2. s \in [1 .. Len(s) -> T]
    BY <1>1
  <1> QED
    BY <1>1, <1>2 DEF Range

(* Two falling sequences, the first above the second, are one.               *)
LEMMA OneOnTheOther ==
  ASSUME NEW s \in Seq(Nat), NEW t \in Seq(Nat), Falling(s), Falling(t),
         \A i \in Range(s), j \in Range(t) : i > j
  PROVE  /\ s \o t \in Seq(Nat) /\ Falling(s \o t)
         /\ Range(s \o t) = Range(s) \cup Range(t)
         /\ Len(s \o t) = Len(s) + Len(t)
  <1> DEFINE k == Len(s)
             l == Len(t)
             u == s \o t
  <1>1. k \in Nat /\ l \in Nat /\ DOMAIN s = 1 .. k /\ DOMAIN t = 1 .. l
    OBVIOUS
  <1>2. /\ u \in Seq(Nat) /\ Len(u) = k + l /\ DOMAIN u = 1 .. k + l
        /\ \A n \in 1 .. k + l : u[n] = IF n <= k THEN s[n] ELSE t[n - k]
    OBVIOUS
  <1> HIDE DEF u, k, l
  <1>3. ASSUME NEW n \in 1 .. k + l PROVE IF n <= k THEN u[n] = s[n] /\ n \in 1 .. k
                                          ELSE u[n] = t[n - k] /\ n - k \in 1 .. l
    BY <1>1, <1>2
  <1>4. Range(u) \subseteq Range(s) \cup Range(t)
    BY <1>1, <1>2, <1>3 DEF Range
  <1>5. ASSUME NEW i \in Range(s) PROVE i \in Range(u)
    <2>1. PICK n \in 1 .. k : s[n] = i
      BY <1>1 DEF Range
    <2>2. n \in 1 .. k + l /\ n <= k
      BY <1>1
    <2> QED
      BY <1>2, <2>1, <2>2 DEF Range
  <1>6. ASSUME NEW i \in Range(t) PROVE i \in Range(u)
    <2>1. PICK n \in 1 .. l : t[n] = i
      BY <1>1 DEF Range
    <2>2. n + k \in 1 .. k + l /\ ~ (n + k <= k) /\ (n + k) - k = n
      BY <1>1
    <2>3. u[n + k] = i
      BY <1>2, <2>1, <2>2
    <2> QED
      BY <1>2, <2>2, <2>3 DEF Range
  <1>7. ASSUME NEW m \in 1 .. k + l, NEW n \in 1 .. k + l, m < n PROVE u[m] > u[n]
    <2>1. CASE n <= k
      <3>1. m <= k
        BY <1>1, <1>7, <2>1
      <3> QED
        BY <1>1, <1>3, <1>7, <2>1, <3>1 DEF Falling
    <2>2. CASE m <= k /\ ~ (n <= k)
      <3>1. u[m] \in Range(s) /\ u[n] \in Range(t)
        BY <1>1, <1>3, <2>2 DEF Range
      <3> QED
        BY <3>1
    <2>3. CASE ~ (m <= k) /\ ~ (n <= k)
      <3>1. m - k < n - k /\ m - k \in 1 .. l /\ n - k \in 1 .. l
        BY <1>1, <1>3, <1>7, <2>3
      <3>2. t[m - k] > t[n - k]
        BY <1>1, <3>1 DEF Falling
      <3> QED
        BY <1>3, <2>3, <3>2
    <2> QED
      BY <2>1, <2>2, <2>3
  <1>8. Falling(u)
    BY <1>2, <1>7 DEF Falling
  <1>9. Range(u) = Range(s) \cup Range(t)
    BY <1>4, <1>5, <1>6
  <1> QED
    BY <1>2, <1>8, <1>9 DEF u, k, l

(* A list of the ids of a filter is exact from its first to its last: any other *)
(* is newer than all of it, or older while there may be more.                 *)
Exact(entries, exhausted, ids, limit) ==
  /\ entries \in Seq(ids)
  /\ Falling(entries)
  /\ \A i \in ids :
       \/ i \in Range(entries)
       \/ \A j \in Range(entries) : i > j
       \/ /\ ~exhausted /\ Len(entries) >= limit
          /\ \A j \in Range(entries) : i < j

(* The first page is exact, whatever was recorded after it was read.          *)
LEMMA FirstPageExact ==
  ASSUME NEW ids \in SUBSET Nat, NEW limit \in Nat, NEW n \in Nat,
         NEW rows, Top(rows, {i \in ids : i <= n}, limit)
  PROVE  Exact(rows, Len(rows) < limit, ids, limit)
  <1>1. rows \in Seq({i \in ids : i <= n}) /\ Falling(rows)
    BY DEF Top
  <1>2. rows \in Seq(ids) /\ Len(rows) \in Nat /\ \A j \in Range(rows) : j \in Nat /\ j <= n
    <2> DEFINE upto == {i \in ids : i <= n}
    <2>1. upto \in SUBSET ids /\ upto \in SUBSET Nat /\ \A j \in upto : j <= n
      OBVIOUS
    <2>2. rows \in Seq(upto)
      BY <1>1
    <2> HIDE DEF upto
    <2> QED
      BY <2>1, <2>2, ElementsOfSeq
  <1>3. ASSUME NEW i \in ids
        PROVE  \/ i \in Range(rows)
               \/ \A j \in Range(rows) : i > j
               \/ /\ ~ (Len(rows) < limit) /\ Len(rows) >= limit
                  /\ \A j \in Range(rows) : i < j
    <2>1. CASE i <= n
      <3>1. i \in Range(rows) \/ (Len(rows) = limit /\ \A j \in Range(rows) : j > i)
        BY <2>1 DEF Top
      <3>2. \A j \in Range(rows) : j > i => i < j
        BY <1>2
      <3> QED
        BY <1>2, <3>1, <3>2
    <2>2. CASE ~ (i <= n)
      <3>1. \A j \in Range(rows) : j \in Nat /\ i > j
        <4>1. i \in Nat
          OBVIOUS
        <4> QED
          BY <1>2, <2>2, <4>1
      <3> QED
        BY <3>1
    <2> QED
      BY <2>1, <2>2
  <1> QED
    BY <1>1, <1>2, <1>3 DEF Exact

(* What lies in a falling sequence lies between its first and its last.       *)
LEMMA BetweenFirstAndLast ==
  ASSUME NEW s \in Seq(Nat), s # <<>>, Falling(s)
  PROVE  /\ Head(s) \in Range(s) /\ Last(s) \in Range(s)
         /\ \A i \in Range(s) : Last(s) <= i /\ i <= Head(s)
  <1> DEFINE l == Len(s)
  <1>1. l \in Nat \ {0} /\ DOMAIN s = 1 .. l /\ Head(s) = s[1] /\ Last(s) = s[l]
    BY DEF Last
  <1>2. 1 \in 1 .. l /\ l \in 1 .. l
    BY <1>1
  <1> HIDE DEF l
  <1>3. ASSUME NEW n \in 1 .. l PROVE s[l] <= s[n] /\ s[n] <= s[1]
    <2>1. n = l \/ n < l
      BY <1>1
    <2>2. n = 1 \/ 1 < n
      BY <1>1
    <2>3. s[n] \in Nat /\ s[1] \in Nat /\ s[l] \in Nat
      BY <1>1, <1>2
    <2>4. n < l => s[n] > s[l]
      BY <1>1, <1>2 DEF Falling
    <2>5. 1 < n => s[1] > s[n]
      BY <1>1, <1>2 DEF Falling
    <2> QED
      BY <2>1, <2>2, <2>3, <2>4, <2>5
  <1> QED
    BY <1>1, <1>2, <1>3 DEF Range

(* rows are the newest of the ids below the last of the list.                 *)
NextBelow(ids, limit, entries, exhausted, rows) ==
  /\ entries # <<>> /\ Exact(entries, exhausted, ids, limit)
  /\ Top(rows, {i \in ids : i < Last(entries)}, limit)

(* The next page, read below the last entry, continues the list.              *)
LEMMA NextPageExact ==
  ASSUME NEW ids \in SUBSET Nat, NEW limit \in Nat, NEW entries, NEW exhausted,
         NEW rows, NextBelow(ids, limit, entries, exhausted, rows)
  PROVE  Exact(entries \o rows, Len(rows) < limit, ids, limit)
  <1> SUFFICES ASSUME entries # <<>>, Exact(entries, exhausted, ids, limit),
                      Top(rows, {i \in ids : i < Last(entries)}, limit)
               PROVE  Exact(entries \o rows, Len(rows) < limit, ids, limit)
    BY DEF NextBelow
  <1>0. \A i \in ids : i \in Nat
    OBVIOUS
  <1>1. /\ entries \in Seq(ids) /\ entries \in Seq(Nat) /\ Falling(entries) /\ Len(entries) \in Nat
        /\ \A i \in Range(entries) : i \in ids /\ i \in Nat
    <2>1. entries \in Seq(ids) /\ Falling(entries)
      BY DEF Exact
    <2> QED
      BY <2>1, ElementsOfSeq
  <1>2. /\ Last(entries) \in Range(entries) /\ Last(entries) \in Nat
        /\ \A i \in Range(entries) : i \in ids /\ Last(entries) <= i
    BY <1>1, BetweenFirstAndLast
  <1>3. rows \in Seq({i \in ids : i < Last(entries)}) /\ Falling(rows)
    BY DEF Top
  <1>4. /\ rows \in Seq(ids) /\ rows \in Seq(Nat) /\ Len(rows) \in Nat
        /\ \A j \in Range(rows) : j \in Nat /\ j < Last(entries)
    <2> DEFINE below == {i \in ids : i < Last(entries)}
    <2>1. below \in SUBSET ids /\ below \in SUBSET Nat /\ \A j \in below : j < Last(entries)
      OBVIOUS
    <2>2. rows \in Seq(below)
      BY <1>3
    <2> HIDE DEF below
    <2> QED
      BY <2>1, <2>2, ElementsOfSeq
  <1>5. \A i \in Range(entries), j \in Range(rows) : i > j
    BY <1>1, <1>2, <1>4
  <1> DEFINE u == entries \o rows
  <1>6. /\ u \in Seq(Nat) /\ Falling(u) /\ Range(u) = Range(entries) \cup Range(rows)
        /\ Len(u) = Len(entries) + Len(rows)
    BY <1>1, <1>3, <1>4, <1>5, OneOnTheOther
  <1>7. u \in Seq(ids)
    BY <1>1, <1>4
  <1> HIDE DEF u
  <1>9. ASSUME NEW i \in ids
        PROVE  \/ i \in Range(u)
               \/ \A j \in Range(u) : i > j
               \/ /\ ~ (Len(rows) < limit) /\ Len(u) >= limit
                  /\ \A j \in Range(u) : i < j
    <2>1. CASE i \in Range(entries)
      BY <1>6, <2>1
    <2>2. CASE \A j \in Range(entries) : i > j
      <3>1. i > Last(entries)
        BY <1>2, <2>2
      <3>2. \A j \in Range(rows) : i > j
        BY <1>0, <1>2, <1>4, <3>1
      <3> QED
        BY <1>6, <2>2, <3>2
    <2>3. CASE \A j \in Range(entries) : i < j
      <3>1. i < Last(entries)
        BY <1>2, <2>3
      <3>2. i \in Range(rows) \/ (Len(rows) = limit /\ \A j \in Range(rows) : j > i)
        BY <3>1 DEF Top
      <3>3. \A j \in Range(rows) : j > i => i < j
        BY <1>0, <1>4
      <3> QED
        BY <1>1, <1>4, <1>6, <2>3, <3>2, <3>3
    <2> QED
      BY <2>1, <2>2, <2>3 DEF Exact
  <1>10. Exact(u, Len(rows) < limit, ids, limit)
    BY <1>6, <1>7, <1>9 DEF Exact
  <1> QED
    BY <1>10 DEF u

(* rows are the newest of the ids up to n, which is not below the list, and new  *)
(* is what of them the list has not: less than a page.                        *)
NewOnTop(ids, limit, n, entries, exhausted, rows, new) ==
  /\ Exact(entries, exhausted, ids, limit)
  /\ \A j \in Range(entries) : j <= n
  /\ Top(rows, {i \in ids : i <= n}, limit)
  /\ new = Range(rows) \ Range(entries) /\ Cardinality(new) # limit

(* What is new of the newest page goes on top of an exact list, unless it is a  *)
(* whole page: then there may be more between the two.                       *)
LEMMA NewestExact ==
  ASSUME NEW ids \in SUBSET Nat, NEW limit \in Nat \ {0}, NEW n \in Nat, NEW entries,
         NEW exhausted, NEW rows, NEW new, NewOnTop(ids, limit, n, entries, exhausted, rows, new)
  PROVE  /\ Exact(NewestFirst(new) \o entries, exhausted, ids, limit)
         /\ entries # <<>> => Last(NewestFirst(new) \o entries) = Last(entries)
  <1> DEFINE upto == {i \in ids : i <= n}
  <1> SUFFICES ASSUME Exact(entries, exhausted, ids, limit), \A j \in Range(entries) : j <= n,
                      upto \in SUBSET ids, \A i \in ids : i \in upto <=> i <= n,
                      Top(rows, upto, limit),
                      new = Range(rows) \ Range(entries), Cardinality(new) # limit
               PROVE  /\ Exact(NewestFirst(new) \o entries, exhausted, ids, limit)
                      /\ entries # <<>> => Last(NewestFirst(new) \o entries) = Last(entries)
    BY DEF NewOnTop
  <1> HIDE DEF upto
  <1> DEFINE fresh == NewestFirst(new)
             u == fresh \o entries
  <1>0. \A i \in ids : i \in Nat
    OBVIOUS
  <1>1. /\ entries \in Seq(ids) /\ entries \in Seq(Nat) /\ Falling(entries) /\ Len(entries) \in Nat
        /\ \A i \in Range(entries) : i \in ids /\ i \in Nat
    <2>1. entries \in Seq(ids) /\ Falling(entries)
      BY DEF Exact
    <2> QED
      BY <2>1, ElementsOfSeq
  <1>2. \A i \in upto : i \in ids /\ i \in Nat /\ i <= n
    OBVIOUS
  <1>3. upto \in SUBSET ids /\ upto \in SUBSET Nat
    OBVIOUS
  <1>4. Top(rows, upto, limit)
    OBVIOUS
  <1>5. \A i \in ids : i <= n => i \in upto
    OBVIOUS
  <1>6. /\ rows \in Seq(ids) /\ rows \in Seq(Nat) /\ Falling(rows) /\ Len(rows) \in Nat /\ Len(rows) <= limit
        /\ \A i \in Range(rows) : i \in ids /\ i \in Nat /\ i <= n
    <2>1. rows \in Seq(upto) /\ Falling(rows) /\ Len(rows) <= limit
      BY <1>4 DEF Top
    <2> QED
      BY <1>2, <1>3, <2>1, ElementsOfSeq
  <1>7. /\ IsFiniteSet(Range(rows)) /\ Cardinality(Range(rows)) = Len(rows)
        /\ IsFiniteSet(Range(entries)) /\ Cardinality(Range(entries)) = Len(entries)
    BY <1>1, <1>6, FallingIsNewestFirst
  <1>8. new \subseteq Range(rows) /\ IsFiniteSet(new) /\ new \in SUBSET ids /\ new \in SUBSET Nat
    BY <1>6, <1>7, FS_Difference
  <1>9. ASSUME NEW i \in ids, i <= n, i \notin Range(rows)
        PROVE  Len(rows) = limit /\ \A j \in Range(rows) : j > i
    BY <1>4, <1>5, <1>9 DEF Top
  <1>10. ASSUME NEW i \in new, NEW j \in Range(entries) PROVE i > j
    <2>1. i \in ids /\ i \in Range(rows) /\ i \notin Range(entries)
      BY <1>8
    <2>2. CASE \A k \in Range(entries) : i > k
      BY <2>2
    <2>3. CASE Len(entries) >= limit /\ \A k \in Range(entries) : i < k
      <3>1. ASSUME NEW k \in Range(entries) PROVE k \in Range(rows)
        <4>1. k \in ids /\ k <= n /\ i < k /\ k \in Nat /\ i \in Nat
          BY <1>0, <1>1, <2>1, <2>3
        <4> SUFFICES ASSUME k \notin Range(rows) PROVE FALSE
          OBVIOUS
        <4>2. i > k
          BY <1>9, <2>1, <4>1
        <4> QED
          BY <4>1, <4>2
      <3>2. Range(entries) \subseteq Range(rows) \ {i}
        BY <2>1, <3>1
      <3>3. IsFiniteSet(Range(rows) \ {i}) /\ Cardinality(Range(rows) \ {i}) = Len(rows) - 1
        BY <1>7, <2>1, FS_RemoveElement
      <3>4. Len(entries) <= Len(rows) - 1
        BY <1>7, <3>2, <3>3, FS_Subset
      <3> QED
        BY <1>1, <1>6, <2>3, <3>4
    <2> QED
      BY <2>1, <2>2, <2>3 DEF Exact
  <1>11. /\ fresh \in Seq(new) /\ Range(fresh) = new /\ Falling(fresh)
         /\ Len(fresh) = Cardinality(new) /\ Cardinality(new) \in Nat
    BY <1>8, NewestFirstSorts
  <1>12. Cardinality(new) # limit
    OBVIOUS
  <1> HIDE DEF fresh
  <1>13. fresh \in Seq(ids) /\ fresh \in Seq(Nat)
    BY <1>8, <1>11, ElementsOfSeq
  <1>14. /\ u \in Seq(Nat) /\ Falling(u) /\ Range(u) = new \cup Range(entries)
         /\ Len(u) = Len(fresh) + Len(entries)
    BY <1>1, <1>10, <1>11, <1>13, OneOnTheOther
  <1>15. u \in Seq(ids)
    BY <1>1, <1>13
  <1>16. entries # <<>> => Last(u) = Last(entries)
    BY <1>1, <1>13 DEF Last
  <1> HIDE DEF u
  <1>17. ASSUME NEW i \in ids
         PROVE  \/ i \in Range(u)
                \/ \A j \in Range(u) : i > j
                \/ /\ ~exhausted /\ Len(u) >= limit
                   /\ \A j \in Range(u) : i < j
    <2>1. CASE i \in Range(entries)
      BY <1>14, <2>1
    <2>2. CASE \A j \in Range(entries) : i > j
      <3>1. CASE ~ (i <= n)
        <4>1. \A j \in new : i > j
          BY <1>0, <1>6, <1>8, <3>1
        <4> QED
          BY <1>14, <2>2, <4>1
      <3>2. CASE i <= n /\ i \in Range(rows)
        <4>1. i \in Range(u)
          BY <1>14, <3>2
        <4> QED
          BY <4>1
      <3>3. CASE i <= n /\ i \notin Range(rows)
        <4>1. Len(rows) = limit /\ \A j \in Range(rows) : j > i
          BY <1>9, <3>3
        <4>2. \A j \in Range(entries) : j \notin Range(rows)
          <5> SUFFICES ASSUME NEW j \in Range(entries), j \in Range(rows) PROVE FALSE
            OBVIOUS
          <5>1. i > j /\ j > i /\ i \in Nat /\ j \in Nat
            BY <1>0, <1>1, <2>2, <4>1
          <5> QED
            BY <5>1
        <4>3. new = Range(rows)
          BY <4>2
        <4> QED
          BY <1>7, <1>12, <4>1, <4>3
      <3> QED
        BY <3>1, <3>2, <3>3
    <2>3. CASE ~exhausted /\ Len(entries) >= limit /\ \A j \in Range(entries) : i < j
      <3>1. entries # <<>>
        BY <1>1, <2>3
      <3>2. 1 \in DOMAIN entries
        BY <1>1, <3>1
      <3>3. PICK k \in Range(entries) : TRUE
        BY <3>2 DEF Range
      <3>4. \A j \in new : i < j
        <4> SUFFICES ASSUME NEW j \in new PROVE i < j
          OBVIOUS
        <4>1. i < k /\ j > k /\ i \in Nat /\ j \in Nat /\ k \in Nat
          BY <1>0, <1>1, <1>8, <1>10, <2>3, <3>3
        <4> QED
          BY <4>1
      <3>5. Len(u) >= limit
        BY <1>1, <1>11, <1>14, <2>3
      <3> QED
        BY <1>14, <2>3, <3>4, <3>5
    <2> QED
      BY <2>1, <2>2, <2>3 DEF Exact
  <1>18. Exact(u, exhausted, ids, limit)
    BY <1>14, <1>15, <1>17 DEF Exact
  <1> QED
    BY <1>16, <1>18 DEF u, fresh

(* An exact list is what the filter says, from its first to its last.         *)
LEMMA ExactIsShown ==
  ASSUME NEW ids \in SUBSET Nat, NEW limit, NEW entries, NEW exhausted,
         entries # <<>>, Exact(entries, exhausted, ids, limit)
  PROVE  /\ entries = NewestFirst({i \in ids : Last(entries) <= i /\ i <= Head(entries)})
         /\ exhausted => \A i \in ids : i >= Last(entries)
  <1> DEFINE between == {i \in ids : Last(entries) <= i /\ i <= Head(entries)}
  <1>0. \A i \in ids : i \in Nat
    OBVIOUS
  <1>1. /\ entries \in Seq(ids) /\ entries \in Seq(Nat) /\ Falling(entries)
        /\ \A i \in Range(entries) : i \in ids /\ i \in Nat
    <2>1. entries \in Seq(ids) /\ Falling(entries)
      BY DEF Exact
    <2> QED
      BY <2>1, ElementsOfSeq
  <1>2. /\ Head(entries) \in Range(entries) /\ Last(entries) \in Range(entries)
        /\ \A i \in Range(entries) : Last(entries) <= i /\ i <= Head(entries)
    BY <1>1, BetweenFirstAndLast
  <1>3. Head(entries) \in Nat /\ Last(entries) \in Nat
    BY <1>1, <1>2
  <1>4. ASSUME NEW i \in between PROVE i \in Range(entries)
    <2>1. i \in ids /\ i \in Nat /\ Last(entries) <= i /\ i <= Head(entries)
      BY <1>0
    <2>2. ~ (i > Head(entries)) /\ ~ (i < Last(entries))
      BY <1>3, <2>1
    <2> QED
      BY <1>2, <2>1, <2>2 DEF Exact
  <1>5. Range(entries) = between
    BY <1>1, <1>2, <1>4
  <1>6. entries = NewestFirst(between)
    BY <1>1, <1>5, FallingIsNewestFirst
  <1>7. ASSUME exhausted, NEW i \in ids PROVE i >= Last(entries)
    <2>1. i \in Range(entries) => i >= Last(entries)
      BY <1>0, <1>2, <1>3
    <2>2. (\A j \in Range(entries) : i > j) => i >= Last(entries)
      BY <1>0, <1>2, <1>3
    <2> QED
      BY <1>7, <2>1, <2>2 DEF Exact
  <1> QED
    BY <1>6, <1>7

(* An exact list stays exact when newer ids come.                            *)
LEMMA ExactGrows ==
  ASSUME NEW ids, NEW more, NEW limit, NEW entries, NEW exhausted,
         Exact(entries, exhausted, ids, limit), ids \subseteq more,
         \A i \in more \ ids, j \in Range(entries) : i > j
  PROVE  Exact(entries, exhausted, more, limit)
  <1>1. entries \in Seq(more)
    BY ElementsOfSeq DEF Exact
  <1> QED
    BY <1>1 DEF Exact

-----------------------------------------------------------------------------
(* The page (WebUI). What its variables hold; a fetch is for rows there are.   *)
PageState ==
  [filter : Filters, entries : Seq(Nat), cursor : Nat \cup {Null}, exhausted : BOOLEAN,
   loading : BOOLEAN, hits : Hits \cup {Null}]

FetchFits(f) ==
  /\ f.before \in DOMAIN log \cup {Null}
  /\ f.rows # Null => Range(f.rows) \subseteq DOMAIN log
  /\ f.what = "search" => f.query \in SearchTexts

WebState ==
  /\ log \in Seq(EventTypes)
  /\ page \in PageState
  /\ Range(page.entries) \subseteq DOMAIN log
  /\ page.cursor \in DOMAIN log \cup {Null}
  /\ fetches \in [Slots -> Fetches \cup {Null}]
  /\ \A s \in InFlight : FetchFits(fetches[s])
  /\ sent \in 0 .. MaxFetches
  /\ upset \in BOOLEAN

(* A page that is loading waits for something.                               *)
LoadingInv == page.loading => \E s \in InFlight : fetches[s].what # "poll"

(* A fetch is for what the page shows ...                                    *)
Asked(f) ==
  /\ f.filter = page.filter
  /\ f.what = "first" => page.hits = Null
  /\ f.what = "more" /\ page.hits = Null => page.cursor # Null /\ f.before = page.cursor
  /\ f.what # "more" => f.before = Null

(* ... and its rows were the first ones at a moment since.                   *)
ServedRows(f) ==
  \E n \in 0 .. Len(log) :
    /\ \A j \in Range(page.entries) : j <= n
    /\ Top(f.rows, {i \in Chosen(f.filter) : i <= n /\ (f.before # Null => i < f.before)}, PageSize)

CursorFits == page.cursor # Null => page.entries # <<>> /\ page.cursor = Last(page.entries)

Settled ==
  IF page.hits # Null THEN page.hits.facet = page.filter.facet
  ELSE Exact(page.entries, page.exhausted, Chosen(page.filter), PageSize) /\ CursorFits

(* As long as one fetch waits for another, the list is exact unless the one in *)
(* flight replaces it.                                                      *)
ListInv ==
  ~upset =>
    /\ \A s, t \in InFlight : s = t
    /\ \A s \in InFlight : Asked(fetches[s])
    /\ \A s \in InFlight : fetches[s].rows # Null /\ fetches[s].what # "search" => ServedRows(fetches[s])
    /\ (\A s \in InFlight : fetches[s].what \in {"more", "poll"}) => Settled

WebInv == WebState /\ LoadingInv /\ ListInv

(* What a filter selects of some log.                                        *)
ChosenOf(rows, filter) ==
  {i \in DOMAIN rows : /\ filter.kind \in {Null, rows[i].kind}
                       /\ filter.facet \in {Null, rows[i].facet}}

(* What a filter selects is some of what there is.                           *)
LEMMA ChosenIds ==
  ASSUME log \in Seq(EventTypes), NEW filter
  PROVE  /\ Len(log) \in Nat /\ DOMAIN log = 1 .. Len(log)
         /\ Chosen(filter) \in SUBSET Nat /\ IsFiniteSet(Chosen(filter))
         /\ \A i \in Chosen(filter) : i \in Nat /\ i <= Len(log) /\ i \in DOMAIN log
  <1>1. Len(log) \in Nat /\ DOMAIN log = 1 .. Len(log)
    OBVIOUS
  <1>2. Chosen(filter) \subseteq 1 .. Len(log)
    BY <1>1 DEF Chosen
  <1>3. IsFiniteSet(1 .. Len(log))
    BY <1>1, FS_Interval
  <1>4. IsFiniteSet(Chosen(filter))
    BY <1>2, <1>3, FS_Subset
  <1> QED
    BY <1>1, <1>2, <1>4

(* The page opens with its first fetch.                                      *)
LEMMA WebInitial == WebInit => WebInv
  <1> SUFFICES ASSUME WebInit PROVE WebInv
    OBVIOUS
  <1>0. 1 \in Slots /\ MaxFetches \in Nat \ {0} /\ PageSize \in Nat
    BY WebAssumption DEF Slots
  <1> DEFINE blank == [filter |-> [kind |-> Null, facet |-> Null], entries |-> <<>>, cursor |-> Null,
                       exhausted |-> FALSE, loading |-> TRUE, hits |-> Null]
             f == Request("first", blank, Null)
  <1>1. /\ log = <<>> /\ page = blank /\ sent = 1 /\ upset = FALSE
        /\ fetches = [s \in Slots |-> IF s = 1 THEN f ELSE Null]
    BY DEF WebInit
  <1>2. blank.filter \in Filters
    BY DEF Filters, EventKinds, FacetValues
  <1>3. blank \in PageState
    BY <1>2 DEF PageState
  <1>4. /\ f \in Fetches /\ f # Null /\ f.what = "first" /\ f.filter = blank.filter /\ f.before = Null
        /\ f.rows = Null
    <2>1. f = [what |-> "first", filter |-> blank.filter, before |-> Null, query |-> Null, rows |-> Null]
      BY DEF Request
    <2> HIDE DEF f, blank
    <2>2. f \in Fetches
      BY <1>2, <2>1 DEF Fetches
    <2> QED
      BY <2>1, <2>2, WebAssumption
  <1> HIDE DEF f
  <1>5. InFlight = {1} /\ fetches[1] = f
    BY <1>0, <1>1, <1>4 DEF InFlight
  <1>6. FetchFits(f)
    BY <1>4 DEF FetchFits
  <1>7. WebState
    <2>0. page \in PageState /\ page.cursor = Null /\ upset \in BOOLEAN
      BY <1>1, <1>3, Zenon
    <2>1. log \in Seq(EventTypes)
      BY <1>1
    <2>2. Range(page.entries) = {}
      BY <1>1 DEF Range
    <2>3. sent \in 0 .. MaxFetches
      BY <1>0, <1>1
    <2>4. fetches \in [Slots -> Fetches \cup {Null}]
      BY <1>1, <1>4
    <2> QED
      BY <1>5, <1>6, <2>0, <2>1, <2>2, <2>3, <2>4 DEF WebState
  <1>8. LoadingInv
    BY <1>4, <1>5 DEF LoadingInv
  <1>9. ListInv
    BY <1>1, <1>4, <1>5 DEF ListInv, Asked
  <1> QED
    BY <1>7, <1>8, <1>9 DEF WebInv

(* Where nothing is in flight but s, nothing is when it is answered.          *)
LEMMA DoneEmpties ==
  ASSUME WebState, NEW s \in InFlight, Done(s)
  PROVE  /\ fetches' \in [Slots -> Fetches \cup {Null}]
         /\ InFlight' = InFlight \ {s}
         /\ \A t \in InFlight' : fetches'[t] = fetches[t]
         /\ UNCHANGED <<log, sent>>
  BY DEF WebState, InFlight, Done

(* A fetch begins.                                                          *)
LEMMA SendKeeps ==
  ASSUME WebInv, NEW what \in {"first", "more", "poll", "search"}, NEW p \in PageState,
         NEW query \in SearchTexts \cup {Null}, Send(what, p, query),
         p.entries = page.entries, p.cursor = page.cursor, p.exhausted = page.exhausted,
         what \in {"more", "poll"} => p.filter = page.filter /\ p.hits = page.hits,
         what = "poll" => ~p.loading,
         what = "first" => p.hits = Null,
         what = "more" => page.cursor # Null,
         what = "search" => query \in SearchTexts
  PROVE  WebInv'
  <1> DEFINE f == Request(what, p, query)
  <1>0. /\ WebState /\ MaxFetches \in Nat
        /\ log \in Seq(EventTypes) /\ page \in PageState
        /\ fetches \in [Slots -> Fetches \cup {Null}]
    BY WebAssumption DEF WebInv, WebState
  <1>1. PICK s \in Slots \ InFlight : fetches' = [fetches EXCEPT ![s] = f]
    <2>1. InFlight \subseteq Slots
      BY DEF InFlight
    <2> QED
      BY <2>1 DEF Send
  <1>2. /\ page' = p /\ sent' = sent + 1 /\ sent < MaxFetches /\ log' = log
        /\ upset' = (upset \/ InFlight # {})
    BY DEF Send
  <1>3. /\ f = [what |-> what, filter |-> p.filter,
                before |-> IF what = "more" THEN p.cursor ELSE Null, query |-> query, rows |-> Null]
    BY DEF Request
  <1>4. p.filter \in Filters /\ p.cursor \in Nat \cup {Null}
    BY DEF PageState
  <1>5. f \in Fetches /\ f # Null
    <2>1. f \in Fetches
      BY <1>3, <1>4 DEF Fetches
    <2> QED
      BY <2>1, WebAssumption
  <1>6. /\ f.what = what /\ f.filter = p.filter /\ f.query = query /\ f.rows = Null
        /\ f.before = IF what = "more" THEN p.cursor ELSE Null
    BY <1>3
  <1> HIDE DEF f
  <1>7. fetches' \in [Slots -> Fetches \cup {Null}]
    BY <1>0, <1>1, <1>5
  <1>8. InFlight' = InFlight \cup {s} /\ fetches'[s] = f /\ \A t \in InFlight : fetches'[t] = fetches[t]
    BY <1>0, <1>1, <1>5 DEF InFlight
  <1>9. FetchFits(f)'
    BY <1>0, <1>2, <1>6 DEF FetchFits, WebState
  <1>10. WebState'
    <2>1. \A t \in InFlight : FetchFits(fetches[t])'
      BY <1>0, <1>2, <1>8 DEF WebState, FetchFits
    <2>2. \A t \in InFlight' : FetchFits(fetches[t])'
      BY <1>8, <1>9, <2>1
    <2>3. sent' \in 0 .. MaxFetches
      BY <1>0, <1>2 DEF WebState
    <2> QED
      BY <1>0, <1>2, <1>7, <2>2, <2>3 DEF WebState
  <1>11. LoadingInv'
    <2>1. CASE what = "poll"
      BY <1>2, <2>1 DEF LoadingInv
    <2>2. CASE what # "poll"
      BY <1>6, <1>8, <2>2 DEF LoadingInv
    <2> QED
      BY <2>1, <2>2
  <1>12. ListInv'
    <2> SUFFICES ASSUME ~upset' PROVE ListInv'
      BY DEF ListInv
    <2>1. ~upset /\ InFlight = {} /\ InFlight' = {s}
      BY <1>2, <1>8
    <2>2. Asked(f)'
      BY <1>2, <1>6 DEF Asked
    <2>3. what \in {"more", "poll"} => Settled'
      <3> SUFFICES ASSUME what \in {"more", "poll"} PROVE Settled'
        OBVIOUS
      <3>1. Settled
        BY <2>1 DEF WebInv, ListInv
      <3>2. \A filter : Chosen(filter)' = Chosen(filter)
        BY <1>2 DEF Chosen
      <3> QED
        BY <1>2, <3>1, <3>2 DEF Settled, CursorFits
    <2> QED
      BY <1>6, <1>8, <2>1, <2>2, <2>3 DEF ListInv
  <1> QED
    BY <1>10, <1>11, <1>12 DEF WebInv

(* What the buttons, the timer and the search box start.                      *)
LEMMA AskKeeps ==
  ASSUME WebInv, ClickKind \/ ChangeFacet \/ Submit \/ ExitSearchMode \/ LoadMore \/ PollNewest
  PROVE  WebInv'
  <1>0. page \in PageState /\ page.filter \in Filters /\ page.hits \in Hits \cup {Null}
    BY DEF WebInv, WebState, PageState
  <1>1. ASSUME NEW p \in PageState, p.entries = page.entries, p.cursor = page.cursor,
               p.exhausted = page.exhausted, LoadFirstPage(p)
        PROVE  WebInv'
    <2> DEFINE q == [p EXCEPT !.hits = Null, !.loading = TRUE]
    <2>1. /\ q \in PageState /\ q.entries = p.entries /\ q.cursor = p.cursor
          /\ q.exhausted = p.exhausted /\ q.hits = Null /\ Send("first", q, Null)
      BY <1>1 DEF PageState, LoadFirstPage
    <2> HIDE DEF q
    <2> QED
      BY <1>1, <2>1, SendKeeps
  <1>2. ASSUME NEW p \in PageState, p.entries = page.entries, p.cursor = page.cursor,
               p.exhausted = page.exhausted, NEW query \in SearchTexts, RunSearch(p, query)
        PROVE  WebInv'
    <2> DEFINE q == [p EXCEPT !.loading = TRUE]
    <2>1. /\ q \in PageState /\ q.entries = p.entries /\ q.cursor = p.cursor
          /\ q.exhausted = p.exhausted /\ Send("search", q, query)
      BY <1>2 DEF PageState, RunSearch
    <2> HIDE DEF q
    <2> QED
      BY <1>2, <2>1, SendKeeps
  <1>3. CASE ClickKind
    <2>1. PICK kind \in EventKinds : LoadFirstPage([page EXCEPT !.filter.kind = kind])
      BY <1>3 DEF ClickKind
    <2> DEFINE p == [page EXCEPT !.filter.kind = kind]
    <2>2. p \in PageState /\ p.entries = page.entries /\ p.cursor = page.cursor /\ p.exhausted = page.exhausted
      BY <1>0 DEF PageState, Filters
    <2> HIDE DEF p
    <2> QED
      BY <1>1, <2>1, <2>2 DEF p
  <1>4. CASE ChangeFacet
    <2>1. PICK value \in FacetValues :
            LET p == [page EXCEPT !.filter.facet = value]
            IN IF page.hits # Null THEN RunSearch(p, page.hits.query) ELSE LoadFirstPage(p)
      BY <1>4 DEF ChangeFacet
    <2> DEFINE p == [page EXCEPT !.filter.facet = value]
    <2>2. p \in PageState /\ p.entries = page.entries /\ p.cursor = page.cursor /\ p.exhausted = page.exhausted
      BY <1>0 DEF PageState, Filters
    <2>3. IF page.hits # Null THEN RunSearch(p, page.hits.query) ELSE LoadFirstPage(p)
      BY <2>1
    <2>4. page.hits # Null => page.hits.query \in SearchTexts
      BY <1>0 DEF Hits
    <2> HIDE DEF p
    <2> QED
      BY <1>1, <1>2, <2>2, <2>3, <2>4
  <1>5. CASE Submit
    BY <1>0, <1>2, <1>5 DEF Submit
  <1>6. CASE ExitSearchMode
    BY <1>0, <1>1, <1>6 DEF ExitSearchMode
  <1>7. CASE LoadMore
    <2> DEFINE q == [page EXCEPT !.loading = TRUE]
    <2>1. /\ q \in PageState /\ q.entries = page.entries /\ q.cursor = page.cursor
          /\ q.exhausted = page.exhausted /\ q.filter = page.filter /\ q.hits = page.hits
          /\ Send("more", q, Null) /\ page.cursor # Null
      BY <1>0, <1>7 DEF PageState, LoadMore
    <2> HIDE DEF q
    <2> QED
      BY <2>1, SendKeeps
  <1>8. CASE PollNewest
    BY <1>0, <1>8, SendKeeps DEF PollNewest
  <1> QED
    BY <1>3, <1>4, <1>5, <1>6, <1>7, <1>8

(* An event is recorded under what the page has.                             *)
LEMMA RecordKeeps == WebInv /\ RecordRow => WebInv'
  <1> SUFFICES ASSUME WebInv, RecordRow PROVE WebInv'
    OBVIOUS
  <1>0. WebState /\ log \in Seq(EventTypes) /\ page \in PageState /\ UNCHANGED <<page, fetches, sent, upset>>
    BY DEF WebInv, WebState, RecordRow
  <1>1. PICK e \in EventTypes : log' = Append(log, e)
    BY DEF RecordRow
  <1> DEFINE l == Len(log)
  <1>2. /\ l \in Nat /\ DOMAIN log = 1 .. l /\ log' \in Seq(EventTypes) /\ Len(log') = l + 1
        /\ DOMAIN log' = 1 .. l + 1 /\ \A i \in 1 .. l : log'[i] = log[i]
    BY <1>0, <1>1
  <1>3. DOMAIN log \subseteq DOMAIN log' /\ 0 .. l \subseteq 0 .. Len(log')
    BY <1>2
  <1> DEFINE old(filter) == ChosenOf(log, filter)
             new(filter) == ChosenOf(log', filter)
  <1>4. ASSUME NEW filter
        PROVE  /\ \A i : i \in old(filter) => i \in new(filter) /\ i \in Nat /\ i <= l
               /\ \A i : i \in new(filter) => (i \in old(filter) \/ i = l + 1) /\ i \in Nat
               /\ \A i : i \in new(filter) /\ i <= l => i \in old(filter)
    <2>1. \A i : i \in new(filter) <=> /\ i \in 1 .. l + 1
                                        /\ filter.kind \in {Null, log'[i].kind}
                                        /\ filter.facet \in {Null, log'[i].facet}
      BY <1>2 DEF ChosenOf
    <2>2. \A i : i \in old(filter) <=> /\ i \in 1 .. l
                                        /\ filter.kind \in {Null, log[i].kind}
                                        /\ filter.facet \in {Null, log[i].facet}
      BY <1>2 DEF ChosenOf
    <2>3. \A i : i \in 1 .. l + 1 <=> i \in 1 .. l \/ i = l + 1
      BY <1>2
    <2>4. \A i \in 1 .. l : i \in Nat /\ i <= l /\ log'[i] = log[i]
      BY <1>2
    <2>5. ~ (l + 1 <= l) /\ l + 1 \in Nat
      BY <1>2
    <2> QED
      BY <2>1, <2>2, <2>3, <2>4, <2>5
  <1>5. InFlight' = InFlight
    BY <1>0 DEF InFlight
  <1>6. WebState'
    <2>1. \A s \in InFlight : FetchFits(fetches[s])'
      BY <1>0, <1>3 DEF WebState, FetchFits
    <2> QED
      BY <1>0, <1>2, <1>3, <1>5, <2>1 DEF WebState
  <1>7. LoadingInv'
    BY <1>0, <1>5 DEF WebInv, LoadingInv
  <1>8. ListInv'
    <2> SUFFICES ASSUME ~upset PROVE ListInv'
      BY <1>0 DEF ListInv
    <2>1. ListInv
      BY DEF WebInv
    <2>2. ASSUME NEW s \in InFlight, fetches[s].rows # Null, fetches[s].what # "search"
          PROVE  ServedRows(fetches[s])'
      <3> DEFINE f == fetches[s]
      <3>1. PICK n \in 0 .. l :
              /\ \A j \in Range(page.entries) : j <= n
              /\ Top(f.rows, {i \in Chosen(f.filter) : i <= n /\ (f.before # Null => i < f.before)}, PageSize)
        BY <2>1, <2>2 DEF ListInv, ServedRows
      <3> DEFINE was == old(f.filter)
                 is == new(f.filter)
      <3>2. /\ \A i : i \in was => i \in is /\ i \in Nat /\ i <= l
            /\ \A i : i \in is => (i \in was \/ i = l + 1) /\ i \in Nat
            /\ \A i : i \in is /\ i <= l => i \in was
        BY <1>4
      <3>5. Chosen(f.filter) = was /\ Chosen(f.filter)' = is
        BY <1>0 DEF Chosen, ChosenOf
      <3> HIDE DEF was, is
      <3>3. {i \in is : i <= n /\ (f.before # Null => i < f.before)}
              = {i \in was : i <= n /\ (f.before # Null => i < f.before)}
        <4>1. ASSUME NEW i \in is, i <= n PROVE i \in was
          <5>1. i \in Nat
            BY <1>2, <3>2
          <5>2. i <= l
            BY <1>2, <4>1, <5>1
          <5> QED
            BY <3>2, <5>2
        <4> QED
          BY <3>2, <4>1
      <3>4. n \in 0 .. Len(log')
        BY <1>3
      <3> QED
        BY <1>0, <3>1, <3>3, <3>4, <3>5 DEF ServedRows
    <2>3. Settled => Settled'
      <3> SUFFICES ASSUME Settled, page.hits = Null PROVE Settled'
        BY <1>0 DEF Settled
      <3>1. Exact(page.entries, page.exhausted, Chosen(page.filter), PageSize) /\ CursorFits
        BY DEF Settled
      <3>2. \A j \in Range(page.entries) : j \in Nat /\ j <= l
        BY <1>0, <1>2 DEF WebState
      <3> DEFINE was == old(page.filter)
                 is == new(page.filter)
      <3>3. /\ \A i : i \in was => i \in is
            /\ \A i : i \in is => i \in was \/ i = l + 1
        BY <1>4
      <3>7. Chosen(page.filter) = was /\ Chosen(page.filter)' = is
        BY <1>0 DEF Chosen, ChosenOf
      <3>4. Exact(page.entries, page.exhausted, was, PageSize)
        BY <3>1, <3>7
      <3> HIDE DEF was, is
      <3>5. \A i \in is \ was, j \in Range(page.entries) : i > j
        BY <1>2, <3>2, <3>3
      <3>6. Exact(page.entries, page.exhausted, is, PageSize)
        BY <3>3, <3>4, <3>5, ExactGrows
      <3> QED
        BY <1>0, <3>1, <3>6, <3>7 DEF Settled, CursorFits
    <2>4. \A s \in InFlight : Asked(fetches[s])'
      BY <1>0, <2>1 DEF ListInv, Asked
    <2> QED
      BY <1>0, <1>5, <2>1, <2>2, <2>3, <2>4 DEF ListInv
  <1> QED
    BY <1>6, <1>7, <1>8 DEF WebInv

(* The daemon answers with the first rows of what the fetch is for.            *)
LEMMA ServeKeeps ==
  ASSUME WebInv, NEW s \in Slots, Serve(s)
  PROVE  WebInv'
  <1> DEFINE f == fetches[s]
             ids == {i \in Chosen(f.filter) : f.before # Null => i < f.before}
             rows == IF f.what = "search" THEN <<>> ELSE Rows(f.filter, f.before)
  <1>0. /\ WebState /\ log \in Seq(EventTypes) /\ page \in PageState /\ PageSize \in Nat
        /\ fetches \in [Slots -> Fetches \cup {Null}] /\ UNCHANGED <<log, page, sent, upset>>
    BY WebAssumption DEF WebInv, WebState, Serve
  <1>1. f # Null /\ f \in Fetches /\ s \in InFlight /\ fetches' = [fetches EXCEPT ![s] = [f EXCEPT !.rows = rows]]
    BY <1>0 DEF Serve, InFlight
  <1>2. /\ Chosen(f.filter) \in SUBSET Nat /\ IsFiniteSet(Chosen(f.filter))
        /\ \A i \in Chosen(f.filter) : i \in Nat /\ i <= Len(log) /\ i \in DOMAIN log
        /\ Len(log) \in Nat /\ DOMAIN log = 1 .. Len(log)
    BY <1>0, ChosenIds
  <1>3. ids \in SUBSET Chosen(f.filter) /\ ids \in SUBSET Nat /\ ids \subseteq DOMAIN log
    BY <1>2
  <1>4. IsFiniteSet(ids)
    BY <1>2, <1>3, FS_Subset
  <1>5. f.what # "search" => Top(rows, ids, PageSize)
    <2>1. Top(FirstRows(NewestFirst(ids), PageSize), ids, PageSize)
      BY <1>0, <1>3, <1>4, PageIsTop
    <2> QED
      BY <2>1 DEF Rows
  <1>6. rows \in Seq(Nat) /\ Range(rows) \subseteq DOMAIN log
    <2>1. CASE f.what = "search"
      BY <2>1 DEF Range
    <2>2. CASE f.what # "search"
      <3>1. rows \in Seq(ids)
        BY <1>5, <2>2 DEF Top
      <3> HIDE DEF rows, ids
      <3>2. rows \in Seq(Nat) /\ \A i \in Range(rows) : i \in ids
        BY <1>3, <3>1, ElementsOfSeq
      <3> QED
        BY <1>3, <3>2
    <2> QED
      BY <2>1, <2>2
  <1>7. {i \in Chosen(f.filter) : i <= Len(log) /\ (f.before # Null => i < f.before)} = ids
    BY <1>2
  <1> HIDE DEF ids, rows
  <1>8. PICK g \in Fetches : /\ g = [f EXCEPT !.rows = rows]
                             /\ g.what = f.what /\ g.filter = f.filter /\ g.before = f.before
                             /\ g.query = f.query /\ g.rows = rows
    <2>1. [f EXCEPT !.rows = rows] \in Fetches
      BY <1>1, <1>6 DEF Fetches
    <2> QED
      BY <1>1, <2>1 DEF Fetches
  <1>9. fetches' = [fetches EXCEPT ![s] = g] /\ g # Null
    BY <1>1, <1>8, WebAssumption
  <1>10. /\ InFlight' = InFlight /\ fetches'[s] = g /\ fetches' \in [Slots -> Fetches \cup {Null}]
         /\ \A t \in InFlight \ {s} : fetches'[t] = fetches[t]
    BY <1>0, <1>1, <1>8, <1>9 DEF InFlight
  <1>11. WebState'
    <2>1. FetchFits(f) /\ \A t \in InFlight \ {s} : FetchFits(fetches[t])
      BY <1>0, <1>1 DEF WebState
    <2>2. FetchFits(g)'
      BY <1>0, <1>6, <1>8, <2>1 DEF FetchFits
    <2>4. \A t \in InFlight \ {s} : FetchFits(fetches[t])'
      BY <1>0, <1>10, <2>1 DEF FetchFits
    <2>3. \A t \in InFlight' : FetchFits(fetches[t])'
      BY <1>10, <2>2, <2>4
    <2> QED
      BY <1>0, <1>10, <2>3 DEF WebState
  <1>12. LoadingInv'
    <2>1. \A t \in InFlight : fetches'[t].what = fetches[t].what
      BY <1>8, <1>10
    <2> QED
      BY <1>0, <1>10, <2>1 DEF WebInv, LoadingInv
  <1>13. ListInv'
    <2> SUFFICES ASSUME ~upset PROVE ListInv'
      BY <1>0 DEF ListInv
    <2>1. InFlight = {s} /\ Asked(f) /\ (f.what \in {"more", "poll"} => Settled)
      BY <1>1 DEF WebInv, ListInv
    <2>2. Asked(g)'
      BY <1>0, <1>8, <2>1 DEF Asked
    <2>3. \A filter : Chosen(filter)' = Chosen(filter)
      BY <1>0 DEF Chosen
    <2>4. Settled => Settled'
      BY <1>0, <2>3 DEF Settled, CursorFits
    <2>5. g.what # "search" => ServedRows(g)'
      <3> SUFFICES ASSUME f.what # "search" PROVE ServedRows(g)'
        BY <1>8
      <3>1. \A j \in Range(page.entries) : j <= Len(log)
        BY <1>0, <1>2 DEF WebState
      <3>2. Top(g.rows, {i \in Chosen(g.filter) : i <= Len(log) /\ (g.before # Null => i < g.before)}, PageSize)
        BY <1>5, <1>7, <1>8
      <3>3. ServedRows(g)
        <4> DEFINE enough(n) ==
              /\ \A j \in Range(page.entries) : j <= n
              /\ Top(g.rows, {i \in Chosen(g.filter) : i <= n /\ (g.before # Null => i < g.before)}, PageSize)
        <4>1. enough(Len(log)) /\ Len(log) \in 0 .. Len(log)
          BY <1>2, <3>1, <3>2
        <4> HIDE DEF enough
        <4>2. \E n \in 0 .. Len(log) : enough(n)
          BY <4>1
        <4> QED
          BY <4>2 DEF ServedRows, enough
      <3> QED
        BY <1>0, <2>3, <3>3 DEF ServedRows
    <2> QED
      BY <1>8, <1>10, <2>1, <2>2, <2>4, <2>5 DEF ListInv
  <1> QED
    BY <1>11, <1>12, <1>13 DEF WebInv

(* An answer is dealt with: what it leaves must be settled.                   *)
LEMMA AnswerKeeps ==
  ASSUME WebInv, NEW s \in InFlight, Done(s), page' \in PageState,
         Range(page'.entries) \subseteq DOMAIN log, page'.cursor \in DOMAIN log \cup {Null},
         upset' \in BOOLEAN, upset => upset',
         page'.loading => page.loading /\ fetches[s].what = "poll",
         ~upset' => Settled'
  PROVE  WebInv'
  <1>0. WebState
    BY DEF WebInv
  <1>1. /\ fetches' \in [Slots -> Fetches \cup {Null}]
        /\ InFlight' = InFlight \ {s}
        /\ \A t \in InFlight' : fetches'[t] = fetches[t]
        /\ UNCHANGED <<log, sent>>
    BY <1>0, DoneEmpties
  <1>2. WebState'
    <2>1. \A t \in InFlight' : FetchFits(fetches[t])'
      BY <1>0, <1>1 DEF WebState, FetchFits
    <2> QED
      BY <1>0, <1>1, <2>1 DEF WebState
  <1>3. LoadingInv'
    BY <1>1 DEF WebInv, LoadingInv
  <1>4. ListInv'
    <2> SUFFICES ASSUME ~upset' PROVE ListInv'
      BY DEF ListInv
    <2>1. InFlight = {s}
      BY DEF WebInv, ListInv
    <2> QED
      BY <1>1, <2>1 DEF ListInv
  <1> QED
    BY <1>2, <1>3, <1>4 DEF WebInv

(* What is in flight when all went well, and what comes of its rows.           *)
LEMMA AnswerIs ==
  ASSUME WebInv, NEW s \in Slots, fetches[s] # Null
  PROVE  /\ s \in InFlight /\ fetches[s] \in Fetches /\ page \in PageState
         /\ log \in Seq(EventTypes) /\ PageSize \in Nat \ {0}
         /\ Len(log) \in Nat /\ DOMAIN log = 1 .. Len(log)
         /\ Range(page.entries) \subseteq DOMAIN log /\ page.cursor \in DOMAIN log \cup {Null}
         /\ fetches[s].rows # Null =>
              fetches[s].rows \in Seq(Nat) /\ Range(fetches[s].rows) \subseteq DOMAIN log
         /\ ~upset => /\ Asked(fetches[s])
                      /\ fetches[s].rows # Null /\ fetches[s].what # "search" => ServedRows(fetches[s])
                      /\ fetches[s].what \in {"more", "poll"} => Settled
  <1>1. /\ s \in InFlight /\ fetches[s] \in Fetches /\ page \in PageState
        /\ log \in Seq(EventTypes) /\ PageSize \in Nat \ {0}
        /\ Range(page.entries) \subseteq DOMAIN log /\ page.cursor \in DOMAIN log \cup {Null}
        /\ FetchFits(fetches[s])
    BY WebAssumption DEF WebInv, WebState, InFlight
  <1>2. Len(log) \in Nat /\ DOMAIN log = 1 .. Len(log)
    BY <1>1
  <1>3. fetches[s].rows # Null => fetches[s].rows \in Seq(Nat) /\ Range(fetches[s].rows) \subseteq DOMAIN log
    BY <1>1 DEF Fetches, FetchFits
  <1>4. ~upset => /\ Asked(fetches[s])
                  /\ fetches[s].rows # Null /\ fetches[s].what # "search" => ServedRows(fetches[s])
                  /\ fetches[s].what \in {"more", "poll"} => Settled
    BY <1>1 DEF WebInv, ListInv
  <1> QED
    BY <1>1, <1>2, <1>3, <1>4

(* No answer changes the list at most where it was to be replaced.            *)
LEMMA FailKeeps ==
  ASSUME WebInv, NEW s \in Slots, Fail(s)
  PROVE  WebInv'
  <1>0. fetches[s] # Null /\ Done(s)
    BY DEF Fail
  <1>1. /\ s \in InFlight /\ page \in PageState /\ fetches[s] \in Fetches
        /\ Range(page.entries) \subseteq DOMAIN log /\ page.cursor \in DOMAIN log \cup {Null}
        /\ ~upset /\ fetches[s].what \in {"more", "poll"} => Settled
    BY <1>0, AnswerIs
  <1>2. /\ page' \in PageState /\ page'.entries = page.entries /\ page'.cursor = page.cursor
        /\ page'.hits = page.hits /\ page'.filter = page.filter /\ page'.exhausted = page.exhausted
        /\ page'.loading = IF fetches[s].what = "poll" THEN page.loading ELSE FALSE
    BY <1>1 DEF PageState, Fail
  <1>3. upset \in BOOLEAN /\ upset' = (upset \/ fetches[s].what \in {"first", "search"}) /\ log' = log
    BY DEF WebInv, WebState, Fail, Done
  <1>4. fetches[s].what \in {"first", "more", "poll", "search"}
    BY <1>1 DEF Fetches
  <1>5. Settled => Settled'
    <2>1. Chosen(page.filter)' = Chosen(page.filter)
      BY <1>2, <1>3 DEF Chosen
    <2> QED
      BY <1>2, <2>1 DEF Settled, CursorFits
  <1>6. ~upset' => Settled'
    BY <1>1, <1>3, <1>4, <1>5
  <1>7. upset' \in BOOLEAN /\ (upset => upset')
    BY <1>3
  <1>8. page'.loading => page.loading /\ fetches[s].what = "poll"
    BY <1>2
  <1> QED
    BY <1>0, <1>1, <1>2, <1>6, <1>7, <1>8, AnswerKeeps

(* The rows of a first page, or of the newest ones, are the first of what was *)
(* there up to some event.                                                  *)
LEMMA FirstServed ==
  ASSUME log \in Seq(EventTypes), NEW f, ServedRows(f), f.before = Null
  PROVE  \E n \in Nat : /\ \A j \in Range(page.entries) : j <= n
                        /\ Top(f.rows, {i \in Chosen(f.filter) : i <= n}, PageSize)
  <1>1. PICK n \in 0 .. Len(log) :
          /\ \A j \in Range(page.entries) : j <= n
          /\ Top(f.rows, {i \in Chosen(f.filter) : i <= n /\ (f.before # Null => i < f.before)}, PageSize)
    BY DEF ServedRows
  <1>2. n \in Nat
    BY ChosenIds
  <1>3. {i \in Chosen(f.filter) : i <= n /\ (f.before # Null => i < f.before)} = {i \in Chosen(f.filter) : i <= n}
    OBVIOUS
  <1>4. Top(f.rows, {i \in Chosen(f.filter) : i <= n}, PageSize)
    BY <1>1, <1>3
  <1> QED
    BY <1>1, <1>2, <1>4

(* The last of a sequence is one of its elements.                            *)
LEMMA LastIsThere ==
  ASSUME NEW s \in Seq(Nat), s # <<>>
  PROVE  Last(s) \in Range(s) /\ Last(s) \in Nat
  <1>1. Len(s) \in 1 .. Len(s) /\ DOMAIN s = 1 .. Len(s)
    OBVIOUS
  <1> QED
    BY <1>1 DEF Last, Range

(* What comes last when one sequence is put under another.                    *)
LEMMA OneUnderTheOther ==
  ASSUME NEW s \in Seq(Nat), NEW t \in Seq(Nat), s # <<>>
  PROVE  /\ s \o t # <<>>
         /\ t # <<>> => Last(s \o t) = Last(t)
         /\ t = <<>> => s \o t = s
  <1> DEFINE u == s \o t
  <1>1. /\ Len(s) \in Nat \ {0} /\ Len(t) \in Nat /\ Len(u) = Len(s) + Len(t)
        /\ \A n \in 1 .. Len(u) : u[n] = IF n <= Len(s) THEN s[n] ELSE t[n - Len(s)]
    OBVIOUS
  <1>2. u # <<>>
    BY <1>1
  <1>3. ASSUME t # <<>> PROVE Last(u) = Last(t)
    <2>1. Len(t) > 0
      BY <1>3
    <2> HIDE DEF u
    <2>2. Len(u) \in 1 .. Len(u) /\ ~ (Len(u) <= Len(s)) /\ Len(u) - Len(s) = Len(t)
      BY <1>1, <2>1
    <2>3. u[Len(u)] = t[Len(t)]
      BY <1>1, <2>2
    <2> QED
      BY <2>3 DEF Last
  <1>4. t = <<>> => u = s
    OBVIOUS
  <1> QED
    BY <1>2, <1>3, <1>4

(* The first page is shown.                                                 *)
LEMMA ShowFirstKeeps ==
  ASSUME WebInv, NEW s \in Slots, fetches[s] # Null, fetches[s].rows # Null,
         fetches[s].what = "first", ShowFirst(s), Done(s)
  PROVE  WebInv'
  <1> DEFINE f == fetches[s]
             rows == f.rows
  <1>1. /\ s \in InFlight /\ f \in Fetches /\ page \in PageState
        /\ log \in Seq(EventTypes) /\ PageSize \in Nat \ {0}
        /\ rows \in Seq(Nat) /\ Range(rows) \subseteq DOMAIN log
        /\ ~upset => Asked(f) /\ ServedRows(f)
    BY AnswerIs
  <1>2. Len(rows) \in Nat /\ Cursor(rows) \in (DOMAIN log \cap Nat) \cup {Null}
    <2>1. CASE rows = <<>>
      BY <1>1, <2>1 DEF Cursor
    <2>2. CASE rows # <<>>
      BY <1>1, <2>2, LastIsThere DEF Cursor
    <2> QED
      BY <2>1, <2>2
  <1> DEFINE cursor == Cursor(rows)
             short == Len(rows) < PageSize
  <1>3. /\ page' = [page EXCEPT !.entries = rows, !.cursor = cursor, !.exhausted = short, !.loading = FALSE]
        /\ upset' = upset /\ upset \in BOOLEAN /\ log' = log /\ short \in BOOLEAN
    BY DEF ShowFirst, Done, WebInv, WebState
  <1>7. /\ cursor = Cursor(rows) /\ short = (Len(rows) < PageSize)
        /\ cursor \in Nat \cup {Null} /\ rows \in Seq(Nat)
    BY <1>1, <1>2
  <1> HIDE DEF rows, cursor, short
  <1>4. /\ page' \in PageState /\ page'.entries = rows /\ page'.cursor = cursor
        /\ page'.exhausted = short /\ page'.filter = page.filter
        /\ page'.hits = page.hits /\ page'.loading = FALSE
    BY <1>1, <1>3, <1>7 DEF PageState
  <1>5. ASSUME ~upset' PROVE Settled'
    <2>1. Asked(f) /\ ServedRows(f) /\ f.filter = page.filter /\ f.before = Null /\ page.hits = Null
      BY <1>1, <1>3, <1>5 DEF Asked
    <2> DEFINE ids == Chosen(page.filter)
    <2>2. ids \in SUBSET Nat
      BY <1>1, ChosenIds
    <2>3. PICK n \in Nat : Top(rows, {i \in ids : i <= n}, PageSize)
      BY <1>1, <2>1, FirstServed DEF rows
    <2>4. Chosen(page.filter)' = ids
      BY <1>3, <1>4 DEF Chosen
    <2> HIDE DEF ids
    <2>5. Exact(rows, Len(rows) < PageSize, ids, PageSize)
      BY <1>1, <2>2, <2>3, FirstPageExact
    <2>6. CursorFits'
      BY <1>4, <1>7 DEF CursorFits, Cursor
    <2> QED
      BY <1>4, <1>7, <2>1, <2>4, <2>5, <2>6 DEF Settled
  <1>6. Range(page'.entries) \subseteq DOMAIN log /\ page'.cursor \in DOMAIN log \cup {Null}
    BY <1>1, <1>2, <1>4, <1>7 DEF rows
  <1> QED
    BY <1>1, <1>3, <1>4, <1>5, <1>6, AnswerKeeps

(* Hits are shown.                                                          *)
LEMMA ShowHitsKeeps ==
  ASSUME WebInv, NEW s \in Slots, fetches[s] # Null, fetches[s].rows # Null,
         fetches[s].what = "search", ShowHits(s), Done(s)
  PROVE  WebInv'
  <1> DEFINE f == fetches[s]
             found == [query |-> f.query, facet |-> f.filter.facet]
  <1>1. /\ s \in InFlight /\ f \in Fetches /\ page \in PageState
        /\ Range(page.entries) \subseteq DOMAIN log /\ page.cursor \in DOMAIN log \cup {Null}
        /\ ~upset => Asked(f)
    BY AnswerIs
  <1>2. f.query \in SearchTexts
    BY <1>1 DEF WebInv, WebState, FetchFits
  <1>3. f.filter.facet \in FacetValues
    BY <1>1 DEF Fetches, Filters
  <1>4. found \in Hits /\ found # Null
    BY <1>2, <1>3, WebAssumption DEF Hits
  <1>5. /\ page' = [page EXCEPT !.hits = found, !.loading = FALSE]
        /\ upset' = upset /\ upset \in BOOLEAN
    BY DEF ShowHits, WebInv, WebState
  <1>6. found.facet = f.filter.facet
    OBVIOUS
  <1> HIDE DEF found
  <1>7. /\ page' \in PageState /\ page'.entries = page.entries /\ page'.cursor = page.cursor
        /\ page'.filter = page.filter /\ page'.hits = found /\ page'.loading = FALSE
    BY <1>1, <1>4, <1>5 DEF PageState
  <1>8. ASSUME ~upset' PROVE Settled'
    BY <1>1, <1>4, <1>5, <1>6, <1>7, <1>8 DEF Settled, Asked
  <1> QED
    BY <1>1, <1>5, <1>7, <1>8, AnswerKeeps

(* The next page is put under the list.                                      *)
LEMMA ShowMoreKeeps ==
  ASSUME WebInv, NEW s \in Slots, fetches[s] # Null, fetches[s].rows # Null,
         fetches[s].what = "more", ShowMore(s), Done(s)
  PROVE  WebInv'
  <1> DEFINE f == fetches[s]
             rows == f.rows
             entries == page.entries
             list == entries \o rows
             cursor == IF rows = <<>> THEN page.cursor ELSE Cursor(rows)
             short == Len(rows) < PageSize
  <1>1. /\ s \in InFlight /\ f \in Fetches /\ page \in PageState
        /\ log \in Seq(EventTypes) /\ PageSize \in Nat \ {0} /\ Len(log) \in Nat
        /\ DOMAIN log = 1 .. Len(log)
        /\ entries \in Seq(Nat) /\ Range(entries) \subseteq DOMAIN log
        /\ page.cursor \in DOMAIN log \cup {Null}
        /\ rows \in Seq(Nat) /\ Range(rows) \subseteq DOMAIN log
        /\ ~upset => Asked(f) /\ ServedRows(f) /\ Settled
    BY AnswerIs DEF PageState
  <1>2. Len(rows) \in Nat /\ cursor \in (DOMAIN log \cap Nat) \cup {Null}
    <2>1. CASE rows = <<>>
      BY <1>1, <2>1
    <2>2. CASE rows # <<>>
      BY <1>1, <2>2, LastIsThere DEF Cursor
    <2> QED
      BY <2>1, <2>2
  <1>3. list \in Seq(Nat) /\ Range(list) = Range(entries) \cup Range(rows)
    BY <1>1, RangeConcatenation
  <1>4. /\ page' = [page EXCEPT !.entries = list, !.loading = FALSE, !.cursor = cursor, !.exhausted = short]
        /\ upset' = upset /\ upset \in BOOLEAN /\ log' = log /\ short \in BOOLEAN
    BY DEF ShowMore, Done, WebInv, WebState
  <1>5. /\ short = (Len(rows) < PageSize) /\ list = entries \o rows
        /\ cursor = IF rows = <<>> THEN page.cursor ELSE Last(rows)
    BY DEF Cursor
  <1> HIDE DEF list, cursor, short, rows
  <1>6. /\ page' \in PageState /\ page'.entries = list /\ page'.cursor = cursor
        /\ page'.exhausted = short /\ page'.filter = page.filter
        /\ page'.hits = page.hits /\ page'.loading = FALSE
    BY <1>1, <1>2, <1>3, <1>4 DEF PageState
  <1>7. ASSUME ~upset' PROVE Settled'
    <2>1. Asked(f) /\ ServedRows(f) /\ Settled /\ f.filter = page.filter
      BY <1>1, <1>4, <1>7 DEF Asked
    <2>2. CASE page.hits # Null
      BY <1>6, <2>1, <2>2 DEF Settled
    <2>3. CASE page.hits = Null
      <3> DEFINE ids == Chosen(page.filter)
                 last == Last(entries)
      <3>1. /\ Exact(entries, page.exhausted, ids, PageSize) /\ page.cursor # Null
            /\ entries # <<>> /\ page.cursor = last /\ f.before = last
        BY <1>1, <2>1, <2>3 DEF Settled, CursorFits, Asked
      <3>2. last \in Range(entries) /\ last \in Nat /\ last # Null
        BY <1>1, <3>1, LastIsThere
      <3>3. PICK n \in 0 .. Len(log) :
              /\ \A j \in Range(entries) : j <= n
              /\ Top(rows, {i \in ids : i <= n /\ (f.before # Null => i < f.before)}, PageSize)
        BY <2>1 DEF ServedRows, rows
      <3>4. ids \in SUBSET Nat /\ \A i \in ids : i \in Nat
        BY <1>1, ChosenIds
      <3>5. Chosen(page.filter)' = ids
        BY <1>4, <1>6 DEF Chosen
      <3> HIDE DEF ids, last
      <3>6. {i \in ids : i <= n /\ (f.before # Null => i < f.before)} = {i \in ids : i < last}
        <4>1. last <= n /\ n \in Nat /\ last \in Nat /\ f.before = last /\ f.before # Null
          BY <1>1, <3>1, <3>2, <3>3
        <4>2. ASSUME NEW i \in ids PROVE i <= n /\ (f.before # Null => i < f.before) <=> i < last
          <5>1. i \in Nat
            BY <3>4
          <5> QED
            BY <4>1, <5>1
        <4> QED
          BY <4>2
      <3>7. Exact(list, short, ids, PageSize)
        <4>1. Top(rows, {i \in ids : i < last}, PageSize)
          BY <3>3, <3>6
        <4>2. NextBelow(ids, PageSize, entries, page.exhausted, rows)
          BY <3>1, <4>1 DEF NextBelow, last
        <4>3. PageSize \in Nat
          BY <1>1
        <4> QED
          BY <1>5, <3>4, <4>2, <4>3, NextPageExact
      <3>8. list # <<>> /\ (rows # <<>> => Last(list) = Last(rows)) /\ (rows = <<>> => list = entries)
        BY <1>1, <1>5, <3>1, OneUnderTheOther
      <3>9. CursorFits'
        BY <1>5, <1>6, <3>1, <3>8 DEF CursorFits, last
      <3> QED
        BY <1>6, <2>3, <3>5, <3>7, <3>9 DEF Settled
    <2> QED
      BY <2>2, <2>3
  <1>8. Range(page'.entries) \subseteq DOMAIN log /\ page'.cursor \in DOMAIN log \cup {Null}
    BY <1>1, <1>2, <1>3, <1>6 DEF rows
  <1> QED
    BY <1>1, <1>4, <1>6, <1>7, <1>8, AnswerKeeps

(* What is new is put on top of the list.                                    *)
LEMMA ShowNewestKeeps ==
  ASSUME WebInv, NEW s \in Slots, fetches[s] # Null, fetches[s].rows # Null,
         fetches[s].what = "poll", ShowNewest(s), Done(s)
  PROVE  WebInv'
  <1> DEFINE f == fetches[s]
             rows == f.rows
             entries == page.entries
             new == Range(rows) \ Range(entries)
             fresh == NewestFirst(new)
             list == fresh \o entries
  <1>1. /\ s \in InFlight /\ f \in Fetches /\ page \in PageState
        /\ log \in Seq(EventTypes) /\ PageSize \in Nat \ {0} /\ Len(log) \in Nat
        /\ DOMAIN log = 1 .. Len(log)
        /\ entries \in Seq(Nat) /\ Range(entries) \subseteq DOMAIN log
        /\ page.cursor \in DOMAIN log \cup {Null}
        /\ rows \in Seq(Nat) /\ Range(rows) \subseteq DOMAIN log
        /\ ~upset => Asked(f) /\ ServedRows(f) /\ Settled
    BY AnswerIs DEF PageState
  <1>2. /\ new \in SUBSET Nat /\ IsFiniteSet(new) /\ new \subseteq DOMAIN log
        /\ new = Range(rows) \ Range(entries)
    <2>1. IsFiniteSet(1 .. Len(log))
      BY <1>1, FS_Interval
    <2> QED
      BY <1>1, <2>1, FS_Subset
  <1> HIDE DEF new, rows
  <1>3. /\ fresh \in Seq(new) /\ fresh \in Seq(Nat) /\ Len(fresh) = Cardinality(new) /\ Cardinality(new) \in Nat
        /\ Range(fresh) = new
    BY <1>2, NewestFirstSorts, ElementsOfSeq
  <1>4. fresh = NewestFirst(new)
    OBVIOUS
  <1> HIDE DEF fresh
  <1>5. list \in Seq(Nat) /\ Range(list) = Range(fresh) \cup Range(entries) /\ list = fresh \o entries
    BY <1>1, <1>3, RangeConcatenation
  <1>6. /\ page' = [page EXCEPT !.entries = list]
        /\ upset' = (upset \/ Len(fresh) = PageSize) /\ upset \in BOOLEAN /\ log' = log
    BY DEF ShowNewest, Done, WebInv, WebState, fresh, new, rows
  <1> HIDE DEF list
  <1>7. /\ page' \in PageState /\ page'.entries = list /\ page'.cursor = page.cursor
        /\ page'.exhausted = page.exhausted /\ page'.filter = page.filter
        /\ page'.hits = page.hits /\ page'.loading = page.loading
    BY <1>1, <1>5, <1>6 DEF PageState
  <1>8. ASSUME ~upset' PROVE Settled'
    <2>1. /\ Asked(f) /\ ServedRows(f) /\ Settled /\ f.filter = page.filter /\ f.before = Null
          /\ Cardinality(new) # PageSize
      BY <1>1, <1>3, <1>6, <1>8 DEF Asked
    <2>2. CASE page.hits # Null
      BY <1>7, <2>1, <2>2 DEF Settled
    <2>3. CASE page.hits = Null
      <3> DEFINE ids == Chosen(page.filter)
      <3>1. Exact(entries, page.exhausted, ids, PageSize) /\ CursorFits
        BY <2>1, <2>3 DEF Settled
      <3>2. PICK n \in Nat : /\ \A j \in Range(entries) : j <= n
                             /\ Top(rows, {i \in ids : i <= n}, PageSize)
        BY <1>1, <2>1, FirstServed DEF rows
      <3>3. ids \in SUBSET Nat
        BY <1>1, ChosenIds
      <3>4. Chosen(page.filter)' = ids
        BY <1>6, <1>7 DEF Chosen
      <3> HIDE DEF ids
      <3>5. /\ Exact(list, page.exhausted, ids, PageSize)
            /\ entries # <<>> => Last(list) = Last(entries)
        <4>1. NewOnTop(ids, PageSize, n, entries, page.exhausted, rows, new)
          BY <1>2, <2>1, <3>1, <3>2 DEF NewOnTop
        <4>2. list = NewestFirst(new) \o entries /\ PageSize \in Nat \ {0}
          BY <1>1, <1>4, <1>5
        <4> QED
          BY <3>3, <4>1, <4>2, NewestExact
      <3>6. entries # <<>> => list # <<>>
        BY <1>1, <1>3, <1>5
      <3>7. CursorFits'
        BY <1>7, <3>1, <3>5, <3>6 DEF CursorFits
      <3> QED
        BY <1>7, <2>3, <3>4, <3>5, <3>7 DEF Settled
    <2> QED
      BY <2>2, <2>3
  <1>9. Range(page'.entries) \subseteq DOMAIN log /\ page'.cursor \in DOMAIN log \cup {Null}
    BY <1>1, <1>2, <1>3, <1>5, <1>7
  <1>10. upset' \in BOOLEAN /\ (upset => upset')
    BY <1>6
  <1>11. page'.loading => page.loading /\ fetches[s].what = "poll"
    BY <1>7
  <1> QED
    BY <1>1, <1>7, <1>8, <1>9, <1>10, <1>11, AnswerKeeps

(* Every step keeps the invariant.                                          *)
LEMMA WebStep == WebInv /\ [WebNext]_webVars => WebInv'
  <1> SUFFICES ASSUME WebInv, [WebNext]_webVars PROVE WebInv'
    OBVIOUS
  <1>1. ASSUME NEW s \in Slots, Deliver(s) PROVE WebInv'
    <2>1. fetches[s] # Null /\ fetches[s].rows # Null /\ Done(s)
      BY <1>1 DEF Deliver
    <2>2. fetches[s].what \in {"first", "more", "poll", "search"}
      BY <2>1, AnswerIs DEF Fetches
    <2>3. \/ fetches[s].what = "first" /\ ShowFirst(s)
          \/ fetches[s].what = "more" /\ ShowMore(s)
          \/ fetches[s].what = "poll" /\ ShowNewest(s)
          \/ fetches[s].what = "search" /\ ShowHits(s)
      BY <1>1, <2>2 DEF Deliver
    <2> QED
      BY <2>1, <2>3, ShowFirstKeeps, ShowMoreKeeps, ShowNewestKeeps, ShowHitsKeeps
  <1>2. CASE UNCHANGED webVars
    <2>1. UNCHANGED <<log, page, fetches, sent, upset>>
      BY <1>2 DEF webVars
    <2>2. WebState'
      BY <2>1 DEF WebInv, WebState, InFlight, FetchFits
    <2>3. LoadingInv'
      BY <2>1 DEF WebInv, LoadingInv, InFlight
    <2>4. InFlight' = InFlight
      BY <2>1 DEF InFlight
    <2>5. \A filter : Chosen(filter)' = Chosen(filter)
      BY <2>1 DEF Chosen
    <2>6. Settled => Settled'
      BY <2>1, <2>5 DEF Settled, CursorFits
    <2>7. \A f : ServedRows(f) => ServedRows(f)'
      BY <2>1, <2>5 DEF ServedRows
    <2>8. \A f : Asked(f) => Asked(f)'
      BY <2>1 DEF Asked
    <2>9. ListInv'
      BY <2>1, <2>4, <2>6, <2>7, <2>8 DEF WebInv, ListInv
    <2> QED
      BY <2>2, <2>3, <2>9 DEF WebInv
  <1> QED
    BY <1>1, <1>2, AskKeeps, RecordKeeps, ServeKeeps, FailKeeps DEF WebNext

(* The invariant says what is shown.                                         *)
LEMMA WebShows == WebInv => PageSound
  <1> SUFFICES ASSUME WebInv PROVE PageSound
    OBVIOUS
  <1>1. WebState /\ page \in PageState /\ log \in Seq(EventTypes)
    BY DEF WebInv, WebState
  <1>2. WebTypeOK
    BY <1>1 DEF WebState, PageState, WebTypeOK
  <1>3. NeverStuck
    BY DEF WebInv, LoadingInv, NeverStuck
  <1>4. ShownExact
    <2> SUFFICES ASSUME ~upset, InFlight = {}
                 PROVE  LET rows == page.entries IN
                        IF page.hits # Null THEN page.hits.facet = page.filter.facet
                        ELSE rows # <<>> =>
                          /\ rows = NewestFirst({i \in Chosen(page.filter) : Last(rows) <= i /\ i <= Head(rows)})
                          /\ page.exhausted => \A i \in Chosen(page.filter) : i >= Last(rows)
      BY DEF ShownExact
    <2>1. Settled
      BY DEF WebInv, ListInv
    <2>2. CASE page.hits # Null
      BY <2>1, <2>2 DEF Settled
    <2>3. CASE page.hits = Null
      <3>1. Exact(page.entries, page.exhausted, Chosen(page.filter), PageSize)
        BY <2>1, <2>3 DEF Settled
      <3>2. Chosen(page.filter) \in SUBSET Nat
        BY <1>1, ChosenIds
      <3> QED
        BY <2>3, <3>1, <3>2, ExactIsShown
    <2> QED
      BY <2>2, <2>3
  <1> QED
    BY <1>2, <1>3, <1>4 DEF PageSound

(* Whatever overtakes what on its way, and whatever fails: the page that waits *)
(* for its answers shows the timeline as the filter has it, or the hits of the *)
(* facet chosen, and no fetch leaves it loading (main.js).                    *)
THEOREM WebPageIsSound == WebSpec => []PageSound
  <1>1. WebInit => WebInv
    BY WebInitial
  <1>2. WebInv /\ [WebNext]_webVars => WebInv'
    BY WebStep
  <1>3. WebInv => PageSound
    BY WebShows
  <1> QED
    BY <1>1, <1>2, <1>3, PTL DEF WebSpec

-----------------------------------------------------------------------------
(* A client's pages (Paging). The log and the order of a statement's rows.     *)
Entries == [file : Files, kind : Kinds, at : 1 .. MaxClock]

LogOK == events \in Seq(Entries)

Monotone == \A i, j \in DOMAIN events : i < j => events[i].at <= events[j].at

(* At least one row and at most MaxLimit.                                   *)
LEMMA LimitIsPositive ==
  ASSUME NEW query, query.limit \in Nat \cup {NoValue}
  PROVE  EffectiveLimit(query) \in Nat \ {0}
  <1> DEFINE limit == IF query.limit = NoValue THEN DefaultLimit ELSE query.limit
             some == IF limit <= MaxLimit THEN limit ELSE MaxLimit
  <1>1. limit \in Nat /\ MaxLimit \in Nat /\ some \in Nat
    BY PagingAssumption
  <1>2. EffectiveLimit(query) = Max({1, Min({limit, MaxLimit})})
    BY DEF EffectiveLimit
  <1> HIDE DEF limit
  <1>3. Min({limit, MaxLimit}) = some
    BY <1>1, MinMaxOfTwo
  <1> HIDE DEF some
  <1>4. Max({1, some}) = IF 1 <= some THEN some ELSE 1
    <2>1. \A a, b \in Int : Max({a, b}) = IF a <= b THEN b ELSE a
      BY MinMaxOfTwo
    <2> QED
      BY <1>1, <2>1
  <1> QED
    BY <1>1, <1>2, <1>3, <1>4

(* What a statement selects are ids of the log.                              *)
LEMMA SelectedIds ==
  ASSUME LogOK, NEW query, NEW before
  PROVE  /\ Len(events) \in Nat /\ DOMAIN events = 1 .. Len(events)
         /\ Selected(query, before) \in SUBSET (1 .. Len(events))
         /\ Selected(query, before) \in SUBSET Nat
         /\ IsFiniteSet(Selected(query, before))
         /\ \A i \in Selected(query, before) : i \in DOMAIN events /\ events[i].at \in Nat
  <1>1. Len(events) \in Nat /\ DOMAIN events = 1 .. Len(events) /\ MaxClock \in Nat
    BY PagingAssumption DEF LogOK
  <1>2. Selected(query, before) \subseteq 1 .. Len(events)
    BY <1>1 DEF Selected
  <1>3. IsFiniteSet(Selected(query, before))
    <2>1. IsFiniteSet(1 .. Len(events))
      BY <1>1, FS_Interval
    <2> QED
      BY <1>2, <2>1, FS_Subset
  <1>4. ASSUME NEW i \in DOMAIN events PROVE events[i].at \in Nat
    <2>1. events[i] \in Entries
      BY <1>1 DEF LogOK
    <2>2. events[i].at \in 1 .. MaxClock
      BY <2>1 DEF Entries
    <2> QED
      BY <1>1, <2>2
  <1> QED
    BY <1>1, <1>2, <1>3, <1>4

(* An order that says of the ids what Newer says has them as Timeline has them. *)
LEMMA InThatOrder ==
  ASSUME NEW ids, IsFiniteSet(ids), NEW r, Orders(r, ids),
         \A i, j \in ids : <<i, j>> \in r <=> Newer(i, j)
  PROVE  InOrder(ids, Newer) = Ranked(r, ids)
  <1> DEFINE newer(i) == {j \in ids : Newer(j, i)}
             s == InOrder(ids, Newer)
             c == Cardinality(ids)
  <1>1. \A i \in ids : newer(i) = Earlier(r, ids, i)
    BY DEF Earlier
  <1>2. s = [n \in 1 .. c |-> CHOOSE i \in ids : Cardinality(newer(i)) = n - 1]
    BY DEF InOrder
  <1> HIDE DEF newer, s
  <1>3. ASSUME NEW n \in 1 .. c PROVE s[n] = Ranked(r, ids)[n]
    <2>1. PICK i \in ids : Cardinality(Earlier(r, ids, i)) = n - 1
      BY RanksAreTaken
    <2>2. Cardinality(newer(i)) = n - 1
      BY <1>1, <2>1
    <2>3. PICK j \in ids : j = s[n] /\ Cardinality(newer(j)) = n - 1
      BY <1>2, <2>2
    <2> QED
      BY <1>1, <2>3, AtItsRank
  <1> QED
    BY <1>2, <1>3 DEF Ranked, s

(* By time, and of one time by id, is an order; while the clock does not go    *)
(* back, it is that of the ids.                                             *)
LEMMA TimelineOrder ==
  ASSUME LogOK, NEW query, NEW before
  PROVE  LET ids == Selected(query, before)
             rows == InOrder(ids, Newer)
         IN /\ rows \in Seq(ids) /\ Len(rows) = Cardinality(ids) /\ Cardinality(ids) \in Nat
            /\ Monotone => rows = NewestFirst(ids)
  <1> DEFINE ids == Selected(query, before)
             r == {p \in ids \X ids : Newer(p[1], p[2])}
             at(i) == events[i].at
  <1>1. /\ ids \in SUBSET Nat /\ IsFiniteSet(ids) /\ \A i \in ids : i \in Nat /\ at(i) \in Nat
        /\ \A i \in ids : i \in DOMAIN events
    BY SelectedIds
  <1>2. \A i, j : Newer(i, j) <=> at(i) > at(j) \/ (at(i) = at(j) /\ i > j)
    BY DEF Newer
  <1> HIDE DEF ids, at
  <1>3. \A i, j \in ids : <<i, j>> \in r <=> Newer(i, j)
    OBVIOUS
  <1> HIDE DEF r
  <1>4. Orders(r, ids)
    <2>1. \A i \in ids : ~ Newer(i, i)
      BY <1>1, <1>2
    <2>2. \A i, j \in ids : i = j \/ Newer(i, j) \/ Newer(j, i)
      BY <1>1, <1>2
    <2>3. \A i, j, k \in ids : Newer(i, j) /\ Newer(j, k) => Newer(i, k)
      BY <1>1, <1>2
    <2> QED
      BY <1>3, <2>1, <2>2, <2>3 DEF Orders
  <1>5. InOrder(ids, Newer) = Ranked(r, ids)
    BY <1>1, <1>3, <1>4, InThatOrder
  <1>6. InOrder(ids, Newer) \in Seq(ids) /\ Len(InOrder(ids, Newer)) = Cardinality(ids)
        /\ Cardinality(ids) \in Nat
    BY <1>1, <1>4, <1>5, RankedSorts
  <1>7. ASSUME Monotone PROVE InOrder(ids, Newer) = NewestFirst(ids)
    <2>1. \A i, j \in ids : i < j => at(i) <= at(j)
      BY <1>1, <1>7 DEF Monotone, at
    <2>2. \A i, j \in ids : Newer(i, j) <=> i > j
      BY <1>1, <1>2, <2>1
    <2>3. /\ \A i, j \in ids : <<i, j>> \in Greater <=> i > j
          /\ Orders(Greater, ids) /\ NewestFirst(ids) = Ranked(Greater, ids)
      BY <1>1, GreaterOrders
    <2>4. InOrder(ids, Newer) = Ranked(Greater, ids)
      BY <1>1, <2>2, <2>3, InThatOrder
    <2> QED
      BY <2>3, <2>4
  <1> QED
    BY <1>6, <1>7 DEF ids

(* A page: rows the statement selects, one at least if there is one, and        *)
(* while the clock does not go back the newest of them.                      *)
LEMMA PageOfTimeline ==
  ASSUME LogOK, NEW query, query.limit \in Nat \cup {NoValue}, NEW before
  PROVE  LET ids == Selected(query, before)
             rows == Timeline(query, before)
         IN /\ rows \in Seq(ids)
            /\ ids # {} => rows # <<>>
            /\ Monotone => Top(rows, ids, EffectiveLimit(query))
  <1> DEFINE ids == Selected(query, before)
             rows == Timeline(query, before)
             sorted == InOrder(ids, Newer)
             limit == EffectiveLimit(query)
  <1>1. limit \in Nat \ {0}
    BY LimitIsPositive
  <1>2. /\ sorted \in Seq(ids) /\ Len(sorted) = Cardinality(ids) /\ Cardinality(ids) \in Nat
        /\ Monotone => sorted = NewestFirst(ids)
    BY TimelineOrder
  <1>3. ids \in SUBSET Nat /\ IsFiniteSet(ids)
    BY SelectedIds
  <1>4. rows = FirstRows(sorted, limit)
    BY DEF Timeline
  <1> HIDE DEF ids, rows, sorted, limit
  <1>5. rows \in Seq(ids) /\ Len(rows) = IF Len(sorted) <= limit THEN Len(sorted) ELSE limit
    BY <1>1, <1>2, <1>4, FirstRowsOf
  <1>6. ids # {} => rows # <<>>
    <2> SUFFICES ASSUME ids # {} PROVE Len(rows) # 0
      BY <1>5
    <2>1. Cardinality(ids) # 0
      BY <1>3, FS_EmptySet
    <2> QED
      BY <1>1, <1>2, <1>5, <2>1
  <1>7. Monotone => Top(rows, ids, limit)
    BY <1>1, <1>2, <1>3, <1>4, PageIsTop
  <1> QED
    BY <1>5, <1>6, <1>7 DEF ids, rows, limit

-----------------------------------------------------------------------------
(* What the client has, what its cursor says of it, and whose facets there are. *)
Readers == [pc : {"idle", "read", "done"}, query : Queries \cup {NoValue}, before : Nat,
            shown : Seq(Nat), answer : {200, 400}]

PagingState ==
  /\ LogOK
  /\ facet \in [Files -> Values \cup {NoValue}]
  /\ reader \in Readers
  /\ reader.pc # "idle" => reader.query \in Queries
  /\ reader.pc = "idle" => reader.shown = <<>> /\ reader.before = 0
  /\ reader.before \in 0 .. Len(events)
  /\ reader.shown # <<>> => reader.before \in Range(reader.shown)
  /\ Range(reader.shown) \subseteq DOMAIN events
  /\ begun \in 0 .. Len(events)
  /\ touched \subseteq Files

(* Only a file of the log has a value.                                       *)
FacetsOfEvents == \A f \in Files : facet[f] # NoValue => \E i \in DOMAIN events : events[i].file = f

(* What is wanted is shown, or comes below the cursor.                        *)
ShownInv ==
  Monotone /\ reader.pc # "idle" =>
    /\ Falling(reader.shown)
    /\ \A i \in Range(reader.shown) : reader.before <= i
    /\ \A i \in Range(reader.shown) :
         events[i].file \notin touched => i \in Selected(reader.query, 0)
    /\ reader.answer = 200 =>
         \A i \in Selected(reader.query, 0) :
           i <= begun /\ events[i].file \notin touched =>
             \/ i \in Range(reader.shown)
             \/ reader.pc = "read" /\ (reader.before # 0 => i < reader.before)

PagingInv == PagingState /\ FacetsOfEvents /\ ShownInv

(* What selects an id, by the file it is of.                                  *)
LEMMA WhatSelects ==
  ASSUME NEW query, NEW before
  PROVE  \A i : i \in Selected(query, before) <=>
                  /\ i \in DOMAIN events
                  /\ before # 0 => i < before
                  /\ query.kind # NoValue => events[i].kind = query.kind
                  /\ query.value # NoValue => facet[events[i].file] = query.value
  BY DEF Selected

(* Files counted are a number.                                              *)
LEMMA CountIsNat ==
  ASSUME NEW v
  PROVE  CountOf(v) \in Nat /\ (CountOf(v) > 0 => \E f \in Files : facet[f] = v)
  <1> DEFINE having == {f \in Files : facet[f] = v}
  <1>1. having \subseteq Files /\ IsFiniteSet(Files)
    BY PagingAssumption
  <1>2. IsFiniteSet(having) /\ CountOf(v) = Cardinality(having)
    BY <1>1, FS_Subset DEF CountOf
  <1>3. CountOf(v) \in Nat
    BY <1>2, FS_CardinalityType
  <1>4. ASSUME CountOf(v) > 0 PROVE having # {}
    BY <1>2, <1>4, FS_EmptySet
  <1> QED
    BY <1>3, <1>4

(* An offered value is the first of those that are left.                      *)
LEMMA WhatIsOffered ==
  ASSUME NEW offered \in DistinctFacets, NEW v \in Range(offered)
  PROVE  /\ v \in Values /\ CountOf(v) > 0
         /\ \A w \in Values \ Range(offered) : CountOf(w) <= CountOf(v)
  <1> DEFINE some == {w \in Values : CountOf(w) > 0}
             l == Cardinality(some)
  <1>1. PICK vs \in SetToSeqs(some) :
          /\ \A i, j \in DOMAIN vs : i < j => CountOf(vs[i]) >= CountOf(vs[j])
          /\ offered = FirstRows(vs, MaxFacets)
    BY DEF DistinctFacets
  <1>2. \A w \in some : w \in Values /\ CountOf(w) > 0
    OBVIOUS
  <1>3. \A w \in Values : w \in some \/ ~ (CountOf(w) > 0)
    OBVIOUS
  <1>4. IsFiniteSet(some) /\ l \in Nat
    <2>1. some \subseteq Values /\ IsFiniteSet(Values)
      BY PagingAssumption
    <2> QED
      BY <2>1, FS_Subset, FS_CardinalityType
  <1> HIDE DEF some
  <1>5. vs \in [1 .. l -> some] /\ \A i, j \in 1 .. l : i # j => vs[i] # vs[j]
    BY DEF SetToSeqs
  <1>6. vs \in Seq(some) /\ Len(vs) = l /\ DOMAIN vs = 1 .. l
    BY <1>4, <1>5
  <1>7. vs \in Surjection(1 .. l, some)
    <2>1. vs \in Injection(1 .. l, some)
      BY <1>5 DEF Injection, IsInjective
    <2>2. IsFiniteSet(1 .. l) /\ Cardinality(1 .. l) = l
      BY <1>4, FS_Interval
    <2> QED
      BY <1>4, <2>1, <2>2, FS_Injection
  <1> DEFINE k == Len(offered)
  <1>8. /\ offered \in Seq(some) /\ k <= l /\ k \in Nat /\ DOMAIN offered = 1 .. k
        /\ \A n \in 1 .. k : offered[n] = vs[n]
    <2>1. MaxFacets \in Nat
      BY PagingAssumption
    <2>2. /\ offered \in Seq(some) /\ k = IF l <= MaxFacets THEN l ELSE MaxFacets
          /\ \A n \in 1 .. k : offered[n] = vs[n]
      BY <1>1, <1>6, <2>1, FirstRowsOf
    <2> QED
      BY <1>4, <2>1, <2>2
  <1> HIDE DEF k, l
  <1>9. PICK n \in 1 .. k : v = vs[n]
    BY <1>8 DEF Range
  <1>10. n \in 1 .. l /\ v \in some
    BY <1>4, <1>5, <1>8, <1>9
  <1>11. ASSUME NEW w \in Values, w \notin Range(offered) PROVE CountOf(w) <= CountOf(v)
    <2>1. CountOf(w) \in Nat /\ CountOf(v) \in Nat
      BY CountIsNat
    <2>2. CASE w \notin some
      BY <1>2, <1>3, <1>10, <2>1, <2>2
    <2>3. CASE w \in some
      <3>1. PICK m \in 1 .. l : vs[m] = w
        BY <1>7, <2>3 DEF Surjection
      <3>2. ~ (m \in 1 .. k)
        BY <1>8, <1>11, <3>1 DEF Range
      <3>3. n < m
        BY <1>4, <1>8, <1>10, <3>2
      <3>4. CountOf(vs[n]) >= CountOf(vs[m])
        BY <1>1, <1>6, <1>10, <3>3
      <3> QED
        BY <1>9, <2>1, <3>1, <3>4
    <2> QED
      BY <2>2, <2>3
  <1> QED
    BY <1>2, <1>10, <1>11

(* A value of a file of the log selects one of its events.                    *)
LEMMA OfferedSelects == PagingState /\ FacetsOfEvents => FacetsSelect
  <1> SUFFICES ASSUME PagingState, FacetsOfEvents, NEW offered \in DistinctFacets, NEW v \in Range(offered)
               PROVE  LET query == [limit |-> NoValue, kind |-> NoValue, value |-> v] IN
                      /\ ~Refused(query) => Timeline(query, 0) # <<>>
                      /\ \A w \in Values \ Range(offered) : CountOf(w) <= CountOf(v)
    BY DEF FacetsSelect
  <1> DEFINE query == [limit |-> NoValue, kind |-> NoValue, value |-> v]
  <1>1. /\ v \in Values /\ CountOf(v) > 0
        /\ \A w \in Values \ Range(offered) : CountOf(w) <= CountOf(v)
    BY WhatIsOffered
  <1>2. PICK f \in Files : facet[f] = v
    BY <1>1, CountIsNat
  <1>3. v # NoValue
    BY <1>1, PagingAssumption
  <1>4. PICK i \in DOMAIN events : events[i].file = f
    BY <1>2, <1>3 DEF FacetsOfEvents
  <1>5. query.limit = NoValue /\ query.kind = NoValue /\ query.value = v
    OBVIOUS
  <1> HIDE DEF query
  <1>6. i \in Selected(query, 0)
    BY <1>2, <1>4, <1>5, WhatSelects
  <1>7. Timeline(query, 0) # <<>>
    BY <1>5, <1>6, PageOfTimeline DEF PagingState
  <1> QED
    BY <1>1, <1>7 DEF query

(* Nothing is recorded at first, and nobody reads.                            *)
LEMMA PagingInitial == PagingInit => PagingInv
  <1> SUFFICES ASSUME PagingInit PROVE PagingInv
    OBVIOUS
  <1>1. /\ events = <<>> /\ facet = [f \in Files |-> NoValue] /\ begun = 0 /\ touched = {}
        /\ reader = [pc |-> "idle", query |-> NoValue, before |-> 0, shown |-> <<>>, answer |-> 200]
    BY DEF PagingInit
  <1>2. events \in Seq(Entries) /\ Len(events) = 0
    BY <1>1
  <1>3. /\ reader.pc = "idle" /\ reader.shown = <<>> /\ reader.before = 0
        /\ reader \in Readers
    BY <1>1 DEF Readers
  <1>4. Range(reader.shown) = {}
    BY <1>3 DEF Range
  <1>5. PagingState
    BY <1>1, <1>2, <1>3, <1>4 DEF PagingState, LogOK
  <1>6. FacetsOfEvents /\ ShownInv
    BY <1>1, <1>3 DEF FacetsOfEvents, ShownInv
  <1> QED
    BY <1>5, <1>6 DEF PagingInv

(* What is recorded comes after what was there when the read began.           *)
LEMMA RecordEventKeeps == PagingInv /\ RecordEvent => PagingInv'
  <1> SUFFICES ASSUME PagingInv, RecordEvent PROVE PagingInv'
    OBVIOUS
  <1> DEFINE l == Len(events)
  <1>1. PagingState /\ LogOK /\ UNCHANGED <<facet, reader, begun, touched>>
    BY DEF PagingInv, PagingState, RecordEvent
  <1>2. PICK e \in Entries : events' = Append(events, e)
    BY DEF RecordEvent, Entries
  <1>3. /\ l \in Nat /\ events \in Seq(Entries) /\ DOMAIN events = 1 .. l
        /\ events' \in Seq(Entries) /\ Len(events') = l + 1 /\ DOMAIN events' = 1 .. l + 1
        /\ \A i \in 1 .. l : events'[i] = events[i]
    BY <1>1, <1>2 DEF LogOK
  <1>4. DOMAIN events \subseteq DOMAIN events' /\ \A i \in 0 .. l : i \in 0 .. l + 1
    BY <1>3
  <1>5. PagingState'
    BY <1>1, <1>3, <1>4 DEF PagingState, LogOK
  <1>6. FacetsOfEvents'
    <2> SUFFICES ASSUME NEW f \in Files, facet[f] # NoValue
                 PROVE  \E i \in DOMAIN events' : events'[i].file = f
      BY <1>1 DEF FacetsOfEvents
    <2>1. PICK i \in DOMAIN events : events[i].file = f
      BY DEF PagingInv, FacetsOfEvents
    <2> QED
      BY <1>3, <1>4, <2>1
  <1>7. ShownInv'
    <2> SUFFICES ASSUME Monotone', reader.pc # "idle" PROVE ShownInv'
      BY <1>1 DEF ShownInv
    <2>1. Monotone
      BY <1>3, <1>4 DEF Monotone
    <2> DEFINE old == Selected(reader.query, 0)
               new == Selected(reader.query, 0)'
    <2>2. \A i \in 1 .. l : i \in new <=> i \in old
      <3>1. \A i : i \in new <=>
              /\ i \in DOMAIN events'
              /\ reader.query.kind # NoValue => events'[i].kind = reader.query.kind
              /\ reader.query.value # NoValue => facet[events'[i].file] = reader.query.value
        BY <1>1 DEF Selected
      <3> QED
        BY <1>3, <1>4, <3>1, WhatSelects
    <2> HIDE DEF old, new
    <2>3. /\ Falling(reader.shown)
          /\ \A i \in Range(reader.shown) : reader.before <= i
          /\ \A i \in Range(reader.shown) : events[i].file \notin touched => i \in old
          /\ reader.answer = 200 =>
               \A i \in old : i <= begun /\ events[i].file \notin touched =>
                 \/ i \in Range(reader.shown)
                 \/ reader.pc = "read" /\ (reader.before # 0 => i < reader.before)
      BY <2>1 DEF PagingInv, ShownInv, old
    <2>4. \A i \in Range(reader.shown) : i \in 1 .. l
      BY <1>1, <1>3 DEF PagingState
    <2>5. \A i \in Range(reader.shown) : events'[i].file \notin touched => i \in new
      BY <1>3, <2>2, <2>3, <2>4
    <2>6. \A i \in new : i <= begun => i \in 1 .. l
      <3>1. begun \in Nat /\ begun <= l
        BY <1>1, <1>3 DEF PagingState
      <3>2. \A i \in new : i \in 1 .. l + 1
        BY <1>3, <1>1 DEF Selected, new
      <3> QED
        BY <1>3, <3>1, <3>2
    <2>7. reader.answer = 200 =>
            \A i \in new : i <= begun /\ events'[i].file \notin touched =>
              \/ i \in Range(reader.shown)
              \/ reader.pc = "read" /\ (reader.before # 0 => i < reader.before)
      BY <1>3, <2>2, <2>3, <2>6
    <2> QED
      BY <1>1, <2>3, <2>5, <2>7 DEF ShownInv, new
  <1> QED
    BY <1>5, <1>6, <1>7 DEF PagingInv

(* A file whose facet changes is touched, if anybody reads.                   *)
LEMMA ExtractFacetKeeps == PagingInv /\ ExtractFacet => PagingInv'
  <1> SUFFICES ASSUME PagingInv, ExtractFacet PROVE PagingInv'
    OBVIOUS
  <1>1. PagingState /\ LogOK /\ UNCHANGED <<events, reader, begun>>
    BY DEF PagingInv, PagingState, ExtractFacet
  <1>2. PICK j \in DOMAIN events, v \in Values \cup {NoValue} :
          /\ facet' = [facet EXCEPT ![events[j].file] = v]
          /\ touched' = IF reader.pc = "idle" THEN touched ELSE touched \cup {events[j].file}
    BY DEF ExtractFacet
  <1>3. /\ facet \in [Files -> Values \cup {NoValue}] /\ touched \subseteq Files
        /\ events \in Seq(Entries) /\ DOMAIN events = 1 .. Len(events)
    BY <1>1 DEF PagingState, LogOK
  <1>4. \A i \in DOMAIN events : events[i].file \in Files
    <2>1. \A i \in DOMAIN events : events[i] \in Entries
      BY <1>3
    <2> QED
      BY <2>1 DEF Entries
  <1> DEFINE file == events[j].file
  <1>5. file \in Files
    BY <1>4
  <1>6. facet' \in [Files -> Values \cup {NoValue}] /\ \A f \in Files \ {file} : facet'[f] = facet[f]
    BY <1>2, <1>3, <1>5
  <1>7. PagingState'
    BY <1>1, <1>2, <1>3, <1>5, <1>6 DEF PagingState, LogOK
  <1>8. FacetsOfEvents'
    <2> SUFFICES ASSUME NEW f \in Files, facet'[f] # NoValue
                 PROVE  \E i \in DOMAIN events : events[i].file = f
      BY <1>1 DEF FacetsOfEvents
    <2>1. CASE f = file
      BY <2>1
    <2>2. CASE f # file
      BY <1>6, <2>2 DEF PagingInv, FacetsOfEvents
    <2> QED
      BY <2>1, <2>2
  <1>9. ShownInv'
    <2> SUFFICES ASSUME Monotone, reader.pc # "idle" PROVE ShownInv'
      BY <1>1 DEF ShownInv, Monotone
    <2> DEFINE old == Selected(reader.query, 0)
               new == Selected(reader.query, 0)'
    <2>1. touched' = touched \cup {file}
      BY <1>2
    <2> HIDE DEF file
    <2>2. \A i \in DOMAIN events : events[i].file \notin touched' => (i \in new <=> i \in old)
      <3>1. \A i : i \in new <=>
              /\ i \in DOMAIN events
              /\ reader.query.kind # NoValue => events[i].kind = reader.query.kind
              /\ reader.query.value # NoValue => facet'[events[i].file] = reader.query.value
        BY <1>1 DEF Selected
      <3>2. \A i \in DOMAIN events : events[i].file \notin touched' => facet'[events[i].file] = facet[events[i].file]
        BY <1>4, <1>6, <2>1
      <3> QED
        BY <3>1, <3>2, WhatSelects
    <2>3. \A i \in new : i \in DOMAIN events
      BY <1>1 DEF Selected
    <2> HIDE DEF old, new
    <2>4. /\ Falling(reader.shown)
          /\ \A i \in Range(reader.shown) : reader.before <= i
          /\ \A i \in Range(reader.shown) : events[i].file \notin touched => i \in old
          /\ reader.answer = 200 =>
               \A i \in old : i <= begun /\ events[i].file \notin touched =>
                 \/ i \in Range(reader.shown)
                 \/ reader.pc = "read" /\ (reader.before # 0 => i < reader.before)
      BY DEF PagingInv, ShownInv, old
    <2>5. \A i \in Range(reader.shown) : events[i].file \notin touched' => i \in new
      <3>1. \A i \in Range(reader.shown) : i \in DOMAIN events
        BY <1>1 DEF PagingState
      <3> QED
        BY <2>1, <2>2, <2>4, <3>1
    <2>6. reader.answer = 200 =>
            \A i \in new : i <= begun /\ events[i].file \notin touched' =>
              \/ i \in Range(reader.shown)
              \/ reader.pc = "read" /\ (reader.before # 0 => i < reader.before)
      BY <2>1, <2>2, <2>3, <2>4
    <2> QED
      BY <1>1, <2>4, <2>5, <2>6 DEF ShownInv, new
  <1> QED
    BY <1>7, <1>8, <1>9 DEF PagingInv

(* A read begins with nothing shown.                                        *)
LEMMA StartReadKeeps == PagingInv /\ StartRead => PagingInv'
  <1> SUFFICES ASSUME PagingInv, StartRead PROVE PagingInv'
    OBVIOUS
  <1>1. /\ PagingState /\ LogOK /\ UNCHANGED <<events, facet, touched>> /\ reader.pc = "idle"
        /\ begun' = Len(events) /\ Len(events) \in Nat
    BY DEF PagingInv, PagingState, StartRead, LogOK
  <1>2. PICK query \in Queries :
          reader' = IF Refused(query)
                    THEN [reader EXCEPT !.pc = "done", !.query = query, !.answer = 400]
                    ELSE [reader EXCEPT !.pc = "read", !.query = query]
    BY DEF StartRead
  <1>3. reader.shown = <<>> /\ reader.before = 0
    BY <1>1 DEF PagingState
  <1>4. reader \in Readers
    BY <1>1 DEF PagingState
  <1>5. /\ reader' \in Readers
        /\ reader'.shown = <<>> /\ reader'.before = 0 /\ reader'.query \in Queries
        /\ reader'.pc = "read" \/ reader'.answer = 400
        /\ reader'.pc # "idle"
    <2>1. CASE Refused(query)
      <3>1. reader' = [reader EXCEPT !.pc = "done", !.query = query, !.answer = 400]
        BY <1>2, <2>1
      <3>2. /\ reader'.pc = "done" /\ reader'.query = query /\ reader'.before = 0 /\ reader'.shown = <<>>
            /\ reader'.answer = 400
        BY <1>3, <1>4, <3>1 DEF Readers
      <3>3. reader' \in Readers
        <4>1. PICK to \in Readers : to = [reader EXCEPT !.pc = "done", !.query = query]
          BY <1>4, ZenonT(60) DEF Readers
        <4>2. [to EXCEPT !.answer = 400] \in Readers
          BY DEF Readers
        <4>3. reader' = [to EXCEPT !.answer = 400]
          BY <1>4, <3>1, <4>1 DEF Readers
        <4> QED
          BY <4>2, <4>3
      <3> QED
        BY <3>2, <3>3
    <2>2. CASE ~Refused(query)
      <3>1. reader' = [reader EXCEPT !.pc = "read", !.query = query]
        BY <1>2, <2>2
      <3>2. /\ reader'.pc = "read" /\ reader'.query = query /\ reader'.before = 0 /\ reader'.shown = <<>>
            /\ reader'.answer = reader.answer
        BY <1>3, <1>4, <3>1 DEF Readers
      <3>3. reader' \in Readers
        BY <1>4, <3>1, ZenonT(60) DEF Readers
      <3> QED
        BY <3>2, <3>3
    <2> QED
      BY <2>1, <2>2
  <1>6. Range(reader'.shown) = {}
    BY <1>5 DEF Range
  <1>7. PagingState'
    BY <1>1, <1>5, <1>6 DEF PagingState, LogOK
  <1>8. FacetsOfEvents'
    BY <1>1 DEF PagingInv, FacetsOfEvents
  <1>9. ShownInv'
    <2>1. Falling(reader'.shown)
      BY <1>5 DEF Falling
    <2> QED
      BY <1>5, <1>6, <2>1 DEF ShownInv
  <1> QED
    BY <1>7, <1>8, <1>9 DEF PagingInv

(* A page continues what is shown, and all that is wanted is shown or below it. *)
LEMMA ReadPageKeeps == PagingInv /\ ReadPage => PagingInv'
  <1> SUFFICES ASSUME PagingInv, ReadPage PROVE PagingInv'
    OBVIOUS
  <1> DEFINE query == reader.query
             before == reader.before
             shown == reader.shown
             rows == Timeline(query, before)
             ids == Selected(query, before)
             all == Selected(query, 0)
             limit == EffectiveLimit(query)
  <1>1. /\ PagingState /\ LogOK /\ UNCHANGED <<events, facet, begun, touched>>
        /\ reader.pc = "read" /\ reader \in Readers /\ query \in Queries /\ shown \in Seq(Nat)
        /\ before \in Nat /\ Range(shown) \subseteq DOMAIN events
        /\ (shown # <<>> => before \in Range(shown))
    BY DEF PagingInv, PagingState, ReadPage, Readers
  <1>2. reader' = IF rows = <<>> THEN [reader EXCEPT !.pc = "done"]
                  ELSE [reader EXCEPT !.shown = shown \o rows, !.before = Last(rows)]
    BY DEF ReadPage, NextBeforeId
  <1>3. query.limit \in Nat \cup {NoValue}
    BY <1>1, PagingAssumption DEF Queries
  <1>4. limit \in Nat \ {0}
    BY <1>3, LimitIsPositive
  <1>5. /\ rows \in Seq(ids) /\ (ids # {} => rows # <<>>)
        /\ Monotone => Top(rows, ids, limit)
    BY <1>1, <1>3, PageOfTimeline
  <1>6. /\ ids \in SUBSET Nat /\ Len(events) \in Nat /\ DOMAIN events = 1 .. Len(events)
        /\ \A i \in ids : i \in Nat /\ i \in DOMAIN events
    BY <1>1, SelectedIds
  <1>7. /\ \A i : i \in ids <=> i \in all /\ (before # 0 => i < before)
        /\ \A i \in all : i \in DOMAIN events /\ i \in Nat
    <2>1. \A i : i \in ids <=> i \in all /\ (before # 0 => i < before)
      BY WhatSelects
    <2> QED
      BY <1>1, <2>1, SelectedIds
  <1> HIDE DEF query, before, shown, rows, ids, all, limit
  <1>8. rows \in Seq(Nat) /\ \A i \in Range(rows) : i \in ids /\ i \in DOMAIN events /\ i \in Nat
    BY <1>5, <1>6, ElementsOfSeq
  <1>9. ASSUME reader'.query = query PROVE Selected(reader.query, 0)' = all
    BY <1>1, <1>9 DEF Selected, all, query
  <1>10. Monotone /\ reader.answer = 200 =>
           \A i \in all : i <= begun /\ events[i].file \notin touched =>
             i \in Range(shown) \/ (before # 0 => i < before)
    BY <1>1 DEF PagingInv, ShownInv, all, query, before, shown
  <1>11. Monotone =>
           /\ Falling(shown)
           /\ \A i \in Range(shown) : before <= i
           /\ \A i \in Range(shown) : events[i].file \notin touched => i \in all
    BY <1>1 DEF PagingInv, ShownInv, all, query, before, shown
  <1>12. FacetsOfEvents'
    BY <1>1 DEF PagingInv, FacetsOfEvents
  <1>13. CASE rows = <<>>
    <2>1. /\ reader' \in Readers /\ reader'.pc = "done" /\ reader'.query = query /\ reader'.before = before
          /\ reader'.shown = shown /\ reader'.answer = reader.answer
      BY <1>1, <1>2, <1>13 DEF Readers, query, before, shown
    <2>2. PagingState'
      BY <1>1, <2>1 DEF PagingState, LogOK, before, shown
    <2>3. Monotone /\ reader.answer = 200 =>
            \A i \in all : i <= begun /\ events[i].file \notin touched => i \in Range(shown)
      BY <1>5, <1>7, <1>10, <1>13
    <2>4. ShownInv'
      BY <1>1, <1>9, <1>11, <2>1, <2>3 DEF ShownInv, Monotone
    <2> QED
      BY <1>12, <2>2, <2>4 DEF PagingInv
  <1>14. CASE rows # <<>>
    <2> DEFINE last == Last(rows)
               list == shown \o rows
    <2>1. last \in Range(rows) /\ last \in Nat /\ last \in ids /\ last \in DOMAIN events
      BY <1>8, <1>14, LastIsThere
    <2>2. list \in Seq(Nat) /\ Range(list) = Range(shown) \cup Range(rows) /\ list # <<>>
      <3>1. list \in Seq(Nat) /\ list # <<>>
        BY <1>1, <1>8, <1>14
      <3>2. Range(list) = Range(shown) \cup Range(rows)
        BY <1>1, <1>8, RangeConcatenation
      <3> QED
        BY <3>1, <3>2
    <2>3. reader' = [reader EXCEPT !.shown = list, !.before = last]
      BY <1>2, <1>14
    <2> HIDE DEF last, list
    <2>4. /\ reader' \in Readers /\ reader'.pc = "read" /\ reader'.query = query /\ reader'.before = last
          /\ reader'.shown = list /\ reader'.answer = reader.answer
      BY <1>1, <2>1, <2>2, <2>3, ZenonT(60) DEF Readers, query
    <2>5. PagingState'
      <3>1. last \in 0 .. Len(events)
        BY <1>6, <2>1
      <3>2. last \in Range(list) /\ Range(list) \subseteq DOMAIN events
        BY <1>1, <1>8, <2>1, <2>2
      <3> QED
        BY <1>1, <2>4, <3>1, <3>2 DEF PagingState, LogOK, query
    <2>6. ASSUME Monotone
          PROVE  /\ Falling(list)
                 /\ \A i \in Range(list) : last <= i
                 /\ \A i \in Range(list) : events[i].file \notin touched => i \in all
                 /\ reader.answer = 200 =>
                      \A i \in all : i <= begun /\ events[i].file \notin touched =>
                        i \in Range(list) \/ i < last
      <3>1. Top(rows, ids, limit) /\ Falling(rows)
        BY <1>5, <2>6 DEF Top
      <3>2. /\ Falling(shown)
            /\ \A i \in Range(shown) : before <= i /\ i \in Nat
            /\ \A i \in Range(shown) : events[i].file \notin touched => i \in all
        BY <1>1, <1>6, <1>11, <2>6
      <3>3. ASSUME NEW i \in Range(shown), NEW j \in Range(rows) PROVE i > j
        <4>1. shown # <<>>
          BY DEF Range
        <4>2. before \in DOMAIN events /\ before # 0
          BY <1>1, <1>6, <4>1
        <4>3. j < before /\ j \in Nat /\ before <= i /\ i \in Nat /\ before \in Nat
          BY <1>1, <1>7, <1>8, <3>2, <4>2
        <4> QED
          BY <4>3
      <3>4. Falling(list)
        BY <1>1, <1>8, <3>1, <3>2, <3>3, OneOnTheOther DEF list
      <3>5. \A i \in Range(rows) : last <= i
        BY <1>8, <1>14, <3>1, BetweenFirstAndLast DEF last
      <3>6. \A i \in Range(list) : last <= i
        BY <2>1, <2>2, <3>2, <3>3, <3>5
      <3>7. \A i \in Range(list) : events[i].file \notin touched => i \in all
        BY <1>7, <1>8, <2>2, <3>2
      <3>8. ASSUME reader.answer = 200, NEW i \in all, i <= begun, events[i].file \notin touched,
                   i \notin Range(list)
            PROVE  i < last
        <4>1. i \in ids /\ i \notin Range(rows)
          BY <1>7, <1>10, <2>2, <2>6, <3>8
        <4>2. last > i
          BY <2>1, <3>1, <4>1 DEF Top
        <4> QED
          BY <1>7, <2>1, <4>2
      <3> QED
        BY <3>4, <3>6, <3>7, <3>8
    <2>7. ShownInv'
      BY <1>1, <1>9, <2>4, <2>6 DEF ShownInv, Monotone
    <2> QED
      BY <1>12, <2>5, <2>7 DEF PagingInv
  <1> QED
    BY <1>13, <1>14

(* Every step keeps the invariant.                                          *)
LEMMA PagingStep == PagingInv /\ [PagingNext]_pagingVars => PagingInv'
  <1> SUFFICES ASSUME PagingInv, [PagingNext]_pagingVars PROVE PagingInv'
    OBVIOUS
  <1>1. CASE UNCHANGED pagingVars
    <2>1. UNCHANGED <<events, facet, reader, begun, touched>>
      BY <1>1 DEF pagingVars
    <2>2. PagingState'
      BY <2>1 DEF PagingInv, PagingState, LogOK
    <2>3. FacetsOfEvents'
      BY <2>1 DEF PagingInv, FacetsOfEvents
    <2>4. Selected(reader.query, 0)' = Selected(reader.query, 0)
      BY <2>1 DEF Selected
    <2>5. ShownInv'
      BY <2>1, <2>4 DEF PagingInv, ShownInv, Monotone
    <2> QED
      BY <2>2, <2>3, <2>5 DEF PagingInv
  <1> QED
    BY <1>1, RecordEventKeeps, ExtractFacetKeeps, StartReadKeeps, ReadPageKeeps DEF PagingNext

(* The invariant says what a client is shown.                                 *)
LEMMA PagingShows == PagingInv => PagingSound
  <1> SUFFICES ASSUME PagingInv PROVE PagingSound
    OBVIOUS
  <1>1. PagingState /\ FacetsOfEvents
    BY DEF PagingInv
  <1>2. PagingTypeOK
    BY <1>1 DEF PagingState, LogOK, Entries, Readers, PagingTypeOK
  <1>3. PagesExact
    <2> SUFFICES ASSUME Monotone, reader.pc # "idle", reader.answer = 200
                 PROVE  LET wanted == {i \in Selected(reader.query, 0) : events[i].file \notin touched}
                            shown == Range(reader.shown)
                        IN /\ \A i, j \in DOMAIN reader.shown : i < j => reader.shown[i] > reader.shown[j]
                           /\ {i \in shown : events[i].file \notin touched} \subseteq wanted
                           /\ reader.pc = "done" => {i \in wanted : i <= begun} \subseteq shown
      BY DEF PagesExact, Monotone
    <2>1. /\ Falling(reader.shown)
          /\ \A i \in Range(reader.shown) :
               events[i].file \notin touched => i \in Selected(reader.query, 0)
          /\ reader.pc = "done" =>
               \A i \in Selected(reader.query, 0) :
                 i <= begun /\ events[i].file \notin touched => i \in Range(reader.shown)
      BY DEF PagingInv, ShownInv
    <2>2. \A i, j \in DOMAIN reader.shown : i < j => reader.shown[i] > reader.shown[j]
      BY <2>1 DEF Falling
    <2> QED
      BY <2>1, <2>2
  <1>4. FacetsSelect
    BY <1>1, OfferedSelects
  <1> QED
    BY <1>2, <1>3, <1>4 DEF PagingSound

(* A client that pages while events are recorded and facets extracted is shown, *)
(* in order and once, what its filter selects of what was there when it began   *)
(* and nobody changed since, and at its end all of that, if the clock did not  *)
(* go back; and what it is offered to filter by selects a row (events.rs       *)
(* `timeline`, store_adapter.rs, metadata.rs `distinct_facets`).               *)
THEOREM PagesAreSound == PagingSpec => []PagingSound
  <1>1. PagingInit => PagingInv
    BY PagingInitial
  <1>2. PagingInv /\ [PagingNext]_pagingVars => PagingInv'
    BY PagingStep
  <1>3. PagingInv => PagingSound
    BY PagingShows
  <1> QED
    BY <1>1, <1>2, <1>3, PTL DEF PagingSpec

-----------------------------------------------------------------------------
(* A search by meaning, statement by statement. Both tables are in step; what  *)
(* was scored are candidates, one hit for each; and as long as nothing was      *)
(* stored since the first pass, the candidates' signs differ least and the      *)
(* distances are those of the vectors there are.                             *)

SearchState ==
  /\ SearchTypeOK
  /\ bins = [d \in Docs |-> IF floats[d] = None THEN None ELSE Quantized(floats[d])]
  /\ IsFiniteSet(Stored)
  /\ search = [pc |-> search.pc, vector |-> search.vector, limit |-> search.limit,
               filter |-> search.filter, candidates |-> search.candidates,
               scored |-> search.scored, hits |-> search.hits, answer |-> search.answer]
  /\ search.limit \in Nat
  /\ search.pc # "done" => search.hits = <<>>

ScoredInv ==
  /\ search.pc \in {"idle", "embedding", "pass"} => search.scored = {} /\ ~disturbed
  /\ IsFiniteSet(search.scored)
  /\ \A h \in search.scored : h.doc \in search.candidates
  /\ \A h, k \in search.scored : h.doc = k.doc => h = k
  /\ search.pc = "latest" => \A d \in search.candidates : \E h \in search.scored : h.doc = d

Differ(d) == Hamming(bins[d], Quantized(search.vector))

Undisturbed ==
  /\ search.candidates \subseteq Stored
  /\ \A d \in search.candidates, e \in Stored \ search.candidates : Differ(d) <= Differ(e)
  /\ \A h \in search.scored : h.distance = Distance(floats[h.doc], search.vector)

SearchInv ==
  /\ SearchState
  /\ ScoredInv
  /\ search.pc \in {"rescore", "latest"} /\ ~disturbed => Undisturbed
  /\ HitsRanked
  /\ NearestFound

(* How many candidates are asked for is a number, and none only if no hit is.  *)
LEMMA CandidatesAskedFor ==
  ASSUME search.limit \in Nat
  PROVE  /\ CandidateLimit \in Nat
         /\ CandidateLimit * OversampleFactor \in Nat
         /\ CandidateLimit * OversampleFactor = 0 => search.limit = 0
  <1> DEFINE l == search.limit
             wide == l * FilterOversample
  <1>1. FilterOversample \in Nat \ {0} /\ MaxCandidates \in Nat \ {0} /\ OversampleFactor \in Nat \ {0}
    BY SearchAssumption
  <1>2. wide \in Nat /\ (wide = 0 => l = 0)
    BY <1>1
  <1>3. Min({wide, MaxCandidates}) = IF wide <= MaxCandidates THEN wide ELSE MaxCandidates
    BY <1>1, <1>2, MinMaxOfTwo
  <1>4. CandidateLimit \in Nat /\ (CandidateLimit = 0 => l = 0)
    BY <1>1, <1>2, <1>3 DEF CandidateLimit
  <1> QED
    BY <1>1, <1>4

(* What Nearest chooses: some of the hits, as many as there are or as allowed, *)
(* and what it leaves out is no nearer.                                      *)
LEMMA NearestAre ==
  ASSUME NEW hits, IsFiniteSet(hits), NEW limit \in Nat, NEW near \in Nearest(hits, limit)
  PROVE  /\ near \subseteq hits /\ IsFiniteSet(near)
         /\ Cardinality(near) \in Nat /\ Cardinality(near) <= limit
         /\ near # hits => Cardinality(near) = limit
         /\ \A h \in near, k \in hits \ near : h.distance <= k.distance
  <1>1. Cardinality(hits) \in Nat
    BY FS_CardinalityType
  <1>2. Min({limit, Cardinality(hits)}) = IF limit <= Cardinality(hits) THEN limit ELSE Cardinality(hits)
    BY <1>1, MinMaxOfTwo
  <1>3. /\ near \in SUBSET hits /\ Cardinality(near) = Min({limit, Cardinality(hits)})
        /\ \A h \in near, k \in hits \ near : h.distance <= k.distance
    BY DEF Nearest, kSubset
  <1>4. IsFiniteSet(near) /\ (Cardinality(hits) = Cardinality(near) => hits = near)
    BY <1>3, FS_Subset
  <1> QED
    BY <1>1, <1>2, <1>3, <1>4

(* A set written as a sequence has each of its elements once.                 *)
LEMMA WrittenOnce ==
  ASSUME NEW S, IsFiniteSet(S), NEW s \in SetToSeqs(S)
  PROVE  /\ DOMAIN s = 1 .. Cardinality(S) /\ Cardinality(S) \in Nat
         /\ \A i \in DOMAIN s : s[i] \in S
         /\ \A i, j \in DOMAIN s : i # j => s[i] # s[j]
         /\ \A x \in S : \E i \in DOMAIN s : s[i] = x
  <1> DEFINE D == 1 .. Cardinality(S)
  <1>1. Cardinality(S) \in Nat
    BY FS_CardinalityType
  <1>2. s \in [D -> S] /\ \A i, j \in D : i # j => s[i] # s[j]
    BY DEF SetToSeqs
  <1>3. IsFiniteSet(D) /\ Cardinality(D) = Cardinality(S)
    BY <1>1, FS_Interval
  <1>4. s \in Injection(D, S)
    BY <1>2 DEF Injection, IsInjective
  <1>5. s \in Surjection(D, S)
    BY <1>3, <1>4, FS_Injection
  <1> QED
    BY <1>1, <1>2, <1>5 DEF Surjection

LEMMA SearchInitial == SearchInit => SearchInv
  <1> SUFFICES ASSUME SearchInit PROVE SearchInv
    OBVIOUS
  <1>1. search = Idle /\ disturbed = FALSE /\ stores = 0
    BY DEF SearchInit
  <1>2. Stored = {} /\ IsFiniteSet({})
    BY FS_EmptySet DEF SearchInit, Stored
  <1>3. SearchTypeOK
    BY <1>1, SearchAssumption DEF SearchInit, SearchTypeOK, Idle, Range
  <1>4. SearchState
    BY <1>1, <1>2, <1>3 DEF SearchInit, SearchState, Idle
  <1>5. ScoredInv
    BY <1>1, <1>2 DEF ScoredInv, Idle
  <1>6. HitsRanked /\ NearestFound
    BY <1>1 DEF HitsRanked, NearestFound, Idle, Range
  <1> QED
    BY <1>1, <1>4, <1>5, <1>6 DEF SearchInv, Idle

(* What the workers store meanwhile leaves a search as it is, disturbed.       *)
LEMMA WritersDisturb ==
  ASSUME SearchInv, UNCHANGED search, Disturb, SearchState'
  PROVE  SearchInv'
  <1>1. ScoredInv'
    BY DEF SearchInv, ScoredInv, Disturb
  <1>2. HitsRanked'
    BY DEF SearchInv, HitsRanked
  <1>3. search.pc \in {"rescore", "latest", "done"} => disturbed'
    BY DEF Disturb
  <1>4. NearestFound'
    BY <1>3 DEF NearestFound
  <1> QED
    BY <1>1, <1>2, <1>3, <1>4 DEF SearchInv

LEMMA StoreKeeps ==
  ASSUME SearchInv, Store
  PROVE  SearchInv'
  <1>1. PICK d \in Docs, v \in Vectors : StoreBoth(d, v)
    BY DEF Store
  <1>2. stores' \in 0 .. MaxStores
    BY SearchAssumption DEF Store, SearchInv, SearchState, SearchTypeOK
  <1>3. floats' \in [Docs -> Vectors \cup {None}]
    BY <1>1 DEF StoreBoth, SearchInv, SearchState, SearchTypeOK
  <1>4. SearchTypeOK'
    BY <1>2, <1>3 DEF Store, SearchInv, SearchState, SearchTypeOK
  <1>5. bins' = [e \in Docs |-> IF floats'[e] = None THEN None ELSE Quantized(floats'[e])]
    <2>1. v # None
      BY SearchAssumption
    <2> QED
      BY <1>1, <2>1 DEF StoreBoth, SearchInv, SearchState, SearchTypeOK
  <1>6. IsFiniteSet(Stored')
    <2>1. Stored' \in SUBSET (Stored \cup {d})
      BY <1>1, <1>5 DEF StoreBoth, Stored, SearchInv, SearchState
    <2>2. IsFiniteSet(Stored \cup {d})
      BY FS_AddElement DEF SearchInv, SearchState
    <2> QED
      BY <2>1, <2>2, FS_Subset
  <1>7. SearchState'
    BY <1>4, <1>5, <1>6 DEF Store, SearchInv, SearchState
  <1> QED
    BY <1>7, WritersDisturb DEF Store

LEMMA RelabelKeeps ==
  ASSUME SearchInv, Relabel
  PROVE  SearchInv'
  <1>1. stores' \in 0 .. MaxStores
    BY SearchAssumption DEF Relabel, SearchInv, SearchState, SearchTypeOK
  <1>2. label' \in [Docs -> Facets \cup {None}]
    BY DEF Relabel, SearchInv, SearchState, SearchTypeOK
  <1>3. SearchTypeOK' /\ Stored' = Stored
    BY <1>1, <1>2 DEF Relabel, SearchInv, SearchState, SearchTypeOK, Stored
  <1>4. SearchState'
    BY <1>3 DEF Relabel, SearchInv, SearchState
  <1> QED
    BY <1>4, WritersDisturb DEF Relabel

(* Until the first pass nothing is scored, and no hits are given.             *)
LEMMA AskOrEmbedKeeps ==
  ASSUME SearchInv, Ask \/ Embed
  PROVE  SearchInv'
  <1> DEFINE Quiet ==
               /\ UNCHANGED <<floats, bins, label, stores, disturbed>> /\ ~disturbed
               /\ search'.hits = <<>> /\ search'.scored = {}
               /\ search'.candidates = search.candidates
               /\ search'.limit \in Nat
               /\ search' = [pc |-> search'.pc, vector |-> search'.vector, limit |-> search'.limit,
                      filter |-> search'.filter, candidates |-> search'.candidates,
                      scored |-> search'.scored, hits |-> search'.hits, answer |-> search'.answer]
               /\ search'.pc \in {"embedding", "pass", "done"}
               /\ search'.answer \in {200, 400, 500}
               /\ search'.pc = "done" => search'.answer # 200
  <1>0. search.pc \in {"idle", "embedding"}
    BY DEF Ask, Embed
  <1>1. Quiet
    <2>1. /\ search.hits = <<>> /\ search.scored = {} /\ ~disturbed
          /\ search.limit \in Nat /\ search.answer \in {200, 400, 500}
          /\ search = [pc |-> search.pc, vector |-> search.vector, limit |-> search.limit,
               filter |-> search.filter, candidates |-> search.candidates,
               scored |-> search.scored, hits |-> search.hits, answer |-> search.answer]
      BY <1>0 DEF SearchInv, SearchState, ScoredInv, SearchTypeOK
    <2>2. CASE Ask
      <3>1. UNCHANGED <<floats, bins, label, stores, disturbed>>
        BY <2>2 DEF Ask
      <3>2. ASSUME search' = [search EXCEPT !.pc = "done", !.answer = 400]
            PROVE  Quiet
        <4>1. search' = [pc |-> "done", vector |-> search.vector, limit |-> search.limit,
                        filter |-> search.filter, candidates |-> search.candidates, scored |-> search.scored,
                        hits |-> search.hits, answer |-> 400]
          BY <2>1, <3>2, ZenonT(60)
        <4>2. search'.pc = "done" /\ search'.answer = 400 /\ search'.limit = search.limit
          BY <4>1
        <4>3. /\ search'.hits = <<>> /\ search'.scored = {} /\ search'.candidates = search.candidates
              /\ search' = [pc |-> search'.pc, vector |-> search'.vector, limit |-> search'.limit,
                      filter |-> search'.filter, candidates |-> search'.candidates,
                      scored |-> search'.scored, hits |-> search'.hits, answer |-> search'.answer]
          BY <2>1, <4>1
        <4> QED
          BY <2>1, <3>1, <4>2, <4>3
      <3>3. ASSUME NEW limit \in SearchLimits, NEW filter \in Facets \cup {None},
                   search' = [search EXCEPT !.pc = "embedding", !.limit = limit, !.filter = filter]
            PROVE  Quiet
        <4>1. search' = [pc |-> "embedding", vector |-> search.vector, limit |-> limit,
                        filter |-> filter, candidates |-> search.candidates, scored |-> search.scored,
                        hits |-> search.hits, answer |-> search.answer]
          BY <2>1, <3>3
        <4>2. limit \in Nat
          BY SearchAssumption
        <4> QED
          BY <2>1, <3>1, <4>1, <4>2
      <3> HIDE DEF Quiet
      <3> QED
        BY <2>2, <3>2, <3>3 DEF Ask
    <2>3. CASE Embed
      <3>1. UNCHANGED <<floats, bins, label, stores, disturbed>>
        BY <2>3 DEF Embed
      <3>2. ASSUME NEW v \in Vectors, search' = [search EXCEPT !.pc = "pass", !.vector = v]
            PROVE  Quiet
        <4>1. search' = [pc |-> "pass", vector |-> v, limit |-> search.limit,
                        filter |-> search.filter, candidates |-> search.candidates, scored |-> search.scored,
                        hits |-> search.hits, answer |-> search.answer]
          BY <2>1, <3>2
        <4> QED
          BY <2>1, <3>1, <4>1
      <3>3. ASSUME search' = [search EXCEPT !.pc = "done", !.answer = 500]
            PROVE  Quiet
        <4>1. search' = [pc |-> "done", vector |-> search.vector, limit |-> search.limit,
                        filter |-> search.filter, candidates |-> search.candidates, scored |-> search.scored,
                        hits |-> search.hits, answer |-> 500]
          BY <2>1, <3>3, ZenonT(60)
        <4>2. search'.pc = "done" /\ search'.answer = 500 /\ search'.limit = search.limit
          BY <4>1
        <4>3. /\ search'.hits = <<>> /\ search'.scored = {} /\ search'.candidates = search.candidates
              /\ search' = [pc |-> search'.pc, vector |-> search'.vector, limit |-> search'.limit,
                      filter |-> search'.filter, candidates |-> search'.candidates,
                      scored |-> search'.scored, hits |-> search'.hits, answer |-> search'.answer]
          BY <2>1, <4>1
        <4> QED
          BY <2>1, <3>1, <4>2, <4>3
      <3> QED
        <4> HIDE DEF Quiet
        <4> QED
          BY <2>3, <3>2, <3>3 DEF Embed
    <2> QED
      BY <2>2, <2>3
  <1>2. SearchTypeOK' /\ Stored' = Stored
    <2>1. {h.doc : h \in search'.scored \cup Range(search'.hits)} \subseteq Docs
      BY <1>1 DEF Range
    <2>2. /\ search'.pc \in {"idle", "embedding", "pass", "rescore", "latest", "done"}
          /\ search'.candidates \subseteq Docs
      BY <1>1 DEF SearchInv, SearchState, SearchTypeOK
    <2> QED
      BY <1>1, <2>1, <2>2 DEF SearchInv, SearchState, SearchTypeOK, Stored
  <1>3. SearchState'
    <2> USE <1>1, <1>2
    <2>1. bins' = [d \in Docs |-> IF floats'[d] = None THEN None ELSE Quantized(floats'[d])]
      BY DEF SearchInv, SearchState
    <2>2. IsFiniteSet(Stored')
      BY DEF SearchInv, SearchState
    <2> QED
      BY <2>1, <2>2 DEF SearchState
  <1>4. ScoredInv'
    BY <1>1, FS_EmptySet DEF ScoredInv
  <1>5. HitsRanked'
    BY <1>1 DEF HitsRanked, Range
  <1>6. NearestFound'
    BY <1>1 DEF NearestFound
  <1> QED
    BY <1>1, <1>3, <1>4, <1>5, <1>6 DEF SearchInv

(* The first pass leaves no signs nearer than those it takes, and takes none   *)
(* only if none is stored or asked for.                                      *)
LEMMA PassKeeps ==
  ASSUME SearchInv, HammingPass
  PROVE  SearchInv'
  <1> DEFINE many == Min({CandidateLimit * OversampleFactor, Cardinality(Stored)})
  <1>1. PICK pool \in kSubset(many, Stored) :
          /\ \A d \in pool, e \in Stored \ pool :
               Hamming(bins[d], Quantized(search.vector)) <= Hamming(bins[e], Quantized(search.vector))
          /\ search' = [search EXCEPT !.pc = IF pool = {} THEN "done" ELSE "rescore", !.candidates = pool]
    BY DEF HammingPass
  <1>2. /\ UNCHANGED <<floats, bins, label, stores, disturbed>> /\ ~disturbed /\ search.pc = "pass"
        /\ search.hits = <<>> /\ search.scored = {}
    BY DEF HammingPass, SearchInv, SearchState, ScoredInv
  <1>3. pool \in SUBSET Stored /\ Cardinality(pool) = many
    BY <1>1 DEF kSubset
  <1>4. /\ search'.hits = <<>> /\ search'.scored = {} /\ search'.candidates = pool
        /\ search'.limit = search.limit /\ search.limit \in Nat
        /\ search'.vector = search.vector /\ search'.answer = search.answer
        /\ search'.filter = search.filter
        /\ search'.pc = IF pool = {} THEN "done" ELSE "rescore"
        /\ search' = [pc |-> search'.pc, vector |-> search'.vector, limit |-> search'.limit,
               filter |-> search'.filter, candidates |-> search'.candidates,
               scored |-> search'.scored, hits |-> search'.hits, answer |-> search'.answer]
    BY <1>1, <1>2 DEF SearchInv, SearchState
  <1>5. SearchTypeOK' /\ Stored' = Stored
    <2>1. pool \subseteq Docs
      BY <1>3 DEF Stored
    <2> QED
      BY <1>2, <1>4, <2>1 DEF SearchInv, SearchState, SearchTypeOK, Stored, Range
  <1>6. SearchState'
    BY <1>2, <1>4, <1>5 DEF SearchInv, SearchState
  <1>7. ScoredInv'
    BY <1>2, <1>4 DEF SearchInv, ScoredInv
  <1>8. HitsRanked'
    BY <1>4 DEF HitsRanked, Range
  <1>9. Undisturbed'
    BY <1>1, <1>2, <1>3, <1>4, <1>5 DEF Undisturbed, Differ
  <1>10. NearestFound'
    <2> SUFFICES ASSUME pool = {}, Stored # {}
                 PROVE  search.limit = 0
      BY <1>4, <1>5, <1>2 DEF NearestFound, Range
    <2>1. many = 0
      BY <1>3, FS_EmptySet
    <2>2. Cardinality(Stored) \in Nat /\ Cardinality(Stored) # 0
      BY FS_EmptySet, FS_CardinalityType DEF SearchInv, SearchState
    <2>3. CandidateLimit * OversampleFactor \in Nat
      BY <1>4, CandidatesAskedFor
    <2>4. many = IF CandidateLimit * OversampleFactor <= Cardinality(Stored)
                 THEN CandidateLimit * OversampleFactor ELSE Cardinality(Stored)
      BY <2>2, <2>3, MinMaxOfTwo
    <2>5. CandidateLimit * OversampleFactor = 0
      BY <2>1, <2>2, <2>4
    <2> QED
      BY <1>4, <2>5, CandidatesAskedFor
  <1> QED
    BY <1>6, <1>7, <1>8, <1>9, <1>10 DEF SearchInv

(* One more candidate is scored, with the vector it has now.                  *)
LEMMA RescoreKeeps ==
  ASSUME SearchInv, Rescore
  PROVE  SearchInv'
  <1> DEFINE left == search.candidates \ {h.doc : h \in search.scored}
  <1>1. PICK d \in left :
          search' = [search EXCEPT !.pc = IF left = {d} THEN "latest" ELSE @,
                                  !.scored = @ \cup {[doc |-> d,
                                    distance |-> Distance(floats[d], search.vector)]}]
    BY DEF Rescore
  <1> DEFINE hit == [doc |-> d, distance |-> Distance(floats[d], search.vector)]
  <1>2. /\ UNCHANGED <<floats, bins, label, stores, disturbed>> /\ search.pc = "rescore"
        /\ search.hits = <<>>
    BY DEF Rescore, SearchInv, SearchState
  <1>3. /\ search'.hits = <<>> /\ search'.scored = search.scored \cup {hit}
        /\ search'.candidates = search.candidates
        /\ search'.limit = search.limit /\ search.limit \in Nat
        /\ search'.vector = search.vector /\ search'.answer = search.answer
        /\ search'.filter = search.filter
        /\ search'.pc = IF left = {d} THEN "latest" ELSE "rescore"
        /\ search' = [pc |-> search'.pc, vector |-> search'.vector, limit |-> search'.limit,
               filter |-> search'.filter, candidates |-> search'.candidates,
               scored |-> search'.scored, hits |-> search'.hits, answer |-> search'.answer]
    BY <1>1, <1>2 DEF SearchInv, SearchState
  <1>4. d \in search.candidates /\ hit.doc = d /\ \A h \in search.scored : h.doc # d
    BY <1>1
  <1>5. SearchTypeOK' /\ Stored' = Stored
    <2>1. {h.doc : h \in search'.scored \cup Range(search'.hits)} \subseteq Docs
      BY <1>2, <1>3, <1>4 DEF SearchInv, SearchState, SearchTypeOK, Range
    <2> QED
      BY <1>2, <1>3, <2>1 DEF SearchInv, SearchState, SearchTypeOK, Stored
  <1>6. SearchState'
    BY <1>2, <1>3, <1>5 DEF SearchInv, SearchState
  <1>7. ScoredInv'
    <2>1. IsFiniteSet(search'.scored)
      <3>1. IsFiniteSet(search.scored)
        BY DEF SearchInv, ScoredInv
      <3>2. IsFiniteSet(search.scored \cup {hit})
        BY <3>1, FS_AddElement
      <3> QED
        BY <1>3, <3>2
    <2>2. \A h \in search'.scored : h.doc \in search'.candidates
      BY <1>3, <1>4 DEF SearchInv, ScoredInv
    <2>3. \A h, k \in search'.scored : h.doc = k.doc => h = k
      BY <1>3, <1>4 DEF SearchInv, ScoredInv
    <2>4. ASSUME left = {d}, NEW e \in search.candidates PROVE \E h \in search'.scored : h.doc = e
      <3>1. hit \in search'.scored
        BY <1>3
      <3>2. CASE e = d
        BY <1>4, <3>1, <3>2
      <3>3. CASE e # d
        <4>1. \E h \in search.scored : h.doc = e
          BY <2>4, <3>3
        <4> QED
          BY <1>3, <4>1
      <3> QED
        BY <3>2, <3>3
    <2> QED
      BY <1>3, <2>1, <2>2, <2>3, <2>4 DEF ScoredInv
  <1>8. HitsRanked'
    BY <1>3 DEF HitsRanked, Range
  <1>9. ~disturbed' => Undisturbed'
    <2> SUFFICES ASSUME ~disturbed PROVE Undisturbed'
      BY <1>2
    <2>1. Undisturbed
      BY <1>2 DEF SearchInv
    <2>2. \A h \in search'.scored : h.distance = Distance(floats[h.doc], search.vector)
      BY <1>3, <2>1 DEF Undisturbed
    <2> QED
      BY <1>2, <1>3, <1>5, <2>1, <2>2 DEF Undisturbed, Differ
  <1>10. NearestFound'
    BY <1>3 DEF NearestFound
  <1> QED
    BY <1>6, <1>7, <1>8, <1>9, <1>10 DEF SearchInv

(* What is kept, is written down closest first: each of its documents once, in *)
(* the order of their distances, with the facet it has now.                   *)
LEMMA LatestKeeps ==
  ASSUME SearchInv, Latest
  PROVE  SearchInv'
  <1>0. PICK kept \in Kept : \E ranking \in SetToSeqs(kept) :
          /\ \A i, j \in DOMAIN ranking : i < j => ranking[i].distance <= ranking[j].distance
          /\ search' = [search EXCEPT !.pc = "done",
               !.hits = [i \in DOMAIN ranking |->
                          [doc |-> ranking[i].doc, distance |-> ranking[i].distance,
                           label |-> label[ranking[i].doc]]]]
    BY DEF Latest
  <1>1. PICK ranking \in SetToSeqs(kept) :
          /\ \A i, j \in DOMAIN ranking : i < j => ranking[i].distance <= ranking[j].distance
          /\ search' = [search EXCEPT !.pc = "done",
               !.hits = [i \in DOMAIN ranking |->
                          [doc |-> ranking[i].doc, distance |-> ranking[i].distance,
                           label |-> label[ranking[i].doc]]]]
    BY <1>0
  <1>2. PICK pool \in Nearest(search.scored, CandidateLimit) :
          kept \in Nearest({h \in pool : Matches(h.doc)}, search.limit)
    BY DEF Kept
  <1> DEFINE n == Cardinality(kept)
             hits == [i \in DOMAIN ranking |->
                       [doc |-> ranking[i].doc, distance |-> ranking[i].distance,
                        label |-> label[ranking[i].doc]]]
             matching == {h \in pool : Matches(h.doc)}
  <1>3. /\ UNCHANGED <<floats, bins, label, stores, disturbed>> /\ search.pc = "latest"
        /\ search.hits = <<>> /\ search.limit \in Nat /\ CandidateLimit \in Nat
    BY CandidatesAskedFor DEF Latest, SearchInv, SearchState
  <1>4. /\ pool \subseteq search.scored /\ IsFiniteSet(pool) /\ Cardinality(pool) \in Nat
        /\ pool # search.scored => Cardinality(pool) = CandidateLimit
        /\ \A h \in pool, k \in search.scored \ pool : h.distance <= k.distance
    BY <1>3, NearestAre DEF SearchInv, ScoredInv
  <1>5. IsFiniteSet(matching)
    <2>1. matching \in SUBSET pool
      OBVIOUS
    <2> QED
      BY <1>4, <2>1, FS_Subset
  <1>6. /\ kept \subseteq matching /\ IsFiniteSet(kept) /\ n \in Nat /\ n <= search.limit
        /\ kept # matching => n = search.limit
        /\ \A h \in kept, k \in matching \ kept : h.distance <= k.distance
    BY <1>2, <1>3, <1>5, NearestAre
  <1>7. /\ DOMAIN ranking = 1 .. n
        /\ \A i \in 1 .. n : ranking[i] \in kept
        /\ \A i, j \in 1 .. n : i # j => ranking[i] # ranking[j]
        /\ \A x \in kept : \E i \in 1 .. n : ranking[i] = x
    BY <1>6, WrittenOnce
  <1>8. /\ search'.hits = hits /\ search'.pc = "done"
        /\ search'.scored = search.scored /\ search'.candidates = search.candidates
        /\ search'.limit = search.limit
        /\ search'.vector = search.vector /\ search'.answer = search.answer
        /\ search'.filter = search.filter
        /\ search' = [pc |-> search'.pc, vector |-> search'.vector, limit |-> search'.limit,
               filter |-> search'.filter, candidates |-> search'.candidates,
               scored |-> search'.scored, hits |-> search'.hits, answer |-> search'.answer]
    BY <1>1 DEF SearchInv, SearchState
  <1>9. /\ DOMAIN hits = 1 .. n /\ Len(hits) = n
        /\ \A i \in 1 .. n : /\ hits[i].doc = ranking[i].doc
                             /\ hits[i].distance = ranking[i].distance
                             /\ hits[i].label = label[ranking[i].doc]
    <2>1. hits = [i \in 1 .. n |-> hits[i]]
      BY <1>7
    <2> QED
      BY <1>6, <1>7, <2>1
  <1>10. \A h \in Range(hits) : \E i \in 1 .. n : h = hits[i]
    BY <1>9 DEF Range
  <1>11. \A h \in kept : h \in search.scored /\ h.doc \in search.candidates /\ Matches(h.doc)
    BY <1>4, <1>6 DEF SearchInv, ScoredInv
  <1>12. SearchTypeOK' /\ Stored' = Stored
    <2>1. \A h \in search.scored : h.doc \in Docs
      BY DEF SearchInv, ScoredInv, SearchState, SearchTypeOK
    <2>2. {h.doc : h \in search'.scored \cup Range(search'.hits)} \subseteq Docs
      BY <1>7, <1>8, <1>9, <1>10, <1>11, <2>1
    <2> HIDE DEF hits
    <2> QED
      BY <1>3, <1>8, <2>2 DEF SearchInv, SearchState, SearchTypeOK, Stored
  <1>13. SearchState'
    BY <1>3, <1>8, <1>12 DEF SearchInv, SearchState
  <1>14. ScoredInv'
    BY <1>3, <1>8 DEF SearchInv, ScoredInv
  <1>15. HitsRanked'
    <2>1. ASSUME NEW i \in 1 .. n, NEW j \in 1 .. n, i < j
          PROVE  hits[i].doc # hits[j].doc /\ hits[i].distance <= hits[j].distance
      <3>1. ranking[i] \in search.scored /\ ranking[j] \in search.scored /\ ranking[i] # ranking[j]
        BY <1>7, <1>11, <2>1
      <3>2. ranking[i].doc # ranking[j].doc
        BY <3>1 DEF SearchInv, ScoredInv
      <3> QED
        BY <1>1, <1>7, <1>9, <2>1, <3>2
    <2>2. \A h \in Range(hits) : search.filter # None => h.label = search.filter
      BY <1>7, <1>9, <1>10, <1>11 DEF Matches
    <2> HIDE DEF hits
    <2> QED
      BY <1>6, <1>8, <1>9, <2>1, <2>2 DEF HitsRanked
  <1>16. NearestFound'
    <2> DEFINE found == {h.doc : h \in Range(hits)}
               far(d) == Distance(floats[d], search.vector)
    <2>1. /\ \A e \in found : \E h \in kept : h.doc = e
          /\ \A h \in kept : h.doc \in found
      <3>1. \A h \in kept : \E i \in 1 .. n : h.doc = hits[i].doc
        BY <1>7, <1>9
      <3>2. \A i \in 1 .. n : hits[i] \in Range(hits)
        BY <1>9 DEF Range
      <3>3. \A h \in Range(hits) : \E k \in kept : k.doc = h.doc
        BY <1>7, <1>9, <1>10
      <3> HIDE DEF hits
      <3> QED
        BY <3>1, <3>2, <3>3
    <2> HIDE DEF hits
    <2> SUFFICES ASSUME ~disturbed, NEW d \in Stored, d \notin found, Matches(d)
                 PROVE  \/ n = search.limit /\ \A e \in found : far(e) <= far(d)
                        \/ Cardinality({e \in Stored \ {d} : far(e) <= far(d)}) >= CandidateLimit
                        \/ /\ d \notin search.candidates
                           /\ \A e \in search.candidates :
                                Hamming(Quantized(floats[e]), Quantized(search.vector))
                                  <= Hamming(Quantized(floats[d]), Quantized(search.vector))
      <3>1. /\ search'.hits = hits /\ search'.filter = search.filter /\ search'.limit = search.limit
            /\ search'.vector = search.vector /\ search'.candidates = search.candidates
            /\ Len(hits) = n /\ Stored' = Stored
            /\ floats' = floats /\ label' = label /\ disturbed' = disturbed
        BY <1>3, <1>8, <1>9, <1>12
      <3>2. CandidateLimit' = CandidateLimit /\ \A d \in Docs : Matches(d)' <=> Matches(d)
        BY <3>1 DEF CandidateLimit, Matches
      <3>3. Stored \subseteq Docs
        BY DEF Stored
      <3> QED
        BY <3>1, <3>2, <3>3 DEF NearestFound
    <2>2. Undisturbed
      BY <1>3 DEF SearchInv
    <2>3. CASE d \notin search.candidates
      <3>1. \A e \in Stored : bins[e] = Quantized(floats[e])
        BY DEF SearchInv, SearchState, Stored
      <3> QED
        BY <2>2, <2>3, <3>1 DEF Undisturbed, Differ
    <2>4. ASSUME d \in search.candidates
          PROVE  \/ n = search.limit /\ \A e \in found : far(e) <= far(d)
                 \/ Cardinality({e \in Stored \ {d} : far(e) <= far(d)}) >= CandidateLimit
      <3>1. PICK k \in search.scored : k.doc = d
        BY <1>3, <2>4 DEF SearchInv, ScoredInv
      <3>2. \A h \in search.scored : h.distance = far(h.doc)
        BY <2>2 DEF Undisturbed
      <3>3. k \notin kept
        BY <2>1, <3>1
      <3>4. CASE k \in pool
        <4>1. k \in matching
          BY <3>1, <3>4
        <4> QED
          BY <1>6, <1>11, <2>1, <3>1, <3>2, <3>3, <4>1
      <3>5. CASE k \notin pool
        <4> DEFINE near == {e \in Stored \ {d} : far(e) <= far(d)}
                   doc == [h \in pool |-> h.doc]
        <4>1. Cardinality(pool) = CandidateLimit
          BY <1>4, <3>5
        <4>2. \A h \in pool : h.doc \in near
          <5> SUFFICES ASSUME NEW h \in pool PROVE h.doc \in near
            OBVIOUS
          <5>1. h \in search.scored /\ h.distance <= k.distance /\ h # k
            BY <1>4, <3>5
          <5>2. far(h.doc) <= far(d)
            BY <3>1, <3>2, <5>1
          <5>3. h.doc \in Stored /\ h.doc # d
            BY <2>2, <3>1, <5>1 DEF Undisturbed, SearchInv, ScoredInv
          <5> QED
            BY <5>2, <5>3
        <4>3. doc \in Injection(pool, near)
          <5>1. \A g, h \in pool : g.doc = h.doc => g = h
            BY <1>4 DEF SearchInv, ScoredInv
          <5> QED
            BY <4>2, <5>1 DEF Injection, IsInjective
        <4>4. IsFiniteSet(near)
          <5>1. near \in SUBSET Stored
            OBVIOUS
          <5> QED
            BY <5>1, FS_Subset DEF SearchInv, SearchState
        <4>5. Cardinality(pool) <= Cardinality(near) /\ Cardinality(near) \in Nat
          BY <4>3, <4>4, FS_Injection, FS_CardinalityType
        <4> QED
          BY <1>3, <4>1, <4>5
      <3> QED
        BY <3>4, <3>5
    <2> QED
      BY <2>3, <2>4
  <1> QED
    BY <1>8, <1>13, <1>14, <1>15, <1>16 DEF SearchInv

LEMMA SearchStep == SearchInv /\ [SearchNext]_searchVars => SearchInv'
  <1> SUFFICES ASSUME SearchInv, [SearchNext]_searchVars PROVE SearchInv'
    OBVIOUS
  <1>1. CASE UNCHANGED searchVars
    <2>1. UNCHANGED <<floats, bins, label, stores, search, disturbed>>
      BY <1>1 DEF searchVars
    <2>2. Stored' = Stored /\ SearchTypeOK' /\ HitsRanked' /\ ScoredInv'
      BY <2>1 DEF SearchInv, SearchState, SearchTypeOK, Stored, HitsRanked, ScoredInv
    <2>3. SearchState'
      BY <2>1, <2>2 DEF SearchInv, SearchState
    <2>4. Undisturbed => Undisturbed'
      BY <2>1, <2>2 DEF Undisturbed, Differ
    <2>5. NearestFound'
      <3>1. CandidateLimit' = CandidateLimit /\ \A d \in Docs : Matches(d)' <=> Matches(d)
        BY <2>1 DEF CandidateLimit, Matches
      <3>2. Stored \subseteq Docs
        BY DEF Stored
      <3> QED
        BY <2>1, <2>2, <3>1, <3>2 DEF SearchInv, NearestFound
    <2> QED
      BY <2>1, <2>2, <2>3, <2>4, <2>5 DEF SearchInv
  <1> QED
    BY <1>1, StoreKeeps, RelabelKeeps, AskOrEmbedKeeps, PassKeeps, RescoreKeeps, LatestKeeps DEF SearchNext

(* A search answers with the nearest: whatever is stored meanwhile, what is     *)
(* answered is a ranking, no longer than asked for and of the facet asked for;  *)
(* and if nothing was, a document is missed only because of its signs or of    *)
(* the limits of the candidate lists, for any number of documents, dimensions   *)
(* and factors of oversampling.                                             *)
THEOREM SearchesAreSound == SearchSpec => []SearchSound
  <1>1. SearchInv => SearchSound
    BY DEF SearchInv, SearchState, SearchSound
  <1> QED
    BY <1>1, SearchInitial, SearchStep, PTL DEF SearchSpec

-----------------------------------------------------------------------------
(* What is taken of a picture and of a model's reply.                        *)

(* Some numbers have a least one.                                            *)
LEMMA LeastOf ==
  ASSUME NEW S \in SUBSET Nat, S # {}
  PROVE  \E i \in S : \A j \in S : i <= j
  <1> DEFINE R == {s \in Nat \X Nat : s[1] < s[2]}
  <1>1. OpToRel(<, Nat) = R
    BY DEF OpToRel
  <1>2. IsWellFoundedOn(R, Nat)
    BY <1>1, NatLessThanWellFounded, Zenon
  <1>3. PICK i \in S : \A j \in S : ~ (<<j, i>> \in R)
    <2> HIDE DEF R
    <2> QED
      BY <1>2, WFMin, Zenon
  <1>4. \A j \in S : i <= j
    <2> SUFFICES ASSUME NEW j \in S PROVE i <= j
      OBVIOUS
    <2>1. i \in Nat /\ j \in Nat /\ ~ (j < i)
      BY <1>3
    <2> QED
      BY <2>1
  <1> QED
    BY <1>4

(* Leap years up to y, by the rule of the calendar; and the days from 1970 to   *)
(* the first of March of y, with which its year begins in exif.rs.           *)
LeapsTo(y) == y \div 4 - y \div 100 + y \div 400

March(y) == 365 * y + LeapsTo(y) - 719468

(* Division, a year earlier.                                                *)
LEMMA DivisionBefore ==
  ASSUME NEW y \in Int
  PROVE  /\ (y - 1) \div 4 = IF y % 4 = 0 THEN y \div 4 - 1 ELSE y \div 4
         /\ (y - 1) \div 100 = IF y % 100 = 0 THEN y \div 100 - 1 ELSE y \div 100
         /\ (y - 1) \div 400 = IF y % 400 = 0 THEN y \div 400 - 1 ELSE y \div 400
         /\ y % 400 = 0 => y % 100 = 0
         /\ y % 100 = 0 => y % 4 = 0
  <1>1. (y - 1) \div 4 = IF y % 4 = 0 THEN y \div 4 - 1 ELSE y \div 4
    OBVIOUS
  <1>2. (y - 1) \div 100 = IF y % 100 = 0 THEN y \div 100 - 1 ELSE y \div 100
    OBVIOUS
  <1>3. (y - 1) \div 400 = IF y % 400 = 0 THEN y \div 400 - 1 ELSE y \div 400
    OBVIOUS
  <1>4. y % 400 = 0 => y % 100 = 0
    OBVIOUS
  <1>5. y % 100 = 0 => y % 4 = 0
    OBVIOUS
  <1> QED
    BY <1>1, <1>2, <1>3, <1>4, <1>5

LEMMA LeapYear ==
  ASSUME NEW y \in Int
  PROVE  LeapsTo(y) \in Int /\ LeapsTo(y) = LeapsTo(y - 1) + IF Leap(y) THEN 1 ELSE 0
  <1>1. y \div 4 \in Int /\ y \div 100 \in Int /\ y \div 400 \in Int
    OBVIOUS
  <1>2. y % 4 \in Int /\ y % 100 \in Int /\ y % 400 \in Int
    OBVIOUS
  <1> QED
    BY <1>1, <1>2, DivisionBefore DEF LeapsTo, Leap

(* The era and the year of the era of exif.rs.                               *)
Era(y) == IF y >= 0 THEN y \div 400 ELSE -((399 - y) \div 400)

YearOfEra(y) == y - Era(y) * 400

LEMMA EraCounts ==
  ASSUME NEW y \in Int
  PROVE  /\ Era(y) \in Int /\ YearOfEra(y) \in 0 .. 399
         /\ Era(y) * 146097 + YearOfEra(y) * 365 + YearOfEra(y) \div 4 - YearOfEra(y) \div 100
              = March(y) + 719468
  <1> DEFINE era == Era(y)
             yoe == YearOfEra(y)
  <1>1. era = y \div 400 /\ era \in Int
    BY DEF Era
  <1>2. yoe \in 0 .. 399 /\ y = era * 400 + yoe
    BY <1>1 DEF YearOfEra
  <1> HIDE DEF era, yoe
  <1>3. y \div 4 = era * 100 + yoe \div 4
    BY <1>1, <1>2
  <1>4. y \div 100 = era * 4 + yoe \div 100
    BY <1>1, <1>2
  <1>5. yoe \div 4 \in Int /\ yoe \div 100 \in Int
    BY <1>2
  <1>6. era * 146097 + yoe * 365 + yoe \div 4 - yoe \div 100 = March(y) + 719468
    BY <1>1, <1>2, <1>3, <1>4, <1>5 DEF March, LeapsTo
  <1> QED
    BY <1>1, <1>2, <1>6 DEF era, yoe

(* Of the years from a to b, those that are leap years.                      *)
LEMMA LeapsCounted ==
  ASSUME NEW a \in Int, NEW b \in Int, a <= b + 1
  PROVE  Cardinality({z \in a .. b : Leap(z)}) = LeapsTo(b) - LeapsTo(a - 1)
  <1> DEFINE Years(k) == {z \in a .. a + k - 1 : Leap(z)}
             Wrong == {k \in Nat : ~ (/\ IsFiniteSet(Years(k))
                                      /\ Cardinality(Years(k)) = LeapsTo(a + k - 1) - LeapsTo(a - 1))}
  <1>1. 0 \notin Wrong
    <2>1. Years(0) = {}
      OBVIOUS
    <2>2. a + 0 - 1 = a - 1 /\ LeapsTo(a - 1) \in Int
      BY LeapYear
    <2> QED
      BY <2>1, <2>2, FS_EmptySet
  <1>2. ASSUME NEW k \in Nat, k \notin Wrong
        PROVE  k + 1 \notin Wrong
    <2> DEFINE z == a + k
    <2>1. Years(k + 1) = IF Leap(z) THEN Years(k) \cup {z} ELSE Years(k)
      OBVIOUS
    <2>2. z \notin Years(k)
      OBVIOUS
    <2>3. IsFiniteSet(Years(k)) /\ Cardinality(Years(k)) = LeapsTo(z - 1) - LeapsTo(a - 1)
      BY <1>2
    <2>4. IsFiniteSet(Years(k + 1))
          /\ Cardinality(Years(k + 1)) = Cardinality(Years(k)) + IF Leap(z) THEN 1 ELSE 0
      <3> HIDE DEF Years
      <3>1. Cardinality(Years(k)) \in Nat
        BY <2>3, FS_CardinalityType
      <3> QED
        BY <2>1, <2>2, <2>3, <3>1, FS_AddElement
    <2>5. /\ LeapsTo(z) = LeapsTo(z - 1) + IF Leap(z) THEN 1 ELSE 0
          /\ LeapsTo(z) \in Int /\ LeapsTo(z - 1) \in Int /\ LeapsTo(a - 1) \in Int
      BY LeapYear
    <2>6. Cardinality(Years(k + 1)) = LeapsTo(z) - LeapsTo(a - 1)
      <3> HIDE DEF Years
      <3> QED
        BY <2>3, <2>4, <2>5
    <2>7. a + (k + 1) - 1 = z
      OBVIOUS
    <2> HIDE DEF Years, z
    <2> QED
      BY <2>4, <2>6, <2>7
  <1>3. Wrong = {}
    <2> SUFFICES ASSUME Wrong # {} PROVE FALSE
      OBVIOUS
    <2>1. Wrong \in SUBSET Nat
      OBVIOUS
    <2>4. PICK k \in Wrong : \A j \in Wrong : k <= j
      <3> HIDE DEF Wrong
      <3> QED
        BY <2>1, LeastOf
    <2>5. k \in Nat \ {0}
      BY <1>1, <2>1, <2>4
    <2>6. k - 1 \in Nat /\ k - 1 + 1 = k /\ ~ (k <= k - 1)
      BY <2>5
    <2>7. k - 1 \notin Wrong
      BY <2>4, <2>6
    <2> QED
      BY <1>2, <2>4, <2>6, <2>7
  <1>4. PICK n \in Nat : a + n - 1 = b
    <2> WITNESS b - a + 1 \in Nat
    <2> QED
      OBVIOUS
  <1>5. Years(n) = {z \in a .. b : Leap(z)}
    BY <1>4
  <1>6. Cardinality(Years(n)) = LeapsTo(a + n - 1) - LeapsTo(a - 1)
    BY <1>3
  <1> HIDE DEF Years
  <1> QED
    BY <1>4, <1>5, <1>6

LEMMA YearsBegin ==
  ASSUME NEW y \in Int
  PROVE  DaysTo(y) = March(y - 1) + 306
  <1>1. LeapsTo(1969) = 477
    BY DEF LeapsTo
  <1>2. LeapsTo(y - 1) \in Int
    BY LeapYear
  <1>3. CASE y >= 1970
    <2>1. Cardinality({z \in 1970 .. y - 1 : Leap(z)}) = LeapsTo(y - 1) - LeapsTo(1970 - 1)
      BY <1>3, LeapsCounted
    <2> QED
      BY <1>1, <1>2, <1>3, <2>1 DEF DaysTo, March
  <1>4. CASE y < 1970
    <2>1. Cardinality({z \in y .. 1969 : Leap(z)}) = LeapsTo(1969) - LeapsTo(y - 1)
      BY <1>4, LeapsCounted
    <2> QED
      BY <1>1, <1>2, <1>4, <2>1 DEF DaysTo, March
  <1> QED
    BY <1>3, <1>4

(* Days of a year of exif.rs before a month.                                 *)
BeforeMonth(m) == <<306, 337, 0, 31, 61, 92, 122, 153, 184, 214, 245, 275>>[m]

LEMMA DaysOfDate ==
  ASSUME NEW y \in Int, NEW m \in 1 .. 12, NEW d \in Int
  PROVE  CivilToDays(y, m, d) = March(IF m <= 2 THEN y - 1 ELSE y) + BeforeMonth(m) + d - 1
  <1> DEFINE z == IF m <= 2 THEN y - 1 ELSE y
             era == Era(z)
             yoe == YearOfEra(z)
             doy == (153 * ((m + 9) % 12) + 2) \div 5 + d - 1
  <1>1. z \in Int
    OBVIOUS
  <1>2. /\ era \in Int /\ yoe \in 0 .. 399
        /\ era * 146097 + yoe * 365 + yoe \div 4 - yoe \div 100 = March(z) + 719468
    <2> HIDE DEF z
    <2> QED
      BY <1>1, EraCounts
  <1>3. doy = BeforeMonth(m) + d - 1 /\ doy \in Int /\ BeforeMonth(m) \in Int
    <2>1. (153 * ((m + 9) % 12) + 2) \div 5 = BeforeMonth(m)
      <3>1. m \in {1, 2, 3, 4, 5, 6, 7, 8, 9, 10, 11, 12}
        OBVIOUS
      <3>2. (m + 9) % 12 = IF m <= 2 THEN m + 9 ELSE m - 3
        OBVIOUS
      <3> QED
        BY <3>1, <3>2 DEF BeforeMonth
    <2>2. BeforeMonth(m) \in Int
      BY DEF BeforeMonth
    <2> QED
      BY <2>1, <2>2
  <1>4. CivilToDays(y, m, d) = era * 146097 + (yoe * 365 + yoe \div 4 - yoe \div 100 + doy) - 719468
    BY DEF CivilToDays, Era, YearOfEra
  <1>5. March(z) \in Int /\ yoe \div 4 \in Int /\ yoe \div 100 \in Int
    <2> HIDE DEF z, era, yoe
    <2> QED
      BY <1>1, <1>2, LeapYear DEF March
  <1> HIDE DEF era, yoe, doy, z
  <1>6. CivilToDays(y, m, d) = March(z) + BeforeMonth(m) + d - 1
    BY <1>2, <1>3, <1>4, <1>5
  <1> QED
    BY <1>6 DEF z

(* A date of the calendar, and as many days as exif.rs counts to it.          *)
ExifInv ==
  /\ date = [y |-> date.y, m |-> date.m, d |-> date.d]
  /\ date.y \in Int /\ date.m \in 1 .. 12 /\ date.d \in 1 .. MonthLength(date.y, date.m)
  /\ days = CivilToDays(date.y, date.m, date.d)

LEMMA LengthOfMonth ==
  ASSUME NEW y \in Int, NEW m \in 1 .. 12
  PROVE  /\ MonthLength(y, m) \in 28 .. 31
         /\ m = 2 => MonthLength(y, m) = 28 + IF Leap(y) THEN 1 ELSE 0
         /\ m \notin {2, 12} => BeforeMonth(m + 1) = BeforeMonth(m) + MonthLength(y, m)
         /\ m = 12 => MonthLength(y, m) = 31
         /\ BeforeMonth(m) \in Int
  <1>1. m \in {1, 2, 3, 4, 5, 6, 7, 8, 9, 10, 11, 12}
    OBVIOUS
  <1>2. MonthLength(y, m) = IF m = 2 THEN IF Leap(y) THEN 29 ELSE 28
                            ELSE IF m \in {4, 6, 9, 11} THEN 30 ELSE 31
    BY DEF MonthLength
  <1>3. m \notin {2, 12} => BeforeMonth(m + 1) = BeforeMonth(m) + MonthLength(y, m)
    BY <1>1, <1>2 DEF BeforeMonth
  <1>4. BeforeMonth(m) \in Int
    BY DEF BeforeMonth
  <1> QED
    BY <1>1, <1>2, <1>3, <1>4

(* The day after is one more.                                               *)
LEMMA OneMoreDay ==
  ASSUME ExifInv, NextDay
  PROVE  ExifInv'
  <1> DEFINE y == date.y
             m == date.m
             d == date.d
  <1>1. /\ y \in Int /\ m \in 1 .. 12 /\ d \in 1 .. MonthLength(y, m)
        /\ date = [y |-> y, m |-> m, d |-> d]
    BY DEF ExifInv
  <1>2. date' = Tomorrow /\ days' = CivilToDays(y, m, d) + 1
    BY DEF NextDay, ExifInv
  <1>3. MonthLength(y, m) \in 28 .. 31 /\ d \in Int /\ March(y) \in Int /\ March(y - 1) \in Int
    BY <1>1, LengthOfMonth, LeapYear DEF March
  <1>4. CivilToDays(y, m, d) = March(IF m <= 2 THEN y - 1 ELSE y) + BeforeMonth(m) + d - 1
    BY <1>1, <1>3, DaysOfDate
  <1>5. SUFFICES ASSUME NEW z \in Int, NEW n \in 1 .. 12, NEW e \in 1 .. MonthLength(z, n),
                        date' = [y |-> z, m |-> n, d |-> e],
                        CivilToDays(z, n, e) = CivilToDays(y, m, d) + 1
                 PROVE  ExifInv'
    <2>1. CASE d < MonthLength(y, m)
      <3>1. date' = [y |-> y, m |-> m, d |-> d + 1]
        BY <1>1, <1>2, <2>1 DEF Tomorrow
      <3>2. CivilToDays(y, m, d + 1) = March(IF m <= 2 THEN y - 1 ELSE y) + BeforeMonth(m) + (d + 1) - 1
        BY <1>1, <1>3, DaysOfDate
      <3>3. d + 1 \in 1 .. MonthLength(y, m)
        BY <1>1, <1>3, <2>1
      <3>4. CivilToDays(y, m, d + 1) = CivilToDays(y, m, d) + 1
        <4>1. PICK s : s = March(IF m <= 2 THEN y - 1 ELSE y)
          OBVIOUS
        <4>2. s \in Int
          BY <1>3, <4>1
        <4>3. BeforeMonth(m) \in Int
          BY <1>1, LengthOfMonth
        <4> QED
          BY <1>3, <1>4, <3>2, <4>1, <4>2, <4>3
      <3> QED
        BY <1>1, <1>5, <3>1, <3>3, <3>4
    <2>2. CASE d = MonthLength(y, m) /\ m < 12
      <3>1. date' = [y |-> y, m |-> m + 1, d |-> 1]
        BY <1>1, <1>2, <1>3, <2>2 DEF Tomorrow
      <3>2. m + 1 \in 1 .. 12 /\ BeforeMonth(m) \in Int
        BY <1>1, <2>2, LengthOfMonth
      <3>3. MonthLength(y, m + 1) \in 28 .. 31 /\ BeforeMonth(m + 1) \in Int
        BY <1>1, <3>2, LengthOfMonth
      <3>4. CivilToDays(y, m + 1, 1)
              = March(IF m + 1 <= 2 THEN y - 1 ELSE y) + BeforeMonth(m + 1) + 1 - 1
        BY <1>1, <3>2, DaysOfDate
      <3>5. CivilToDays(y, m + 1, 1) = CivilToDays(y, m, d) + 1
        <4>1. CASE m # 2
          <5>1. BeforeMonth(m + 1) = BeforeMonth(m) + d
            BY <1>1, <2>2, <4>1, LengthOfMonth
          <5>2. m + 1 <= 2 <=> m <= 2
            BY <1>1, <4>1
          <5>3. PICK s : s = March(IF m <= 2 THEN y - 1 ELSE y)
            OBVIOUS
          <5>4. s \in Int /\ s = March(IF m + 1 <= 2 THEN y - 1 ELSE y)
            BY <1>3, <5>2, <5>3
          <5> QED
            BY <1>3, <1>4, <3>2, <3>4, <5>1, <5>3, <5>4
        <4>2. CASE m = 2
          <5>1. d = 28 + IF Leap(y) THEN 1 ELSE 0
            BY <1>1, <2>2, <4>2, LengthOfMonth
          <5>2. March(y) = March(y - 1) + 365 + IF Leap(y) THEN 1 ELSE 0
            BY <1>1, LeapYear DEF March
          <5>3. BeforeMonth(2) = 337 /\ BeforeMonth(3) = 0
            BY DEF BeforeMonth
          <5>4. CivilToDays(y, m + 1, 1) = March(y)
            BY <1>3, <3>4, <4>2, <5>3
          <5>5. CivilToDays(y, m, d) = March(y - 1) + 337 + d - 1
            BY <1>3, <1>4, <4>2, <5>3
          <5> QED
            BY <1>3, <5>1, <5>2, <5>4, <5>5
        <4> QED
          BY <4>1, <4>2
      <3>6. 1 \in 1 .. MonthLength(y, m + 1)
        BY <3>3
      <3> QED
        BY <1>1, <1>5, <3>1, <3>2, <3>5, <3>6
    <2>3. CASE d = MonthLength(y, m) /\ m = 12
      <3>1. PICK z \in Int : z = y + 1 /\ z - 1 = y
        BY <1>1
      <3>2. date' = [y |-> z, m |-> 1, d |-> 1]
        BY <1>1, <1>2, <1>3, <2>3, <3>1 DEF Tomorrow
      <3>3. MonthLength(z, 1) \in 28 .. 31 /\ d = 31
        BY <1>1, <2>3, LengthOfMonth
      <3>4. CivilToDays(z, 1, 1) = March(z - 1) + BeforeMonth(1) + 1 - 1
        BY DaysOfDate
      <3>5. BeforeMonth(12) = 275 /\ BeforeMonth(1) = 306 /\ March(z - 1) = March(y)
        BY <3>1 DEF BeforeMonth
      <3>6. CivilToDays(z, 1, 1) = CivilToDays(y, m, d) + 1
        BY <1>3, <1>4, <2>3, <3>3, <3>4, <3>5
      <3>7. 1 \in 1 .. 12 /\ 1 \in 1 .. MonthLength(z, 1)
        BY <3>3
      <3> QED
        BY <1>5, <3>2, <3>6, <3>7
    <2> QED
      BY <1>1, <1>3, <2>1, <2>2, <2>3
  <1>6. date'.y = z /\ date'.m = n /\ date'.d = e
    BY <1>5
  <1> HIDE DEF y, m, d
  <1> QED
    BY <1>2, <1>5, <1>6 DEF ExifInv

(* A date of the calendar has its seconds as `civil_to_unix` counts them.      *)
LEMMA TimesOfDay ==
  ASSUME ExifInv
  PROVE  CalendarExact
  <1>1. date.m \in 1 .. 12 /\ date.d \in 1 .. 31
    <2>1. date.y \in Int /\ date.m \in 1 .. 12 /\ date.d \in 1 .. MonthLength(date.y, date.m)
      BY DEF ExifInv
    <2>2. MonthLength(date.y, date.m) \in 28 .. 31
      BY <2>1, LengthOfMonth
    <2> QED
      BY <2>1, <2>2
  <1>2. /\ 0 * 3600 + 0 * 60 + 0 = 0 /\ 23 * 3600 + 59 * 60 + 59 = 86399
        /\ 23 * 3600 + 59 * 60 + 60 = 86400
    OBVIOUS
  <1>3. /\ Plausible(date.m, date.d, 0, 0, 0) /\ Plausible(date.m, date.d, 23, 59, 59)
        /\ Plausible(date.m, date.d, 23, 59, 60)
    BY <1>1 DEF Plausible
  <1>4. days = CivilToDays(date.y, date.m, date.d)
    BY DEF ExifInv
  <1>5. /\ CivilToUnix(date.y, date.m, date.d, 0, 0, 0) = <<days, 0 * 3600 + 0 * 60 + 0>>
        /\ CivilToUnix(date.y, date.m, date.d, 23, 59, 59) = <<days, 23 * 3600 + 59 * 60 + 59>>
        /\ CivilToUnix(date.y, date.m, date.d, 23, 59, 60) = <<days, 23 * 3600 + 59 * 60 + 60>>
    BY <1>3, <1>4 DEF CivilToUnix
  <1> QED
    BY <1>2, <1>5 DEF CalendarExact

(* From the first day of any year, day by day for as long as one likes, the    *)
(* seconds of a picture's date are those of the calendar: over every end of a  *)
(* month, leap day, century and era (exif.rs 86).                             *)
THEOREM CalendarIsExact == ExifSpec => []CalendarExact
  <1>1. ExifInit => ExifInv
    <2> SUFFICES ASSUME ExifInit PROVE ExifInv
      OBVIOUS
    <2>1. PICK y \in StartYears : date = [y |-> y, m |-> 1, d |-> 1]
      BY DEF ExifInit
    <2>2. y \in Int
      BY ExifAssumption
    <2>3. date.y = y /\ date.m = 1 /\ date.d = 1
      BY <2>1
    <2>4. MonthLength(y, 1) \in 28 .. 31
      BY <2>2, LengthOfMonth
    <2>5. CivilToDays(y, 1, 1) = March(y - 1) + BeforeMonth(1) + 1 - 1
      BY <2>2, DaysOfDate
    <2>6. BeforeMonth(1) = 306 /\ March(y - 1) \in Int
      BY <2>2, LeapYear DEF BeforeMonth, March
    <2>7. days = CivilToDays(y, 1, 1)
      BY <2>2, <2>3, <2>5, <2>6, YearsBegin DEF ExifInit
    <2> QED
      BY <2>1, <2>2, <2>3, <2>4, <2>7 DEF ExifInv
  <1>2. ExifInv /\ [NextDay]_exifVars => ExifInv'
    <2>1. ExifInv /\ UNCHANGED exifVars => ExifInv'
      BY DEF ExifInv, exifVars
    <2> QED
      BY <2>1, OneMoreDay
  <1> QED
    BY <1>1, <1>2, TimesOfDay, PTL DEF ExifSpec

(* Some positions have a first and a last one.                               *)
LEMMA FirstAndLast ==
  ASSUME NEW S, NEW n \in Nat, S \subseteq 1 .. n, S # {}
  PROVE  /\ \E i \in S : \A j \in S : i <= j
         /\ \E i \in S : \A j \in S : i >= j
  <1>1. \E i \in S : \A j \in S : i <= j
    <2>1. S \in SUBSET Nat
      OBVIOUS
    <2> QED
      BY <2>1, LeastOf
  <1>2. \E i \in S : \A j \in S : i >= j
    <2> DEFINE T == {n - i : i \in S}
    <2>1. T \in SUBSET Nat /\ T # {}
      <3>1. \A i \in S : n - i \in Nat
        OBVIOUS
      <3> QED
        BY <3>1
    <2>2. PICK t \in T : \A u \in T : t <= u
      <3> HIDE DEF T
      <3> QED
        BY <2>1, LeastOf
    <2>3. PICK i \in S : t = n - i
      OBVIOUS
    <2>4. \A j \in S : n - i <= n - j
      BY <2>2, <2>3
    <2> QED
      BY <2>4
  <1> QED
    BY <1>1, <1>2

(* An object begins with a brace and ends with one.                          *)
LEMMA ObjectBetweenBraces ==
  ASSUME NEW text \in Seq(Symbols), IsObject(text)
  PROVE  Len(text) \in Nat \ {0} /\ text[1] = "open" /\ text[Len(text)] = "close"
  <1> DEFINE n == Len(text)
             Opened(i) == {k \in 1 .. i : text[k] = "open"}
             Closed(i) == {k \in 1 .. i : text[k] = "close"}
  <1>1. n \in Nat \ {0} /\ text[1] = "open"
    BY EmptySeq, LenProperties DEF IsObject
  <1>2. \A i \in 0 .. n : /\ IsFiniteSet(Opened(i)) /\ IsFiniteSet(Closed(i))
                          /\ Cardinality(Opened(i)) \in Nat /\ Cardinality(Closed(i)) \in Nat
    <2> SUFFICES ASSUME NEW i \in 0 .. n
                 PROVE  /\ IsFiniteSet(Opened(i)) /\ IsFiniteSet(Closed(i))
                        /\ Cardinality(Opened(i)) \in Nat /\ Cardinality(Closed(i)) \in Nat
      OBVIOUS
    <2>1. i \in Int
      BY <1>1
    <2>2. IsFiniteSet(1 .. i)
      BY <2>1, FS_Interval
    <2>3. IsFiniteSet(Opened(i)) /\ IsFiniteSet(Closed(i))
      BY <2>2, FS_Subset
    <2> QED
      BY <2>3, FS_CardinalityType
  <1>3. \A i \in 0 .. n : Nesting(text, i) = Cardinality(Opened(i)) - Cardinality(Closed(i))
    BY DEF Nesting
  <1>4. Opened(n - 1) \subseteq Opened(n) /\ Opened(0) = {} /\ Closed(0) = {}
    BY <1>1
  <1>5. SUFFICES ASSUME text[n] # "close" PROVE FALSE
    BY <1>1
  <1>6. Closed(n) = Closed(n - 1)
    BY <1>1, <1>5
  <1>7. Nesting(text, n) = 0
    BY DEF IsObject
  <1> HIDE DEF Opened, Closed
  <1>8. n - 1 \in 0 .. n /\ n \in 0 .. n
    BY <1>1
  <1>9. Cardinality(Opened(n - 1)) <= Cardinality(Opened(n))
    BY <1>2, <1>4, <1>8, FS_Subset
  <1>10. Nesting(text, n - 1) \in Int /\ Nesting(text, n - 1) <= 0
    <2>1. PICK o, c, p \in Nat : /\ o = Cardinality(Opened(n - 1)) /\ c = Cardinality(Closed(n - 1))
                                 /\ p = Cardinality(Opened(n))
      BY <1>2, <1>8
    <2>2. Nesting(text, n - 1) = o - c /\ p - c = 0
      BY <1>3, <1>6, <1>7, <1>8, <2>1
    <2> QED
      BY <1>9, <2>1, <2>2
  <1>11. n = 1
    <2>1. \A i \in 1 .. n - 1 : Nesting(text, i) > 0
      BY DEF IsObject
    <2>2. n # 1 => n - 1 \in 1 .. n - 1
      <3> HIDE DEF n
      <3> QED
        BY <1>1
    <2> QED
      BY <1>10, <2>1, <2>2
  <1>12. Opened(1) = {1}
    BY <1>1 DEF Opened
  <1>13. Closed(1) = {}
    BY <1>4, <1>6, <1>11
  <1>14. Cardinality(Opened(1)) = 1 /\ Cardinality(Closed(1)) = 0
    BY <1>12, <1>13, FS_EmptySet, FS_Singleton
  <1>15. Nesting(text, 1) = 1 - 0
    BY <1>3, <1>8, <1>11, <1>14
  <1> QED
    BY <1>7, <1>11, <1>15

(* Of a reply of any length, in whatever order words and braces come: an object *)
(* with no brace outside it is what is taken; and what is taken has every       *)
(* object of the reply in it, so that none in the middle is taken for the whole *)
(* (dafs-enrich lib.rs 353).                                                *)
THEOREM ObjectsAreFound == RepliesSpec => []ObjectIsFound
  <1> DEFINE RepliesInv == content \in Seq(Symbols)
  <1>1. RepliesInit => RepliesInv
    BY DEF RepliesInit
  <1>2. RepliesInv /\ [Receive]_content => RepliesInv'
    BY DEF Receive
  <1>3. RepliesInv => ObjectIsFound
    <2> DEFINE opens == Positions("open")
               closes == Positions("close")
    <2> SUFFICES ASSUME content \in Seq(Symbols),
                        NEW i \in DOMAIN content, NEW j \in DOMAIN content,
                        i <= j, IsObject(SubSeq(content, i, j))
                 PROVE  /\ (\A k \in opens \cup closes : i <= k /\ k <= j)
                             => ParseModelReply.object = SubSeq(content, i, j)
                        /\ ParseModelReply.error = "none" => i >= FirstBrace /\ j <= LastBrace
      BY DEF ObjectIsFound
    <2> DEFINE span == SubSeq(content, i, j)
    <2>1. /\ DOMAIN content = 1 .. Len(content) /\ Len(content) \in Nat
          /\ \A k \in DOMAIN content : content[k] \in Symbols
      BY LenProperties, ElementOfSeq
    <2>2. span \in Seq(Symbols) /\ Len(span) = j - i + 1 /\ span[1] = content[i]
          /\ span[j - i + 1] = content[j]
      <3>1. i \in Int /\ j \in Int /\ i .. j \subseteq DOMAIN content
        BY <2>1
      <3>2. \A k \in i .. j : content[k] \in Symbols
        BY <2>1, <3>1
      <3>3. /\ span \in Seq(Symbols)
            /\ Len(span) = j - i + 1
            /\ \A k \in 1 .. j - i + 1 : span[k] = content[i + k - 1]
        BY <3>1, <3>2, SubSeqProperties
      <3>4. 1 \in 1 .. j - i + 1 /\ j - i + 1 \in 1 .. j - i + 1
        BY <3>1
      <3>5. i + 1 - 1 = i /\ i + (j - i + 1) - 1 = j
        BY <3>1
      <3> HIDE DEF span
      <3> QED
        BY <3>3, <3>4, <3>5
    <2>3. i \in opens /\ j \in closes
      <3>1. span[1] = "open" /\ span[Len(span)] = "close"
        BY <2>2, ObjectBetweenBraces
      <3> QED
        BY <2>2, <3>1 DEF Positions
    <2>4. opens \subseteq 1 .. Len(content) /\ closes \subseteq 1 .. Len(content)
      BY <2>1 DEF Positions
    <2>5. FirstBrace \in opens /\ \A k \in opens : FirstBrace <= k
      BY <2>1, <2>3, <2>4, FirstAndLast DEF FirstBrace
    <2>6. LastBrace \in closes /\ \A k \in closes : LastBrace >= k
      BY <2>1, <2>3, <2>4, FirstAndLast DEF LastBrace
    <2>7. ASSUME \A k \in opens \cup closes : i <= k /\ k <= j
          PROVE  ParseModelReply.object = span
      <3>1. FirstBrace = i /\ LastBrace = j
        BY <2>1, <2>3, <2>4, <2>5, <2>6, <2>7
      <3>2. opens # {} /\ closes # {} /\ ~ (LastBrace < FirstBrace)
        BY <2>1, <2>3, <3>1
      <3>3. IsObject(SubSeq(content, FirstBrace, LastBrace))
        BY <3>1
      <3>4. ParseModelReply = [error |-> "none", object |-> SubSeq(content, FirstBrace, LastBrace)]
        BY <3>2, <3>3 DEF ParseModelReply
      <3> QED
        BY <3>1, <3>4
    <2>8. i >= FirstBrace /\ j <= LastBrace
      BY <2>1, <2>3, <2>4, <2>5, <2>6
    <2> QED
      BY <2>7, <2>8
  <1> QED
    BY <1>1, <1>2, <1>3, PTL DEF RepliesSpec

-----------------------------------------------------------------------------
(* Paths. What a recursive function is, if each step leads from one set into    *)
(* the next.                                                                *)
Iterates(f, n, x, F) == f = [i \in 0 .. n |-> IF i = 0 THEN x ELSE F[<<f[i - 1], i>>]]

LEMMA StepsLead ==
  ASSUME NEW n \in Nat, NEW X, NEW F, NEW x \in X[0],
         \A i \in 1 .. n : \A y \in X[i - 1] : F[<<y, i>>] \in X[i]
  PROVE  \E f : Iterates(f, n, x, F) /\ \A i \in 0 .. n : f[i] \in X[i]
  <1> DEFINE Leads(f, k) == /\ f = [i \in 0 .. k |-> IF i = 0 THEN x ELSE F[<<f[i - 1], i>>]]
                            /\ \A i \in 0 .. k : f[i] \in X[i]
             Wrong == {k \in 0 .. n : ~ \E f : Leads(f, k)}
  <1>1. 0 \notin Wrong
    <2> DEFINE g == [i \in 0 .. 0 |-> x]
    <2>1. Leads(g, 0)
      OBVIOUS
    <2> QED
      BY <2>1
  <1>2. ASSUME NEW k \in Nat, k + 1 <= n, k \notin Wrong
        PROVE  k + 1 \notin Wrong
    <2>1. PICK f : Leads(f, k)
      BY <1>2
    <2> DEFINE g == [i \in 0 .. k + 1 |-> IF i <= k THEN f[i] ELSE F[<<f[k], k + 1>>]]
    <2>2. f = [i \in 0 .. k |-> IF i = 0 THEN x ELSE F[<<f[i - 1], i>>]]
      BY <2>1
    <2>3. ASSUME NEW i \in 0 .. k + 1
          PROVE  g[i] = (IF i = 0 THEN x ELSE F[<<g[i - 1], i>>]) /\ g[i] \in X[i]
      <3>1. CASE i <= k
        <4>1. i \in 0 .. k
          BY <1>2, <3>1
        <4>2. g[i] = f[i] /\ (i # 0 => g[i - 1] = f[i - 1])
          BY <1>2, <4>1
        <4>3. f[i] = IF i = 0 THEN x ELSE F[<<f[i - 1], i>>]
          BY <2>2, <4>1
        <4>4. f[i] \in X[i]
          BY <2>1, <4>1
        <4> HIDE DEF g
        <4> QED
          BY <4>2, <4>3, <4>4
      <3>2. CASE i = k + 1
        <4>1. g[i] = F[<<f[k], i>>] /\ g[i - 1] = f[k] /\ i # 0
          BY <1>2, <3>2
        <4>2. k \in 0 .. k /\ i \in 1 .. n /\ i - 1 = k
          BY <1>2, <3>2
        <4>3. F[<<f[k], i>>] \in X[i]
          BY <2>1, <4>2
        <4> HIDE DEF g
        <4> QED
          BY <4>1, <4>3
      <3> QED
        BY <1>2, <3>1, <3>2
    <2>4. g = [i \in 0 .. k + 1 |-> IF i = 0 THEN x ELSE F[<<g[i - 1], i>>]]
      <3>1. g = [i \in 0 .. k + 1 |-> g[i]]
        OBVIOUS
      <3> HIDE DEF g
      <3> QED
        BY <2>3, <3>1
    <2>5. Leads(g, k + 1)
      BY <2>3, <2>4
    <2> QED
      BY <2>5
  <1>3. Wrong = {}
    <2> SUFFICES ASSUME Wrong # {} PROVE FALSE
      OBVIOUS
    <2>1. Wrong \in SUBSET Nat
      OBVIOUS
    <2>2. PICK k \in Wrong : \A j \in Wrong : k <= j
      <3> HIDE DEF Wrong
      <3> QED
        BY <2>1, LeastOf
    <2>3. k \in 0 .. n /\ k # 0
      BY <1>1, <2>2
    <2>4. k - 1 \in Nat /\ k - 1 + 1 = k /\ k - 1 + 1 <= n /\ ~ (k <= k - 1)
      BY <2>3
    <2>5. k - 1 \notin Wrong
      BY <2>2, <2>4
    <2> HIDE DEF Wrong
    <2> QED
      BY <1>2, <2>2, <2>4, <2>5
  <1>4. n \in 0 .. n
    OBVIOUS
  <1>5. \E f : Leads(f, n)
    <2> HIDE DEF Leads
    <2> QED
      BY <1>3, <1>4
  <1> QED
    BY <1>5 DEF Iterates

(* The tables: rows link upwards, and no two have a place in common. As long as *)
(* no rollback took ids the cache holds, the path a row stands for is that of   *)
(* its parent and its name, and the cache agrees with the table of names.      *)
Row == [parent : Nat, component : Nat, dir : BOOLEAN]

TablesOK(c, f, t) ==
  /\ c \in Seq(Names) /\ f \in Seq(Row) /\ t \in Seq(Seq(Names)) /\ Len(t) = Len(f)
  /\ \A i \in 1 .. Len(f) : f[i].parent \in 0 .. i - 1 /\ f[i].component \in 1 .. Len(c)
  /\ \A i, j \in 1 .. Len(f) :
       f[i].parent = f[j].parent /\ f[i].component = f[j].component => i = j

PathTo(t, i) == IF i = 0 THEN <<>> ELSE t[i]

TruthOK(c, f, t) ==
  /\ \A i, j \in 1 .. Len(c) : c[i] = c[j] => i = j
  /\ \A i \in 1 .. Len(f) : t[i] = Append(PathTo(t, f[i].parent), c[f[i].component])
                            /\ Len(t[i]) <= MaxDepth

Caches == UNION {[S -> Nat] : S \in SUBSET Names}

CacheFits(h) ==
  /\ h \in Caches
  /\ IsFiniteSet(DOMAIN h) /\ Cardinality(DOMAIN h) <= Capacity

CacheOK(c, h) == \A n \in DOMAIN h : h[n] \in 1 .. Len(c) /\ c[h[n]] = n

Prefixed(c, e) == Len(c) <= Len(e) /\ \A i \in 1 .. Len(c) : c[i] = e[i]

(* What recording works on, from the names c0 on; and with w.id at a path.     *)
Works ==
  [components : Seq(Names), files : Seq(Row), cache : Caches,
   truth : Seq(Seq(Names)), id : Nat, failed : BOOLEAN]

WorkOK(w, c0, lost) ==
  /\ w \in Works /\ CacheFits(w.cache)
  /\ TablesOK(w.components, w.files, w.truth) /\ Prefixed(c0, w.components)
  /\ ~lost => TruthOK(w.components, w.files, w.truth) /\ CacheOK(w.components, w.cache)

WorkAt(w, c0, lost, path) ==
  /\ WorkOK(w, c0, lost)
  /\ ~w.failed => /\ w.id \in 0 .. Len(w.files)
                  /\ ~lost => PathTo(w.truth, w.id) = path

(* The parts of such a record when some of them are changed.                 *)
Parts(w, c, f, h, t, k, b) ==
  /\ w = [components |-> c, files |-> f, cache |-> h, truth |-> t, id |-> k, failed |-> b]
  /\ w.components = c /\ w.files = f /\ w.cache = h /\ w.truth = t /\ w.id = k /\ w.failed = b

LEMMA PartsOf ==
  ASSUME NEW w \in Works
  PROVE  /\ Parts(w, w.components, w.files, w.cache, w.truth, w.id, w.failed)
         /\ w.components \in Seq(Names) /\ w.files \in Seq(Row)
         /\ w.cache \in Caches
         /\ w.truth \in Seq(Seq(Names)) /\ w.id \in Nat /\ w.failed \in BOOLEAN
  BY DEF Works, Parts

LEMMA PartsMade ==
  ASSUME NEW w, NEW c \in Seq(Names), NEW f \in Seq(Row), NEW h \in Caches,
         NEW t \in Seq(Seq(Names)), NEW k \in Nat, NEW b \in BOOLEAN, Parts(w, c, f, h, t, k, b)
  PROVE  w \in Works
  BY DEF Works, Parts

LEMMA IdChanged ==
  ASSUME NEW w, NEW c, NEW f, NEW h, NEW t, NEW k, NEW b, Parts(w, c, f, h, t, k, b), NEW l
  PROVE  Parts([w EXCEPT !.id = l], c, f, h, t, l, b)
  <1>1. PICK m : m = [w EXCEPT !.id = l]
    OBVIOUS
  <1>2. Parts(m, c, f, h, t, l, b)
    BY <1>1 DEF Parts
  <1> QED
    BY <1>1, <1>2

LEMMA CacheChanged ==
  ASSUME NEW w, NEW c, NEW f, NEW h, NEW t, NEW k, NEW b, Parts(w, c, f, h, t, k, b), NEW g
  PROVE  Parts([w EXCEPT !.cache = g], c, f, g, t, k, b)
  <1>1. PICK m : m = [w EXCEPT !.cache = g]
    OBVIOUS
  <1>2. Parts(m, c, f, g, t, k, b)
    BY <1>1 DEF Parts
  <1> QED
    BY <1>1, <1>2

LEMMA FailedChanged ==
  ASSUME NEW w, NEW c, NEW f, NEW h, NEW t, NEW k, NEW b, Parts(w, c, f, h, t, k, b), NEW l
  PROVE  Parts([w EXCEPT !.failed = l], c, f, h, t, k, l)
  <1>1. PICK m : m = [w EXCEPT !.failed = l]
    OBVIOUS
  <1>2. Parts(m, c, f, h, t, k, l)
    BY <1>1 DEF Parts
  <1> QED
    BY <1>1, <1>2

LEMMA NamesChanged ==
  ASSUME NEW w, NEW c, NEW f, NEW h, NEW t, NEW k, NEW b, Parts(w, c, f, h, t, k, b), NEW e, NEW l
  PROVE  Parts([w EXCEPT !.components = e, !.id = l], e, f, h, t, l, b)
  <1>1. PICK m : m = [w EXCEPT !.components = e]
    OBVIOUS
  <1>2. Parts(m, e, f, h, t, k, b)
    BY <1>1 DEF Parts
  <1>3. PICK n : n = [m EXCEPT !.id = l]
    OBVIOUS
  <1>4. Parts(n, e, f, h, t, l, b)
    BY <1>2, <1>3 DEF Parts
  <1>5. n = [w EXCEPT !.components = e, !.id = l]
    BY <1>1, <1>3, Zenon
  <1> QED
    BY <1>4, <1>5, Zenon

LEMMA RowsChanged ==
  ASSUME NEW w, NEW c, NEW f, NEW h, NEW t, NEW k, NEW b, Parts(w, c, f, h, t, k, b),
         NEW e, NEW u, NEW l
  PROVE  Parts([w EXCEPT !.files = e, !.truth = u, !.id = l], c, e, h, u, l, b)
  <1>1. PICK m : m = [w EXCEPT !.files = e]
    OBVIOUS
  <1>2. Parts(m, c, e, h, t, k, b)
    BY <1>1 DEF Parts
  <1>3. PICK n : n = [m EXCEPT !.truth = u]
    OBVIOUS
  <1>4. Parts(n, c, e, h, u, k, b)
    BY <1>2, <1>3 DEF Parts
  <1>5. PICK o : o = [n EXCEPT !.id = l]
    OBVIOUS
  <1>6. Parts(o, c, e, h, u, l, b)
    BY <1>4, <1>5 DEF Parts
  <1>7. o = [w EXCEPT !.files = e, !.truth = u, !.id = l]
    BY <1>1, <1>3, <1>5, Zenon
  <1> QED
    BY <1>6, <1>7, Zenon

Is(v, c, f, h, t, k, b) ==
  /\ v \in Works
  /\ v.components = c /\ v.files = f /\ v.cache = h /\ v.truth = t /\ v.id = k /\ v.failed = b

LEMMA IdSet ==
  ASSUME NEW w \in Works, NEW k \in Nat,
         NEW v, v = [w EXCEPT !.id = k]
  PROVE  Is(v, w.components, w.files, w.cache, w.truth, k, w.failed)
  <1>1. Parts(v, w.components, w.files, w.cache, w.truth, k, w.failed)
    <2>1. Parts(w, w.components, w.files, w.cache, w.truth, w.id, w.failed)
      BY PartsOf
    <2>2. Parts([w EXCEPT !.id = k], w.components, w.files, w.cache, w.truth, k, w.failed)
      BY <2>1, IdChanged, Zenon
    <2> QED
      BY <2>2, Zenon
  <1>2. v \in Works
    <2>1. /\ w.components \in Seq(Names) /\ w.files \in Seq(Row) /\ w.cache \in Caches
          /\ w.truth \in Seq(Seq(Names)) /\ w.id \in Nat /\ w.failed \in BOOLEAN
      BY PartsOf
    <2> QED
      BY <1>1, <2>1, PartsMade, SMT
  <1> QED
    BY <1>1, <1>2 DEF Is, Parts

LEMMA CacheSet ==
  ASSUME NEW w \in Works, NEW h \in Caches,
         NEW v, v = [w EXCEPT !.cache = h]
  PROVE  Is(v, w.components, w.files, h, w.truth, w.id, w.failed)
  <1>1. Parts(v, w.components, w.files, h, w.truth, w.id, w.failed)
    <2>1. Parts(w, w.components, w.files, w.cache, w.truth, w.id, w.failed)
      BY PartsOf
    <2>2. Parts([w EXCEPT !.cache = h], w.components, w.files, h, w.truth, w.id, w.failed)
      BY <2>1, CacheChanged, Zenon
    <2> QED
      BY <2>2, Zenon
  <1>2. v \in Works
    <2>1. /\ w.components \in Seq(Names) /\ w.files \in Seq(Row) /\ w.cache \in Caches
          /\ w.truth \in Seq(Seq(Names)) /\ w.id \in Nat /\ w.failed \in BOOLEAN
      BY PartsOf
    <2> QED
      BY <1>1, <2>1, PartsMade, SMT
  <1> QED
    BY <1>1, <1>2 DEF Is, Parts

LEMMA FailedSet ==
  ASSUME NEW w \in Works, NEW b \in BOOLEAN,
         NEW v, v = [w EXCEPT !.failed = b]
  PROVE  Is(v, w.components, w.files, w.cache, w.truth, w.id, b)
  <1>1. Parts(v, w.components, w.files, w.cache, w.truth, w.id, b)
    <2>1. Parts(w, w.components, w.files, w.cache, w.truth, w.id, w.failed)
      BY PartsOf
    <2>2. Parts([w EXCEPT !.failed = b], w.components, w.files, w.cache, w.truth, w.id, b)
      BY <2>1, FailedChanged, Zenon
    <2> QED
      BY <2>2, Zenon
  <1>2. v \in Works
    <2>1. /\ w.components \in Seq(Names) /\ w.files \in Seq(Row) /\ w.cache \in Caches
          /\ w.truth \in Seq(Seq(Names)) /\ w.id \in Nat /\ w.failed \in BOOLEAN
      BY PartsOf
    <2> QED
      BY <1>1, <2>1, PartsMade, SMT
  <1> QED
    BY <1>1, <1>2 DEF Is, Parts

LEMMA NamesSet ==
  ASSUME NEW w \in Works, NEW c \in Seq(Names), NEW k \in Nat,
         NEW v, v = [w EXCEPT !.components = c, !.id = k]
  PROVE  Is(v, c, w.files, w.cache, w.truth, k, w.failed)
  <1>1. Parts(v, c, w.files, w.cache, w.truth, k, w.failed)
    <2>1. Parts(w, w.components, w.files, w.cache, w.truth, w.id, w.failed)
      BY PartsOf
    <2>2. Parts([w EXCEPT !.components = c, !.id = k], c, w.files, w.cache, w.truth, k, w.failed)
      BY <2>1, NamesChanged, Zenon
    <2> QED
      BY <2>2, Zenon
  <1>2. v \in Works
    <2>1. /\ w.components \in Seq(Names) /\ w.files \in Seq(Row) /\ w.cache \in Caches
          /\ w.truth \in Seq(Seq(Names)) /\ w.id \in Nat /\ w.failed \in BOOLEAN
      BY PartsOf
    <2> QED
      BY <1>1, <2>1, PartsMade, SMT
  <1> QED
    BY <1>1, <1>2 DEF Is, Parts

LEMMA RowsSet ==
  ASSUME NEW w \in Works, NEW f \in Seq(Row), NEW t \in Seq(Seq(Names)), NEW k \in Nat,
         NEW v, v = [w EXCEPT !.files = f, !.truth = t, !.id = k]
  PROVE  Is(v, w.components, f, w.cache, t, k, w.failed)
  <1>1. Parts(v, w.components, f, w.cache, t, k, w.failed)
    <2>1. Parts(w, w.components, w.files, w.cache, w.truth, w.id, w.failed)
      BY PartsOf
    <2>2. Parts([w EXCEPT !.files = f, !.truth = t, !.id = k], w.components, f, w.cache, t, k, w.failed)
      BY <2>1, RowsChanged, Zenon
    <2> QED
      BY <2>2, Zenon
  <1>2. v \in Works
    <2>1. /\ w.components \in Seq(Names) /\ w.files \in Seq(Row) /\ w.cache \in Caches
          /\ w.truth \in Seq(Seq(Names)) /\ w.id \in Nat /\ w.failed \in BOOLEAN
      BY PartsOf
    <2> QED
      BY <1>1, <2>1, PartsMade, SMT
  <1> QED
    BY <1>1, <1>2 DEF Is, Parts

(* One more name, and the rows and the cache agree with the names as before.   *)
LEMMA OneMoreName ==
  ASSUME NEW c, NEW f, NEW t, TablesOK(c, f, t), NEW name \in Names
  PROVE  /\ TablesOK(Append(c, name), f, t) /\ Prefixed(c, Append(c, name))
         /\ TruthOK(c, f, t) /\ name \notin Range(c) => TruthOK(Append(c, name), f, t)
         /\ \A h : CacheOK(c, h) => CacheOK(Append(c, name), h)
         /\ Len(Append(c, name)) = Len(c) + 1 /\ Append(c, name)[Len(c) + 1] = name
  <1> DEFINE e == Append(c, name)
  <1>1. c \in Seq(Names) /\ Len(c) \in Nat
    BY LenProperties DEF TablesOK
  <1>2. /\ e \in Seq(Names) /\ Len(e) = Len(c) + 1 /\ e[Len(c) + 1] = name
        /\ \A i \in 1 .. Len(c) : e[i] = c[i]
    BY <1>1, AppendProperties
  <1> HIDE DEF e
  <1>3. 1 .. Len(c) \subseteq 1 .. Len(e)
    BY <1>1, <1>2
  <1>4. TablesOK(e, f, t)
    BY <1>2, <1>3 DEF TablesOK
  <1>5. Prefixed(c, e)
    BY <1>1, <1>2 DEF Prefixed
  <1>6. ASSUME TruthOK(c, f, t), name \notin Range(c)
        PROVE  TruthOK(e, f, t)
    <2>1. \A i \in 1 .. Len(c) : c[i] # name
      BY <1>1, <1>6, LenProperties DEF Range
    <2>2. \A i, j \in 1 .. Len(e) : e[i] = e[j] => i = j
      <3> SUFFICES ASSUME NEW i \in 1 .. Len(e), NEW j \in 1 .. Len(e), e[i] = e[j]
                   PROVE  i = j
        OBVIOUS
      <3>1. i \in 1 .. Len(c) \/ i = Len(c) + 1
        BY <1>1, <1>2
      <3>2. j \in 1 .. Len(c) \/ j = Len(c) + 1
        BY <1>1, <1>2
      <3>3. \A k, l \in 1 .. Len(c) : c[k] = c[l] => k = l
        BY <1>6 DEF TruthOK
      <3> QED
        BY <1>2, <2>1, <3>1, <3>2, <3>3
    <2>3. ASSUME NEW i \in 1 .. Len(f)
          PROVE  t[i] = Append(PathTo(t, f[i].parent), e[f[i].component]) /\ Len(t[i]) <= MaxDepth
      <3>1. f[i].component \in 1 .. Len(c)
        BY DEF TablesOK
      <3>2. t[i] = Append(PathTo(t, f[i].parent), c[f[i].component]) /\ Len(t[i]) <= MaxDepth
        BY <1>6 DEF TruthOK
      <3> QED
        BY <1>2, <3>1, <3>2
    <2> QED
      BY <2>2, <2>3 DEF TruthOK
  <1>7. \A h : CacheOK(c, h) => CacheOK(e, h)
    <2> SUFFICES ASSUME NEW h, CacheOK(c, h), NEW n \in DOMAIN h
                 PROVE  h[n] \in 1 .. Len(e) /\ e[h[n]] = n
      BY DEF CacheOK
    <2>1. h[n] \in 1 .. Len(c) /\ c[h[n]] = n
      BY DEF CacheOK
    <2> QED
      BY <1>2, <1>3, <2>1
  <1> QED
    BY <1>2, <1>4, <1>5, <1>6, <1>7 DEF e

LEMMA PrefixedTransitive ==
  ASSUME NEW a \in Seq(Names), NEW b \in Seq(Names), NEW c \in Seq(Names), Prefixed(a, b), Prefixed(b, c)
  PROVE  Prefixed(a, c)
  <1>1. Len(a) \in Nat /\ Len(b) \in Nat /\ Len(c) \in Nat
    BY LenProperties
  <1> QED
    BY <1>1 DEF Prefixed

(* What is left as it was, and the name that was found, by either of the       *)
(* interner's ways.                                                         *)
Interned(w, v, name, lost) ==
  /\ v.files = w.files /\ v.truth = w.truth /\ v.failed = w.failed /\ v.id \in Nat
  /\ ~lost => v.id \in 1 .. Len(v.components) /\ v.components[v.id] = name

LEMMA LookupKeeps ==
  ASSUME NEW w, NEW c0 \in Seq(Names), NEW lost \in BOOLEAN, WorkOK(w, c0, lost), NEW name \in Names
  PROVE  /\ WorkOK(LookupOrInsert(w, name), c0, lost)
         /\ Interned(w, LookupOrInsert(w, name), name, FALSE)
         /\ LookupOrInsert(w, name).cache = w.cache
  <1> DEFINE v == LookupOrInsert(w, name)
             c == w.components
  <1>1. /\ w \in Works /\ TablesOK(c, w.files, w.truth) /\ Prefixed(c0, c)
        /\ c \in Seq(Names) /\ Len(c) \in Nat /\ DOMAIN c = 1 .. Len(c)
    BY LenProperties DEF WorkOK, Works
  <1>2. CASE name \in Range(c)
    <2> DEFINE k == CHOOSE i \in DOMAIN c : c[i] = name
    <2>1. k \in DOMAIN c /\ c[k] = name
      BY <1>2 DEF Range
    <2>2. v = [w EXCEPT !.id = k]
      BY <1>2 DEF LookupOrInsert
    <2> HIDE DEF k
    <2>3. /\ v \in Works /\ v.components = c /\ v.files = w.files /\ v.truth = w.truth
          /\ v.cache = w.cache /\ v.failed = w.failed /\ v.id = k
      <3>1. k \in Nat
        BY <1>1, <2>1
      <3>2. Is(v, c, w.files, w.cache, w.truth, k, w.failed)
        BY <1>1, <2>2, <3>1, IdSet
      <3> QED
        BY <3>2 DEF Is
    <2> HIDE DEF v
    <2>4. WorkOK(v, c0, lost)
      BY <2>3 DEF WorkOK
    <2> QED
      BY <1>1, <2>1, <2>3, <2>4 DEF v, Interned
  <1>3. CASE name \notin Range(c)
    <2> DEFINE e == Append(c, name)
    <2>1. v = [w EXCEPT !.components = e, !.id = Len(c) + 1]
      BY <1>3 DEF LookupOrInsert
    <2>2. /\ TablesOK(e, w.files, w.truth) /\ Prefixed(c, e)
          /\ TruthOK(c, w.files, w.truth) => TruthOK(e, w.files, w.truth)
          /\ CacheOK(c, w.cache) => CacheOK(e, w.cache)
          /\ Len(e) = Len(c) + 1 /\ e[Len(c) + 1] = name
      BY <1>1, <1>3, OneMoreName
    <2>3. e \in Seq(Names) /\ Prefixed(c0, e)
      BY <1>1, <2>2, PrefixedTransitive DEF TablesOK
    <2> HIDE DEF e
    <2>4. /\ v \in Works /\ v.components = e /\ v.files = w.files /\ v.truth = w.truth
          /\ v.cache = w.cache /\ v.failed = w.failed /\ v.id = Len(c) + 1
      <3>1. PICK k \in Nat : k = Len(c) + 1
        BY <1>1
      <3>2. Is(v, e, w.files, w.cache, w.truth, k, w.failed)
        BY <1>1, <2>1, <2>3, <3>1, NamesSet
      <3> QED
        BY <3>1, <3>2 DEF Is
    <2> HIDE DEF v, c
    <2>5. CacheFits(w.cache)
          /\ (~lost => TruthOK(c, w.files, w.truth) /\ CacheOK(c, w.cache))
      BY DEF WorkOK, c
    <2>6. WorkOK(v, c0, lost)
      BY <2>2, <2>3, <2>4, <2>5 DEF WorkOK
    <2>7. Len(c) + 1 \in 1 .. Len(e)
      BY <1>1, <2>2
    <2> QED
      BY <1>1, <2>2, <2>4, <2>6, <2>7 DEF v, Interned
  <1> QED
    BY <1>2, <1>3

LEMMA LeafKeeps ==
  ASSUME NEW w, NEW c0 \in Seq(Names), NEW lost \in BOOLEAN, WorkOK(w, c0, lost), NEW name \in Names
  PROVE  /\ WorkOK(InternLeaf(w, name), c0, lost) /\ Interned(w, InternLeaf(w, name), name, lost)
         /\ InternLeaf(w, name).cache = w.cache
         /\ name \notin DOMAIN w.cache => InternLeaf(w, name) = LookupOrInsert(w, name)
  <1> DEFINE v == InternLeaf(w, name)
  <1>1. CASE name \in DOMAIN w.cache
    <2>1. v = [w EXCEPT !.id = w.cache[name]]
      BY <1>1 DEF InternLeaf
    <2>2. PICK S \in SUBSET Names : w.cache \in [S -> Nat]
      BY DEF WorkOK, CacheFits, Caches
    <2>3. w.cache[name] \in Nat
      BY <1>1, <2>2
    <2>4. /\ v \in Works /\ v.components = w.components /\ v.files = w.files /\ v.truth = w.truth
          /\ v.cache = w.cache /\ v.failed = w.failed /\ v.id = w.cache[name]
      <3>1. w \in Works
        BY DEF WorkOK
      <3>2. Is(v, w.components, w.files, w.cache, w.truth, w.cache[name], w.failed)
        BY <2>1, <2>3, <3>1, IdSet
      <3> QED
        BY <3>2 DEF Is
    <2> HIDE DEF v
    <2>5. WorkOK(v, c0, lost)
      BY <2>4 DEF WorkOK
    <2>6. ~lost => v.id \in 1 .. Len(v.components) /\ v.components[v.id] = name
      BY <1>1, <2>4 DEF WorkOK, CacheOK
    <2> QED
      BY <1>1, <2>3, <2>4, <2>5, <2>6 DEF v, Interned
  <1>2. CASE name \notin DOMAIN w.cache
    <2>1. v = LookupOrInsert(w, name)
      BY <1>2 DEF InternLeaf
    <2> QED
      BY <2>1, LookupKeeps DEF Interned
  <1> QED
    BY <1>1, <1>2

Taking(h, S, name, k) == [n \in S \cup {name} |-> IF n = name THEN k ELSE h[n]]

LEMMA CacheTakes ==
  ASSUME NEW h, CacheFits(h), NEW name \in Names \ DOMAIN h, NEW k \in Nat,
         NEW S, S = IF Cardinality(DOMAIN h) >= Capacity THEN {} ELSE DOMAIN h,
         NEW g, g = Taking(h, S, name, k)
  PROVE  /\ CacheFits(g)
         /\ \A c : CacheOK(c, h) /\ k \in 1 .. Len(c) /\ c[k] = name => CacheOK(c, g)
  <1>1. PICK D \in SUBSET Names : h \in [D -> Nat]
    BY DEF CacheFits, Caches
  <1>2. S \subseteq D /\ DOMAIN h = D /\ name \notin S
    BY <1>1
  <1>3. Capacity \in Nat \ {0}
    BY PathsAssumption
  <1>4. IsFiniteSet(S) /\ Cardinality(S) + 1 <= Capacity
    <2>1. CASE Cardinality(DOMAIN h) >= Capacity
      <3>1. S = {}
        BY <2>1
      <3>2. IsFiniteSet(S) /\ Cardinality(S) = 0
        BY <3>1, FS_EmptySet
      <3> QED
        BY <1>3, <3>2
    <2>2. CASE ~ (Cardinality(DOMAIN h) >= Capacity)
      <3>1. S = DOMAIN h
        BY <2>2
      <3>2. IsFiniteSet(S) /\ Cardinality(S) \in Nat
        BY <3>1, FS_CardinalityType DEF CacheFits
      <3> QED
        BY <1>3, <2>2, <3>1, <3>2
    <2> QED
      BY <2>1, <2>2
  <1>5. /\ DOMAIN g = S \cup {name}
        /\ \A n \in S \cup {name} : g[n] = IF n = name THEN k ELSE h[n]
    BY DEF Taking
  <1>6. IsFiniteSet(S \cup {name}) /\ Cardinality(S \cup {name}) = Cardinality(S) + 1
    BY <1>2, <1>4, FS_AddElement
  <1>7. g \in Caches
    <2>1. S \cup {name} \in SUBSET Names
      BY <1>2
    <2>2. g \in [S \cup {name} -> Nat]
      BY <1>1, <1>2 DEF Taking
    <2> QED
      BY <2>1, <2>2 DEF Caches
  <1>8. CacheFits(g)
    BY <1>4, <1>5, <1>6, <1>7 DEF CacheFits
  <1>9. ASSUME NEW c, CacheOK(c, h), k \in 1 .. Len(c), c[k] = name, NEW n \in DOMAIN g
        PROVE  g[n] \in 1 .. Len(c) /\ c[g[n]] = n
    <2>1. CASE n = name
      BY <1>5, <1>9, <2>1
    <2>2. CASE n # name
      <3>1. n \in DOMAIN h /\ g[n] = h[n]
        BY <1>2, <1>5, <1>9, <2>2
      <3> QED
        BY <1>9, <3>1 DEF CacheOK
    <2> QED
      BY <2>1, <2>2
  <1> QED
    BY <1>8, <1>9 DEF CacheOK

LEMMA DirKeeps ==
  ASSUME NEW w, NEW c0 \in Seq(Names), NEW lost \in BOOLEAN, WorkOK(w, c0, lost), NEW name \in Names
  PROVE  WorkOK(InternDir(w, name), c0, lost) /\ Interned(w, InternDir(w, name), name, lost)
  <1>1. CASE name \in DOMAIN w.cache
    <2>1. InternDir(w, name) = InternLeaf(w, name)
      BY <1>1 DEF InternDir
    <2> QED
      BY <2>1, LeafKeeps
  <1>2. CASE name \notin DOMAIN w.cache
    <2> DEFINE u == InternDir(w, name)
    <2>1. PICK v : v = InternLeaf(w, name)
      OBVIOUS
    <2>2. /\ WorkOK(v, c0, lost) /\ Interned(w, v, name, FALSE) /\ v.cache = w.cache
      BY <1>2, <2>1, LeafKeeps, LookupKeeps
    <2>3. PICK S : S = IF Cardinality(DOMAIN w.cache) >= Capacity THEN {} ELSE DOMAIN w.cache
      OBVIOUS
    <2>4. PICK g : g = [n \in S \cup {name} |-> IF n = name THEN v.id ELSE w.cache[n]]
      OBVIOUS
    <2>5. u = [v EXCEPT !.cache = g]
      BY <1>2, <2>1, <2>3, <2>4 DEF InternDir
    <2>6. CacheFits(w.cache) /\ v.id \in Nat
      BY <2>2 DEF WorkOK, Interned
    <2>7. /\ CacheFits(g)
          /\ \A c : CacheOK(c, w.cache) /\ v.id \in 1 .. Len(c) /\ c[v.id] = name => CacheOK(c, g)
      <3>1. name \in Names \ DOMAIN w.cache
        BY <1>2
      <3> QED
        <4>1. g = Taking(w.cache, S, name, v.id)
          BY <2>4, Zenon DEF Taking
        <4> QED
          BY <2>3, <2>6, <3>1, <4>1, CacheTakes
    <2>8. v \in Works /\ g \in Caches
      BY <2>2, <2>7 DEF WorkOK, CacheFits
    <2>9. Is(u, v.components, v.files, g, v.truth, v.id, v.failed)
      BY <2>5, <2>8, CacheSet
    <2> HIDE DEF u
    <2>10. WorkOK(u, c0, lost)
      BY <2>2, <2>7, <2>9 DEF WorkOK, Is, Interned
    <2>11. Interned(w, u, name, lost)
      BY <2>2, <2>9 DEF Is, Interned
    <2> QED
      BY <2>10, <2>11 DEF u
  <1> QED
    BY <1>1, <1>2

(* One more row.                                                             *)
LEMMA OneMoreRow ==
  ASSUME NEW c, NEW f, NEW t, TablesOK(c, f, t), NEW row \in Row, NEW path \in Seq(Names),
         row.parent \in 0 .. Len(f), row.component \in 1 .. Len(c),
         \A i \in 1 .. Len(f) : ~ (f[i].parent = row.parent /\ f[i].component = row.component)
  PROVE  /\ TablesOK(c, Append(f, row), Append(t, path))
         /\ Append(f, row) \in Seq(Row) /\ Append(t, path) \in Seq(Seq(Names))
         /\ Len(Append(f, row)) = Len(f) + 1 /\ Append(t, path)[Len(f) + 1] = path
         /\ TruthOK(c, f, t) /\ path = Append(PathTo(t, row.parent), c[row.component])
              /\ Len(path) <= MaxDepth
              => TruthOK(c, Append(f, row), Append(t, path))
  <1>1. PICK g : g = Append(f, row)
    OBVIOUS
  <1>2. PICK u : u = Append(t, path)
    OBVIOUS
  <1>3. f \in Seq(Row) /\ t \in Seq(Seq(Names)) /\ Len(t) = Len(f) /\ Len(f) \in Nat
    BY LenProperties DEF TablesOK
  <1>4. /\ g \in Seq(Row) /\ Len(g) = Len(f) + 1 /\ g[Len(f) + 1] = row
        /\ \A i \in 1 .. Len(f) : g[i] = f[i]
    BY <1>1, <1>3, AppendProperties
  <1>5. /\ u \in Seq(Seq(Names)) /\ Len(u) = Len(f) + 1 /\ u[Len(f) + 1] = path
        /\ \A i \in 1 .. Len(f) : u[i] = t[i]
    BY <1>2, <1>3, AppendProperties
  <1>6. \A i \in 1 .. Len(g) : i \in 1 .. Len(f) \/ i = Len(f) + 1
    BY <1>3, <1>4
  <1>7. TablesOK(c, g, u)
    <2>1. \A i \in 1 .. Len(g) : g[i].parent \in 0 .. i - 1 /\ g[i].component \in 1 .. Len(c)
      <3> SUFFICES ASSUME NEW i \in 1 .. Len(g)
                   PROVE  g[i].parent \in 0 .. i - 1 /\ g[i].component \in 1 .. Len(c)
        OBVIOUS
      <3>1. CASE i \in 1 .. Len(f)
        <4>1. f[i].parent \in 0 .. i - 1 /\ f[i].component \in 1 .. Len(c)
          BY <3>1 DEF TablesOK
        <4> QED
          BY <1>4, <3>1, <4>1
      <3>2. CASE i = Len(f) + 1
        <4>1. g[i] = row /\ i - 1 = Len(f)
          BY <1>3, <1>4, <3>2
        <4> QED
          BY <4>1
      <3> QED
        BY <1>6, <3>1, <3>2
    <2>2. \A i, j \in 1 .. Len(g) :
            g[i].parent = g[j].parent /\ g[i].component = g[j].component => i = j
      <3> SUFFICES ASSUME NEW i \in 1 .. Len(g), NEW j \in 1 .. Len(g),
                          g[i].parent = g[j].parent, g[i].component = g[j].component
                   PROVE  i = j
        OBVIOUS
      <3>1. CASE i \in 1 .. Len(f) /\ j \in 1 .. Len(f)
        BY <1>4, <3>1 DEF TablesOK
      <3>2. CASE i \in 1 .. Len(f) /\ j = Len(f) + 1
        BY <1>4, <3>2
      <3>3. CASE i = Len(f) + 1 /\ j \in 1 .. Len(f)
        BY <1>4, <3>3
      <3> QED
        BY <1>6, <3>1, <3>2, <3>3
    <2> QED
      BY <1>4, <1>5, <2>1, <2>2 DEF TablesOK
  <1>8. ASSUME TruthOK(c, f, t), path = Append(PathTo(t, row.parent), c[row.component]),
               Len(path) <= MaxDepth
        PROVE  TruthOK(c, g, u)
    <2>1. \A k \in 0 .. Len(f) : PathTo(u, k) = PathTo(t, k)
      BY <1>3, <1>5 DEF PathTo
    <2>2. ASSUME NEW i \in 1 .. Len(g)
          PROVE  u[i] = Append(PathTo(u, g[i].parent), c[g[i].component]) /\ Len(u[i]) <= MaxDepth
      <3>1. CASE i \in 1 .. Len(f)
        <4>1. t[i] = Append(PathTo(t, f[i].parent), c[f[i].component]) /\ Len(t[i]) <= MaxDepth
          BY <1>8, <3>1 DEF TruthOK
        <4>2. f[i].parent \in 0 .. i - 1
          BY <3>1 DEF TablesOK
        <4>3. f[i].parent \in 0 .. Len(f)
          BY <1>3, <3>1, <4>2
        <4>4. PathTo(u, f[i].parent) = PathTo(t, f[i].parent)
          BY <2>1, <4>3
        <4> QED
          BY <1>4, <1>5, <3>1, <4>1, <4>4
      <3>2. CASE i = Len(f) + 1
        <4>1. PathTo(u, row.parent) = PathTo(t, row.parent)
          BY <2>1
        <4> QED
          BY <1>4, <1>5, <1>8, <3>2, <4>1
      <3> QED
        BY <1>6, <3>1, <3>2
    <2> QED
      BY <1>8, <2>2 DEF TruthOK
  <1> QED
    BY <1>1, <1>2, <1>3, <1>4, <1>5, <1>7, <1>8

LEMMA UpsertKeeps ==
  ASSUME NEW w, NEW c0 \in Seq(Names), NEW lost \in BOOLEAN, WorkOK(w, c0, lost),
         NEW parent \in 0 .. Len(w.files), NEW dir \in BOOLEAN, NEW path \in Seq(Names),
         NEW name \in Names,
         ~lost => /\ w.id \in 1 .. Len(w.components) /\ w.components[w.id] = name
                  /\ path = Append(PathTo(w.truth, parent), name) /\ Len(path) <= MaxDepth
  PROVE  WorkAt(UpsertEntry(w, parent, dir, path), c0, lost, path)
  <1> DEFINE v == UpsertEntry(w, parent, dir, path)
             c == w.components
             f == w.files
             t == w.truth
             at == {i \in DOMAIN f : f[i].parent = parent /\ f[i].component = w.id}
  <1>1. /\ w \in Works /\ CacheFits(w.cache) /\ TablesOK(c, f, t) /\ Prefixed(c0, c)
        /\ ~lost => TruthOK(c, f, t) /\ CacheOK(c, w.cache)
        /\ c \in Seq(Names) /\ f \in Seq(Row) /\ t \in Seq(Seq(Names)) /\ w.id \in Nat
        /\ Len(c) \in Nat /\ Len(f) \in Nat /\ DOMAIN f = 1 .. Len(f) /\ DOMAIN c = 1 .. Len(c)
    BY LenProperties DEF WorkOK, Works
  <1>2. CASE w.failed
    <2>1. v = w
      BY <1>2 DEF UpsertEntry
    <2> QED
      BY <1>2, <2>1 DEF WorkAt
  <1>3. CASE ~w.failed /\ at # {}
    <2>1. v = [w EXCEPT !.id = CHOOSE i \in at : TRUE]
      BY <1>3 DEF UpsertEntry
    <2>2. PICK k : k = CHOOSE i \in at : TRUE
      OBVIOUS
    <2>3. k \in at
      <3> HIDE DEF at
      <3> QED
        BY <1>3, <2>2
    <2>4. k \in 1 .. Len(f) /\ f[k].parent = parent /\ f[k].component = w.id /\ k \in Nat
      BY <1>1, <2>3
    <2>5. v = [w EXCEPT !.id = k]
      BY <2>1, <2>2, Zenon
    <2> HIDE DEF v, at
    <2>6. Is(v, c, f, w.cache, t, k, w.failed)
      BY <1>1, <2>4, <2>5, IdSet
    <2>7. WorkOK(v, c0, lost)
      BY <1>1, <2>6 DEF WorkOK, Is
    <2>8. k \in 0 .. Len(f) /\ (~lost => PathTo(t, k) = path)
      <3>1. ASSUME ~lost PROVE t[k] = path
        BY <1>1, <2>4, <3>1 DEF TruthOK
      <3> QED
        BY <1>1, <2>4, <3>1 DEF PathTo
    <2>9. WorkAt(v, c0, lost, path)
      BY <2>6, <2>7, <2>8 DEF WorkAt, Is
    <2> QED
      BY <2>9 DEF v
  <1>4. CASE ~w.failed /\ at = {} /\ w.id \notin DOMAIN c
    <2>1. v = [w EXCEPT !.failed = TRUE]
      BY <1>4 DEF UpsertEntry
    <2> HIDE DEF v, at
    <2>2. Is(v, c, f, w.cache, t, w.id, TRUE)
      BY <1>1, <2>1, FailedSet
    <2>3. WorkOK(v, c0, lost)
      BY <1>1, <2>2 DEF WorkOK, Is
    <2> QED
      BY <2>2, <2>3 DEF WorkAt, Is, v
  <1>5. CASE ~w.failed /\ at = {} /\ w.id \in DOMAIN c
    <2> DEFINE row == [parent |-> parent, component |-> w.id, dir |-> dir]
    <2>1. v = [w EXCEPT !.files = Append(@, row), !.truth = Append(@, path), !.id = Len(w.files) + 1]
      BY <1>5 DEF UpsertEntry
    <2>2. /\ row \in Row /\ row.parent = parent /\ row.component = w.id
      BY <1>1, <1>5 DEF Row
    <2>3. \A i \in 1 .. Len(f) : ~ (f[i].parent = parent /\ f[i].component = w.id)
      BY <1>1, <1>5
    <2>4. PICK k \in Nat : k = Len(f) + 1
      BY <1>1
    <2> HIDE DEF row
    <2>5. PICK g : g = Append(f, row)
      OBVIOUS
    <2>6. PICK u : u = Append(t, path)
      OBVIOUS
    <2>7. v = [w EXCEPT !.files = g, !.truth = u, !.id = k]
      BY <2>1, <2>4, <2>5, <2>6, Zenon
    <2>8. /\ TablesOK(c, g, u) /\ g \in Seq(Row) /\ u \in Seq(Seq(Names))
          /\ Len(g) = k /\ u[k] = path
          /\ TruthOK(c, f, t) /\ path = Append(PathTo(t, parent), c[w.id]) /\ Len(path) <= MaxDepth
               => TruthOK(c, g, u)
      <3> HIDE DEF c, f, t
      <3>1. /\ row.parent \in 0 .. Len(f) /\ row.component \in 1 .. Len(c)
            /\ \A i \in 1 .. Len(f) :
                 ~ (f[i].parent = row.parent /\ f[i].component = row.component)
        <4>1. parent \in 0 .. Len(f)
          BY DEF f
        <4> QED
          BY <1>1, <1>5, <2>2, <2>3, <4>1
      <3>2. TablesOK(c, f, t) /\ row \in Row
        BY <1>1, <2>2
      <3>3. /\ TablesOK(c, Append(f, row), Append(t, path))
            /\ Append(f, row) \in Seq(Row) /\ Append(t, path) \in Seq(Seq(Names))
            /\ Len(Append(f, row)) = Len(f) + 1 /\ Append(t, path)[Len(f) + 1] = path
            /\ TruthOK(c, f, t) /\ path = Append(PathTo(t, row.parent), c[row.component])
                 /\ Len(path) <= MaxDepth
                 => TruthOK(c, Append(f, row), Append(t, path))
        BY <3>1, <3>2, OneMoreRow
      <3> QED
        BY <2>2, <2>4, <2>5, <2>6, <3>3
    <2> HIDE DEF v, at
    <2>9. Is(v, c, g, w.cache, u, k, w.failed)
      BY <1>1, <2>4, <2>7, <2>8, RowsSet
    <2>10. WorkOK(v, c0, lost)
      BY <1>1, <2>8, <2>9 DEF WorkOK, Is
    <2>11. k \in 0 .. Len(g) /\ PathTo(u, k) = path
      BY <1>1, <2>4, <2>8 DEF PathTo
    <2>12. WorkAt(v, c0, lost, path)
      BY <2>9, <2>10, <2>11 DEF WorkAt, Is
    <2> QED
      BY <2>12 DEF v
  <1> QED
    BY <1>2, <1>3, <1>4, <1>5

LEMMA BelowKeeps ==
  ASSUME NEW w, NEW c0 \in Seq(Names), NEW lost \in BOOLEAN, NEW above \in Seq(Names),
         WorkAt(w, c0, lost, above), NEW name \in Names, Len(above) + 1 <= MaxDepth
  PROVE  WorkAt(Below(w, name, Append(above, name)), c0, lost, Append(above, name))
  <1>1. CASE w.failed
    BY <1>1 DEF Below, WorkAt
  <1>2. CASE ~w.failed
    <2>1. PICK path : path = Append(above, name)
      OBVIOUS
    <2>2. path \in Seq(Names) /\ Len(path) = Len(above) + 1
      BY <2>1, AppendProperties
    <2>3. PICK v : v = InternDir(w, name)
      OBVIOUS
    <2>4. WorkOK(v, c0, lost) /\ Interned(w, v, name, lost)
      BY <2>3, DirKeeps DEF WorkAt
    <2>5. w.id \in 0 .. Len(v.files)
      BY <1>2, <2>4 DEF WorkAt, Interned
    <2>6. ~lost => path = Append(PathTo(v.truth, w.id), name)
      BY <1>2, <2>1, <2>4 DEF WorkAt, Interned
    <2>7. ~lost => v.id \in 1 .. Len(v.components) /\ v.components[v.id] = name
      BY <2>4 DEF Interned
    <2>8. WorkAt(UpsertEntry(v, w.id, TRUE, path), c0, lost, path)
      BY <2>2, <2>4, <2>5, <2>6, <2>7, UpsertKeeps
    <2> QED
      BY <1>2, <2>1, <2>3, <2>8 DEF Below
  <1> QED
    BY <1>1, <1>2

(* A chain of directories, one name at a time.                               *)
ChainSteps(w, above, names) ==
  LET at[i \in 0 .. Len(names)] ==
        IF i = 0 THEN w ELSE Below(at[i - 1], names[i], above \o SubSeq(names, 1, i))
  IN at

(* A sequence and the part of another up to the next of its elements.        *)
LEMMA NextPart ==
  ASSUME NEW S, NEW s \in Seq(S), NEW t \in Seq(S), NEW i \in 1 .. Len(t)
  PROVE  /\ s \o SubSeq(t, 1, i) = Append(s \o SubSeq(t, 1, i - 1), t[i])
         /\ s \o SubSeq(t, 1, i) \in Seq(S) /\ Len(s \o SubSeq(t, 1, i)) = Len(s) + i
         /\ s \o SubSeq(t, 1, i - 1) \in Seq(S) /\ Len(s \o SubSeq(t, 1, i - 1)) = Len(s) + i - 1
         /\ t[i] \in S
  <1>1. Len(t) \in Nat /\ Len(s) \in Nat /\ i \in Nat /\ i - 1 \in Nat /\ i - 1 <= Len(t)
    BY LenProperties
  <1>2. t[i] \in S
    BY LenProperties
  <1>3. PICK a : a = SubSeq(t, 1, i)
    OBVIOUS
  <1>4. PICK b : b = SubSeq(t, 1, i - 1)
    OBVIOUS
  <1>5. a \in Seq(S) /\ Len(a) = i /\ \A j \in 1 .. i : a[j] = t[j]
    BY <1>1, <1>3, SubSeqProperties
  <1>6. b \in Seq(S) /\ Len(b) = i - 1 /\ \A j \in 1 .. i - 1 : b[j] = t[j]
    BY <1>1, <1>4, SubSeqProperties
  <1>7. PICK u : u = s \o a
    OBVIOUS
  <1>8. PICK v : v = s \o b
    OBVIOUS
  <1>9. /\ u \in Seq(S) /\ Len(u) = Len(s) + i
        /\ \A j \in 1 .. Len(s) + i : u[j] = IF j <= Len(s) THEN s[j] ELSE a[j - Len(s)]
    <2>1. a \in Seq(S) /\ Len(a) = i
      BY <1>5
    <2>2. /\ u \in Seq(S) /\ Len(u) = Len(s) + Len(a)
          /\ \A j \in 1 .. Len(s) + Len(a) : u[j] = IF j <= Len(s) THEN s[j] ELSE a[j - Len(s)]
      BY <1>7, <2>1, ConcatProperties
    <2> QED
      BY <2>1, <2>2
  <1>10. /\ v \in Seq(S) /\ Len(v) = Len(s) + i - 1
         /\ \A j \in 1 .. Len(s) + i - 1 : v[j] = IF j <= Len(s) THEN s[j] ELSE b[j - Len(s)]
    <2>1. /\ v \in Seq(S) /\ Len(v) = Len(s) + Len(b)
          /\ \A j \in 1 .. Len(s) + Len(b) : v[j] = IF j <= Len(s) THEN s[j] ELSE b[j - Len(s)]
      BY <1>6, <1>8, ConcatProperties
    <2>2. Len(s) + Len(b) = Len(s) + i - 1
      BY <1>1, <1>6
    <2> QED
      BY <2>1, <2>2
  <1>11. PICK x : x = Append(v, t[i])
    OBVIOUS
  <1>12. /\ x \in Seq(S) /\ Len(x) = Len(s) + i /\ x[Len(s) + i] = t[i]
         /\ \A j \in 1 .. Len(s) + i - 1 : x[j] = v[j]
    BY <1>1, <1>2, <1>10, <1>11, AppendProperties
  <1>13. ASSUME NEW j \in 1 .. Len(s) + i PROVE u[j] = x[j]
    <2>1. CASE j <= Len(s)
      <3>1. j \in 1 .. Len(s) + i - 1
        BY <1>1, <2>1
      <3> QED
        BY <1>9, <1>10, <1>12, <2>1, <3>1
    <2>2. CASE j > Len(s) /\ j < Len(s) + i
      <3>1. j \in 1 .. Len(s) + i - 1 /\ ~ (j <= Len(s)) /\ j - Len(s) \in 1 .. i - 1
            /\ j - Len(s) \in 1 .. i
        BY <1>1, <2>2
      <3> QED
        BY <1>5, <1>6, <1>9, <1>10, <1>12, <3>1
    <2>3. CASE j = Len(s) + i
      <3>1. ~ (j <= Len(s)) /\ j - Len(s) = i /\ i \in 1 .. i
        BY <1>1, <2>3
      <3> QED
        BY <1>5, <1>9, <1>12, <2>3, <3>1
    <2> QED
      BY <1>1, <2>1, <2>2, <2>3
  <1>14. u = x
    BY <1>9, <1>12, <1>13, SeqEqual
  <1> QED
    BY <1>2, <1>3, <1>4, <1>7, <1>8, <1>9, <1>10, <1>11, <1>14

LEMMA NextOfPart ==
  ASSUME NEW t \in Seq(Names), NEW i \in 1 .. Len(t)
  PROVE  /\ SubSeq(t, 1, i) = Append(SubSeq(t, 1, i - 1), t[i])
         /\ SubSeq(t, 1, i - 1) \in Seq(Names) /\ t[i] \in Names
  <1>1. <<>> \in Seq(Names) /\ t \in Seq(Names) /\ i \in 1 .. Len(t)
    BY EmptySeq
  <1>2. /\ <<>> \o SubSeq(t, 1, i) = Append(<<>> \o SubSeq(t, 1, i - 1), t[i])
        /\ t[i] \in Names
    BY ONLY <1>1, NextPart, SMTT(20)
  <1>3. Len(t) \in Nat /\ i - 1 \in Int /\ i \in Int /\ i - 1 <= Len(t)
    BY LenProperties
  <1>4. \A j \in 1 .. Len(t) : t[j] \in Names
    BY LenProperties
  <1>5. SubSeq(t, 1, i) \in Seq(Names)
    <2>1. \A j \in 1 .. i : t[j] \in Names
      BY <1>3, <1>4
    <2> QED
      BY <1>3, <2>1, SubSeqProperties
  <1>6. SubSeq(t, 1, i - 1) \in Seq(Names)
    <2>1. \A j \in 1 .. i - 1 : t[j] \in Names
      BY <1>3, <1>4
    <2> QED
      BY <1>3, <2>1, SubSeqProperties
  <1> QED
    BY <1>2, <1>5, <1>6, ConcatEmptySeq

(* What a function that goes from one set into the next stays in.            *)
LEMMA StepsStay ==
  ASSUME NEW n \in Nat, NEW X, NEW f, f[0] \in X[0],
         \A i \in 1 .. n : f[i - 1] \in X[i - 1] => f[i] \in X[i]
  PROVE  \A i \in 0 .. n : f[i] \in X[i]
  <1> DEFINE Wrong == {i \in 0 .. n : f[i] \notin X[i]}
  <1> SUFFICES ASSUME Wrong # {} PROVE FALSE
    OBVIOUS
  <1>1. Wrong \in SUBSET Nat
    OBVIOUS
  <1>2. PICK k \in Wrong : \A j \in Wrong : k <= j
    <2> HIDE DEF Wrong
    <2> QED
      BY <1>1, LeastOf
  <1>3. k \in 0 .. n /\ k # 0 /\ f[k] \notin X[k]
    OBVIOUS
  <1>4. k \in 1 .. n /\ k - 1 \in 0 .. n /\ ~ (k <= k - 1)
    BY <1>3
  <1>5. f[k - 1] \in X[k - 1]
    BY <1>2, <1>4
  <1> QED
    BY <1>3, <1>4, <1>5

LEMMA ChainKeeps ==
  ASSUME NEW w, NEW c0 \in Seq(Names), NEW lost \in BOOLEAN, NEW above \in Seq(Names),
         WorkAt(w, c0, lost, above), NEW names \in Seq(Names), Len(above) + Len(names) <= MaxDepth
  PROVE  WorkAt(Chain(w, above, names), c0, lost, above \o names)
  <1> DEFINE n == Len(names)
             To(i) == above \o SubSeq(names, 1, i)
             X == [i \in 0 .. n |-> {v \in Works : WorkAt(v, c0, lost, To(i))}]
             F == [p \in Works \X (1 .. n) |-> Below(p[1], names[p[2]], To(p[2]))]
             P(g) == g = [i \in 0 .. n |-> IF i = 0 THEN w ELSE Below(g[i - 1], names[i], To(i))]
  <1>1. n \in Nat /\ Len(above) \in Nat
    BY LenProperties
  <1>2. To(0) = above
    <2>1. SubSeq(names, 1, 0) = <<>>
      BY SubSeqProperties, EmptySeq
    <2> QED
      BY <2>1, ConcatEmptySeq
  <1>3. w \in X[0]
    <2>1. w \in Works
      BY DEF WorkAt, WorkOK
    <2>2. WorkAt(w, c0, lost, To(0))
      <3> HIDE DEF To
      <3> QED
        BY <1>2
    <2>3. 0 \in 0 .. n
      BY <1>1
    <2> HIDE DEF To
    <2> QED
      BY <2>1, <2>2, <2>3
  <1>4. ASSUME NEW i \in 1 .. n, NEW y \in X[i - 1]
        PROVE  Below(y, names[i], To(i)) \in X[i] /\ y \in Works
    <2>1. i - 1 \in 0 .. n /\ i \in 0 .. n
      BY <1>1
    <2>2. y \in Works /\ WorkAt(y, c0, lost, To(i - 1))
      BY <2>1
    <2>3. /\ To(i) = Append(To(i - 1), names[i]) /\ names[i] \in Names
          /\ To(i - 1) \in Seq(Names) /\ Len(To(i - 1)) = Len(above) + i - 1
      <3> HIDE DEF X
      <3>1. i \in 1 .. Len(names)
        OBVIOUS
      <3>2. /\ above \o SubSeq(names, 1, i) = Append(above \o SubSeq(names, 1, i - 1), names[i])
            /\ above \o SubSeq(names, 1, i - 1) \in Seq(Names)
            /\ Len(above \o SubSeq(names, 1, i - 1)) = Len(above) + i - 1
            /\ names[i] \in Names
        <4>1. above \in Seq(Names) /\ names \in Seq(Names)
          OBVIOUS
        <4> QED
          BY ONLY <3>1, <4>1, NextPart, SMTT(20)
      <3> QED
        BY <3>2
    <2>4. Len(To(i - 1)) + 1 <= MaxDepth
      BY <1>1, <2>3 DEF MaxDepth
    <2>5. WorkAt(Below(y, names[i], To(i)), c0, lost, To(i))
      <3> HIDE DEF To
      <3> QED
        BY <2>2, <2>3, <2>4, BelowKeeps
    <2>6. Below(y, names[i], To(i)) \in Works
      BY <2>5 DEF WorkAt, WorkOK
    <2> QED
      BY <2>1, <2>2, <2>5, <2>6
  <1>5. \A i \in 1 .. n : \A y \in X[i - 1] :
          F[<<y, i>>] = Below(y, names[i], To(i)) /\ F[<<y, i>>] \in X[i]
    <2> HIDE DEF X, To
    <2> QED
      BY <1>4
  <1>6. PICK f : Iterates(f, n, w, F) /\ \A i \in 0 .. n : f[i] \in X[i]
    <2> HIDE DEF X, F, n
    <2>1. \A i \in 1 .. n : \A y \in X[i - 1] : F[<<y, i>>] \in X[i]
      BY <1>5
    <2> QED
      BY <1>1, <1>3, <2>1, StepsLead
  <1>7. P(f)
    <2> HIDE DEF X, F, To, n
    <2>1. \A i \in 0 .. n : f[i] = IF i = 0 THEN w ELSE Below(f[i - 1], names[i], To(i))
      <3> SUFFICES ASSUME NEW i \in 0 .. n, i # 0
                   PROVE  F[<<f[i - 1], i>>] = Below(f[i - 1], names[i], To(i))
        BY <1>6 DEF Iterates
      <3>1. i \in 1 .. n /\ i - 1 \in 0 .. n
        BY <1>1
      <3> QED
        BY <1>5, <1>6, <3>1
    <2>2. f = [i \in 0 .. n |-> f[i]]
      BY <1>6 DEF Iterates
    <2> QED
      BY <2>1, <2>2
  <1>8. P(ChainSteps(w, above, names))
    <2>1. ChainSteps(w, above, names) = CHOOSE g : P(g)
      BY DEF ChainSteps
    <2> HIDE DEF P
    <2> QED
      BY <1>7, <2>1
  <1>9. \A i \in 0 .. n : ChainSteps(w, above, names)[i] \in X[i]
    <2> DEFINE g == ChainSteps(w, above, names)
    <2>1. g = [i \in 0 .. n |-> IF i = 0 THEN w ELSE Below(g[i - 1], names[i], To(i))]
      BY <1>8
    <2> HIDE DEF X, To, F, n, P, g
    <2>2. g[0] \in X[0]
      BY <1>1, <1>3, <2>1
    <2>3. \A i \in 1 .. n : g[i - 1] \in X[i - 1] => g[i] \in X[i]
      <3> SUFFICES ASSUME NEW i \in 1 .. n, g[i - 1] \in X[i - 1] PROVE g[i] \in X[i]
        OBVIOUS
      <3>1. i \in 0 .. n /\ i # 0
        BY <1>1
      <3>2. g[i] = Below(g[i - 1], names[i], To(i))
        BY <2>1, <3>1
      <3> QED
        BY <1>4, <3>2
    <2>4. \A i \in 0 .. n : g[i] \in X[i]
      BY <1>1, <2>2, <2>3, StepsStay
    <2> QED
      BY <2>4 DEF g
  <1>10. Chain(w, above, names) = ChainSteps(w, above, names)[n]
    BY DEF Chain, ChainSteps
  <1>11. To(n) = above \o names
    <2>1. SubSeq(names, 1, n) = names
      BY <1>1, SubSeqFull
    <2> QED
      BY <2>1
  <1>12. Chain(w, above, names) \in X[n]
    BY <1>1, <1>9, <1>10
  <1>13. WorkAt(Chain(w, above, names), c0, lost, To(n))
    <2>1. n \in 0 .. n
      BY <1>1
    <2> HIDE DEF To
    <2> QED
      BY <1>12, <2>1
  <1> QED
    BY <1>11, <1>13

(* The names of a path once ".." and "." are gone, one at a time.              *)
Written == Names \cup {"..", "."}

NormalSteps(path) ==
  LET names[i \in 0 .. Len(path)] == IF i = 0 THEN <<>> ELSE NextName(names[i - 1], path[i])
  IN names

LEMMA NextNameIs ==
  ASSUME NEW names \in Seq(Names), NEW c \in Written
  PROVE  NextName(names, c) \in Seq(Names) /\ Len(NextName(names, c)) <= Len(names) + 1
  <1>1. Len(names) \in Nat
    BY LenProperties
  <1>2. CASE c = ".."
    <2>1. NextName(names, c) = SubSeq(names, 1, Len(names) - 1)
      BY <1>2 DEF NextName
    <2>2. PICK s : s = SubSeq(names, 1, Len(names) - 1)
      OBVIOUS
    <2>3. \A i \in 1 .. Len(names) - 1 : names[i] \in Names
      BY <1>1, LenProperties
    <2>4. s \in Seq(Names) /\ Len(s) = IF 1 <= Len(names) - 1 THEN Len(names) - 1 - 1 + 1 ELSE 0
      BY <1>1, <2>2, <2>3, SubSeqProperties
    <2> QED
      BY <1>1, <2>1, <2>2, <2>4
  <1>3. CASE c = "."
    <2>1. NextName(names, c) = names
      BY <1>3 DEF NextName
    <2> QED
      BY <1>1, <2>1
  <1>4. CASE c # ".." /\ c # "."
    <2>1. NextName(names, c) = Append(names, c)
      BY <1>4 DEF NextName
    <2>2. c \in Names
      BY <1>4 DEF Written
    <2>3. Append(names, c) \in Seq(Names) /\ Len(Append(names, c)) = Len(names) + 1
      BY <2>2, AppendProperties
    <2> QED
      BY <1>1, <2>1, <2>3
  <1> QED
    BY <1>2, <1>3, <1>4

LEMMA NormalStepsAre ==
  ASSUME NEW path \in Seq(Written)
  PROVE  /\ NormalSteps(path)[0] = <<>>
         /\ \A i \in 1 .. Len(path) :
              NormalSteps(path)[i] = NextName(NormalSteps(path)[i - 1], path[i])
         /\ \A i \in 0 .. Len(path) :
              NormalSteps(path)[i] \in Seq(Names) /\ Len(NormalSteps(path)[i]) <= i
  <1> DEFINE n == Len(path)
             X == [i \in 0 .. n |-> {v \in Seq(Names) : Len(v) <= i}]
             F == [p \in Seq(Names) \X (1 .. n) |-> NextName(p[1], path[p[2]])]
             P(g) == g = [i \in 0 .. n |-> IF i = 0 THEN <<>> ELSE NextName(g[i - 1], path[i])]
  <1>1. n \in Nat
    BY LenProperties
  <1>2. <<>> \in X[0]
    <2>1. <<>> \in Seq(Names) /\ Len(<<>>) <= 0
      BY EmptySeq
    <2> QED
      BY <1>1, <2>1
  <1>3. ASSUME NEW i \in 1 .. n, NEW y \in X[i - 1]
        PROVE  NextName(y, path[i]) \in X[i] /\ y \in Seq(Names)
    <2>1. i - 1 \in 0 .. n /\ i \in 0 .. n /\ path[i] \in Written
      BY <1>1, LenProperties
    <2>2. y \in Seq(Names) /\ Len(y) <= i - 1 /\ Len(y) \in Nat
      BY <2>1, LenProperties
    <2>3. NextName(y, path[i]) \in Seq(Names) /\ Len(NextName(y, path[i])) <= Len(y) + 1
      BY <2>1, <2>2, NextNameIs
    <2>4. Len(NextName(y, path[i])) <= i
      BY <1>1, <2>2, <2>3, LenProperties
    <2> QED
      BY <2>1, <2>2, <2>3, <2>4
  <1>4. \A i \in 1 .. n : \A y \in X[i - 1] :
          F[<<y, i>>] = NextName(y, path[i]) /\ F[<<y, i>>] \in X[i]
    <2> HIDE DEF X
    <2> QED
      BY <1>3
  <1>5. PICK f : Iterates(f, n, <<>>, F) /\ \A i \in 0 .. n : f[i] \in X[i]
    <2> HIDE DEF X, F, n
    <2>1. \A i \in 1 .. n : \A y \in X[i - 1] : F[<<y, i>>] \in X[i]
      BY <1>4
    <2> QED
      BY <1>1, <1>2, <2>1, StepsLead
  <1>6. P(f)
    <2> HIDE DEF X, F, n
    <2>1. \A i \in 0 .. n : f[i] = IF i = 0 THEN <<>> ELSE NextName(f[i - 1], path[i])
      <3> SUFFICES ASSUME NEW i \in 0 .. n, i # 0
                   PROVE  F[<<f[i - 1], i>>] = NextName(f[i - 1], path[i])
        BY <1>5 DEF Iterates
      <3>1. i \in 1 .. n /\ i - 1 \in 0 .. n
        BY <1>1
      <3> QED
        BY <1>4, <1>5, <3>1
    <2>2. f = [i \in 0 .. n |-> f[i]]
      BY <1>5 DEF Iterates
    <2> QED
      BY <2>1, <2>2
  <1>7. P(NormalSteps(path))
    <2>1. NormalSteps(path) = CHOOSE g : P(g)
      BY DEF NormalSteps
    <2> HIDE DEF P
    <2> QED
      BY <1>6, <2>1
  <1> DEFINE g == NormalSteps(path)
  <1>8. g = [i \in 0 .. n |-> IF i = 0 THEN <<>> ELSE NextName(g[i - 1], path[i])]
    BY <1>7
  <1>9. g[0] = <<>> /\ \A i \in 1 .. n : g[i] = NextName(g[i - 1], path[i])
    <2> HIDE DEF X, F, n, P, g
    <2> QED
      BY <1>1, <1>8
  <1>10. \A i \in 0 .. n : g[i] \in X[i]
    <2> HIDE DEF X, F, n, P, g
    <2>1. g[0] \in X[0]
      BY <1>2, <1>9
    <2>2. \A i \in 1 .. n : g[i - 1] \in X[i - 1] => g[i] \in X[i]
      BY <1>3, <1>9
    <2> QED
      BY <1>1, <2>1, <2>2, StepsStay
  <1>11. \A i \in 0 .. n : g[i] \in Seq(Names) /\ Len(g[i]) <= i
    <2> HIDE DEF g
    <2> QED
      BY <1>10
  <1> QED
    BY <1>9, <1>11

LEMMA NormalisedIs ==
  ASSUME NEW path \in Seq(Written)
  PROVE  /\ Normalised(path) = NormalSteps(path)[Len(path)]
         /\ Normalised(path) \in Seq(Names) /\ Len(Normalised(path)) <= Len(path)
  <1>1. Normalised(path) = NormalSteps(path)[Len(path)]
    BY DEF Normalised, NormalSteps
  <1>2. Len(path) \in 0 .. Len(path)
    BY LenProperties
  <1> QED
    BY <1>1, <1>2, NormalStepsAre

(* Names below a path are normal already.                                    *)
LEMMA NormalisedBelow ==
  ASSUME NEW path \in Seq(Written), NEW names \in Seq(Names)
  PROVE  Normalised(path \o names) = Normalised(path) \o names
  <1> DEFINE whole == path \o names
             g == NormalSteps(path)
             h == NormalSteps(whole)
             m == Len(path)
             n == Len(names)
             To(i) == Normalised(path) \o SubSeq(names, 1, i)
             X == [i \in 0 .. m + n |-> IF i <= m THEN {g[i]} ELSE {To(i - m)}]
  <1>1. m \in Nat /\ n \in Nat /\ names \in Seq(Written)
    BY LenProperties DEF Written
  <1>2. /\ whole \in Seq(Written) /\ Len(whole) = m + n
        /\ \A i \in 1 .. m + n : whole[i] = IF i <= m THEN path[i] ELSE names[i - m]
    BY <1>1, ConcatProperties
  <1>3. /\ g[0] = <<>> /\ \A i \in 1 .. m : g[i] = NextName(g[i - 1], path[i])
    BY NormalStepsAre
  <1>4. /\ h[0] = <<>> /\ \A i \in 1 .. m + n : h[i] = NextName(h[i - 1], whole[i])
    <2> HIDE DEF whole
    <2> QED
      BY <1>2, NormalStepsAre
  <1>5. Normalised(path) = g[m] /\ Normalised(path) \in Seq(Names)
    BY NormalisedIs
  <1>6. Normalised(whole) = h[m + n]
    <2> HIDE DEF whole, h
    <2> QED
      BY <1>2, NormalisedIs DEF h
  <1>7. To(0) = g[m] /\ To(n) = Normalised(path) \o names
    <2>1. SubSeq(names, 1, 0) = <<>>
      BY SubSeqEmpty
    <2>2. SubSeq(names, 1, n) = names
      BY SubSeqFull
    <2> HIDE DEF g
    <2> QED
      BY <1>5, <2>1, <2>2, ConcatEmptySeq
  <1>8. ASSUME NEW i \in 1 .. n PROVE To(i) = NextName(To(i - 1), names[i])
    <2>1. /\ Normalised(path) \o SubSeq(names, 1, i)
               = Append(Normalised(path) \o SubSeq(names, 1, i - 1), names[i])
          /\ names[i] \in Names
      <3>1. Normalised(path) \in Seq(Names) /\ names \in Seq(Names) /\ i \in 1 .. Len(names)
        BY <1>5
      <3> QED
        BY ONLY <3>1, NextPart, SMTT(20)
    <2>2. names[i] # ".." /\ names[i] # "."
      BY <2>1, PathsAssumption
    <2> QED
      BY <2>1, <2>2 DEF NextName
  <1>9. \A i \in 0 .. m + n : h[i] \in X[i]
    <2> HIDE DEF whole, g, h, To, m, n
    <2>1. h[0] \in X[0]
      BY <1>1, <1>3, <1>4
    <2>2. ASSUME NEW i \in 1 .. m + n, h[i - 1] \in X[i - 1] PROVE h[i] \in X[i]
      <3>1. i - 1 \in 0 .. m + n /\ i \in 0 .. m + n
        BY <1>1
      <3>2. CASE i <= m
        <4>1. i - 1 <= m /\ i \in 1 .. m
          BY <1>1, <3>2
        <4>2. h[i - 1] = g[i - 1]
          BY <2>2, <3>1, <4>1
        <4>3. h[i] = g[i]
          BY <1>2, <1>3, <1>4, <3>2, <4>1, <4>2
        <4> QED
          BY <3>1, <3>2, <4>3
      <3>3. CASE ~ (i <= m)
        <4>1. i - m \in 1 .. n /\ i - m - 1 = i - 1 - m
          BY <1>1, <3>3
        <4>2. h[i - 1] = To(i - m - 1)
          <5>1. CASE i - 1 <= m
            <6>1. i - 1 = m /\ i - m - 1 = 0
              BY <1>1, <3>3, <5>1
            <6>2. h[i - 1] = g[i - 1]
              BY <2>2, <3>1, <5>1
            <6> QED
              BY <1>7, <6>1, <6>2
          <5>2. CASE ~ (i - 1 <= m)
            <6>1. h[i - 1] = To(i - 1 - m)
              BY <2>2, <3>1, <5>2
            <6> QED
              BY <4>1, <6>1
          <5> QED
            BY <5>1, <5>2
        <4>3. whole[i] = names[i - m]
          BY <1>2, <3>3
        <4>4. h[i] = To(i - m)
          BY <1>4, <1>8, <4>1, <4>2, <4>3
        <4> QED
          BY <3>1, <3>3, <4>4
      <3> QED
        BY <3>2, <3>3
    <2> HIDE DEF X
    <2>3. m + n \in Nat
      BY <1>1
    <2> QED
      BY <2>1, <2>2, <2>3, StepsStay
  <1>10. h[m + n] = To(n)
    <2> HIDE DEF whole, g, h, To, m, n
    <2>1. PICK k \in Nat : k = m + n
      BY <1>1
    <2>2. k \in 0 .. m + n
      BY <1>1, <2>1
    <2>3. h[k] \in IF k <= m THEN {g[k]} ELSE {To(k - m)}
      BY <1>9, <2>2
    <2> HIDE DEF X
    <2>4. CASE n = 0
      <3>1. k <= m /\ k = m
        BY <1>1, <2>1, <2>4
      <3>2. h[k] = g[m]
        BY <2>3, <3>1
      <3> QED
        BY <1>7, <2>1, <2>4, <3>2
    <2>5. CASE n # 0
      <3>1. ~ (k <= m) /\ k - m = n
        BY <1>1, <2>1, <2>5
      <3>2. h[k] = To(n)
        BY <2>3, <3>1
      <3> QED
        BY <2>1, <3>2
    <2> QED
      BY <2>4, <2>5
  <1> QED
    BY <1>6, <1>7, <1>10

(* A path is what leads to it and its last name.                             *)
LEMMA FrontAndLast ==
  ASSUME NEW s \in Seq(Names), NEW t \in Seq(Names), t # <<>>
  PROVE  /\ Front(t) \in Seq(Names) /\ Last(t) \in Names /\ Len(Front(t)) = Len(t) - 1
         /\ s \o t = Append(s \o Front(t), Last(t)) /\ s \o Front(t) \in Seq(Names)
  <1>1. PICK n : n = Len(t)
    OBVIOUS
  <1>2. n \in Nat /\ n \in 1 .. n /\ 1 <= n
    BY <1>1, EmptySeq
  <1>3. /\ s \o SubSeq(t, 1, n) = Append(s \o SubSeq(t, 1, n - 1), t[n])
        /\ s \o SubSeq(t, 1, n - 1) \in Seq(Names) /\ t[n] \in Names
    <2>1. s \in Seq(Names) /\ t \in Seq(Names) /\ n \in 1 .. Len(t)
      BY <1>1, <1>2
    <2> QED
      BY ONLY <2>1, NextPart, SMTT(20)
  <1>4. SubSeq(t, 1, n) = t
    BY <1>1, SubSeqFull
  <1>5. Front(t) = SubSeq(t, 1, n - 1) /\ Last(t) = t[n]
    BY <1>1 DEF Front, Last
  <1>6. Front(t) \in Seq(Names) /\ Len(Front(t)) = n - 1
    <2>1. PICK f : f = SubSeq(t, 1, n - 1)
      OBVIOUS
    <2>2. \A i \in 1 .. n - 1 : t[i] \in Names
      BY <1>1, <1>2, LenProperties
    <2>3. f \in Seq(Names) /\ Len(f) = IF 1 <= n - 1 THEN n - 1 - 1 + 1 ELSE 0
      BY <1>2, <2>1, <2>2, SubSeqProperties
    <2> QED
      BY <1>2, <1>5, <2>1, <2>3
  <1> QED
    BY <1>1, <1>3, <1>4, <1>5, <1>6

LEMMA RecordKeepsWork ==
  ASSUME NEW w, NEW c0 \in Seq(Names), NEW lost \in BOOLEAN, WorkAt(w, c0, lost, <<>>),
         NEW root \in RootDirs, NEW below \in Seq(Names), below # <<>>, Len(below) <= Depth,
         NEW dir \in BOOLEAN
  PROVE  WorkOK(RecordEntry(w, root, below, dir), c0, lost)
  <1>1. PICK a : a = Normalised(root)
    OBVIOUS
  <1>2. PICK front : front = Front(below)
    OBVIOUS
  <1>3. PICK last : last = Last(below)
    OBVIOUS
  <1>4. root \in Seq(Written)
    BY PathsAssumption DEF Written
  <1>5. a \in Seq(Names) /\ Len(a) <= Len(root)
    BY <1>1, <1>4, NormalisedIs
  <1>6. /\ front \in Seq(Names) /\ last \in Names /\ Len(front) = Len(below) - 1
        /\ a \o below = Append(a \o front, last) /\ a \o front \in Seq(Names)
    BY <1>2, <1>3, <1>5, FrontAndLast
  <1>7. /\ Len(a) \in Nat /\ Len(below) \in Nat /\ Len(root) \in Nat /\ Depth \in Nat
        /\ Len(root) + Depth <= MaxDepth
    BY <1>4, <1>5, LenProperties, PathsAssumption
  <1>8. /\ Len(a) <= MaxDepth /\ Len(a) + Len(front) <= MaxDepth
        /\ Len(a) + Len(below) <= MaxDepth
    BY <1>5, <1>6, <1>7 DEF MaxDepth
  <1>9. PICK v : v = EnsureDirChain(w, root)
    OBVIOUS
  <1>10. WorkAt(v, c0, lost, a)
    <2>1. CASE a = <<>>
      <3>1. v = [w EXCEPT !.failed = TRUE]
        BY <1>1, <1>9, <2>1 DEF EnsureDirChain
      <3>2. w \in Works
        BY DEF WorkAt, WorkOK
      <3>3. Is(v, w.components, w.files, w.cache, w.truth, w.id, TRUE)
        BY <3>1, <3>2, FailedSet
      <3>4. WorkOK(v, c0, lost)
        BY <3>3 DEF WorkOK, WorkAt, Is
      <3> QED
        BY <3>3, <3>4 DEF WorkAt, Is
    <2>2. CASE a # <<>>
      <3>1. v = Chain(w, <<>>, a)
        BY <1>1, <1>9, <2>2 DEF EnsureDirChain
      <3>2. <<>> \in Seq(Names) /\ Len(<<>>) + Len(a) <= MaxDepth
        BY <1>7, <1>8, EmptySeq
      <3>3. WorkAt(Chain(w, <<>>, a), c0, lost, <<>> \o a)
        BY <1>5, <3>2, ChainKeeps
      <3>4. <<>> \o a = a
        BY <1>5, ConcatEmptySeq
      <3> QED
        BY <3>1, <3>3, <3>4
    <2> QED
      BY <2>1, <2>2
  <1>11. PICK u : u = EnsureRelativeDirs(v, root, front)
    OBVIOUS
  <1>12. WorkAt(u, c0, lost, a \o front)
    <2>1. u = Chain(v, a, front)
      BY <1>1, <1>11 DEF EnsureRelativeDirs
    <2> QED
      BY <1>5, <1>6, <1>8, <1>10, <2>1, ChainKeeps
  <1>13. PICK named : named = IF dir THEN InternDir(u, last) ELSE InternLeaf(u, last)
    OBVIOUS
  <1>14. RecordEntry(w, root, below, dir) = IF u.failed THEN u
                                            ELSE UpsertEntry(named, u.id, dir, a \o below)
    BY <1>1, <1>2, <1>3, <1>9, <1>11, <1>13 DEF RecordEntry
  <1>15. CASE u.failed
    BY <1>12, <1>14, <1>15 DEF WorkAt
  <1>16. CASE ~u.failed
    <2>1. WorkOK(u, c0, lost)
      BY <1>12 DEF WorkAt
    <2>2. WorkOK(named, c0, lost) /\ Interned(u, named, last, lost)
      BY <1>6, <1>13, <2>1, DirKeeps, LeafKeeps
    <2>3. u.id \in 0 .. Len(named.files) /\ (~lost => PathTo(named.truth, u.id) = a \o front)
      BY <1>12, <1>16, <2>2 DEF WorkAt, Interned
    <2>4. PICK path : path = a \o below
      OBVIOUS
    <2>5. path \in Seq(Names) /\ Len(path) <= MaxDepth
      BY <1>5, <1>8, <2>4, ConcatProperties
    <2>6. ~lost => /\ named.id \in 1 .. Len(named.components) /\ named.components[named.id] = last
                   /\ path = Append(PathTo(named.truth, u.id), last) /\ Len(path) <= MaxDepth
      BY <1>6, <2>2, <2>3, <2>4, <2>5 DEF Interned
    <2>7. WorkAt(UpsertEntry(named, u.id, dir, path), c0, lost, path)
      BY <1>6, <2>2, <2>3, <2>5, <2>6, UpsertKeeps
    <2> QED
      BY <1>14, <1>16, <2>4, <2>7 DEF WorkAt
  <1> QED
    BY <1>15, <1>16

(* The invariant. The names at BEGIN are the first of the names there are, so  *)
(* what a rollback leaves of the cache is right as far as it is there.         *)
PathsInv ==
  /\ records \in 0 .. MaxRecords /\ rollbacks \in 0 .. MaxRollbacks /\ astray \in BOOLEAN
  /\ TablesOK(components, files, truth) /\ CacheFits(cache)
  /\ ~astray => TruthOK(components, files, truth) /\ CacheOK(components, cache)
  /\ saved # NoTransaction =>
       \E c, f, t : /\ saved = <<c, f, t>> /\ TablesOK(c, f, t) /\ Prefixed(c, components)
                    /\ ~astray => TruthOK(c, f, t)

LEMMA NothingYet ==
  /\ TablesOK(<<>>, <<>>, <<>>) /\ TruthOK(<<>>, <<>>, <<>>)
  /\ CacheFits(<<>>) /\ \A c : CacheOK(c, <<>>)
  <1>1. /\ <<>> \in Seq(Names) /\ <<>> \in Seq(Row) /\ <<>> \in Seq(Seq(Names)) /\ Len(<<>>) = 0
    BY EmptySeq
  <1>2. 1 .. 0 = {}
    OBVIOUS
  <1>3. TablesOK(<<>>, <<>>, <<>>) /\ TruthOK(<<>>, <<>>, <<>>)
    BY <1>1, <1>2 DEF TablesOK, TruthOK
  <1>4. DOMAIN <<>> = {}
    OBVIOUS
  <1>5. <<>> \in Caches
    <2>1. <<>> \in [{} -> Nat] /\ {} \in SUBSET Names
      OBVIOUS
    <2> QED
      BY <2>1 DEF Caches
  <1>6. IsFiniteSet({}) /\ Cardinality({}) = 0 /\ Capacity \in Nat
    BY FS_EmptySet, PathsAssumption
  <1>7. CacheFits(<<>>)
    BY <1>4, <1>5, <1>6 DEF CacheFits
  <1> QED
    BY <1>3, <1>4, <1>7 DEF CacheOK

LEMMA PathsInitial == PathsInit => PathsInv
  <1> SUFFICES ASSUME PathsInit PROVE PathsInv
    OBVIOUS
  <1>1. MaxRecords \in Nat /\ MaxRollbacks \in Nat
    BY PathsAssumption
  <1>2. records \in 0 .. MaxRecords /\ rollbacks \in 0 .. MaxRollbacks /\ astray \in BOOLEAN
    <2>1. records = 0 /\ rollbacks = 0
      BY Zenon DEF PathsInit
    <2>2. astray = FALSE
      BY Zenon DEF PathsInit
    <2>3. records \in 0 .. MaxRecords /\ rollbacks \in 0 .. MaxRollbacks
      BY ONLY <1>1, <2>1, SMT
    <2> QED
      BY <2>2, <2>3, Zenon
  <1>3. /\ components = <<>> /\ files = <<>> /\ truth = <<>> /\ cache = <<>>
        /\ saved = NoTransaction
    BY DEF PathsInit
  <1>4. TablesOK(components, files, truth) /\ TruthOK(components, files, truth)
    BY <1>3, NothingYet, Zenon
  <1>5. CacheFits(cache) /\ CacheOK(components, cache)
    BY <1>3, NothingYet, Zenon
  <1> QED
    BY <1>2, <1>3, <1>4, <1>5, Zenon DEF PathsInv

LEMMA RecordKeepsPaths == PathsInv /\ Record => PathsInv'
  <1> SUFFICES ASSUME PathsInv, Record PROVE PathsInv'
    OBVIOUS
  <1>1. PICK root \in RootDirs, below \in UNION {[1 .. n -> Names] : n \in 1 .. Depth},
             dir \in BOOLEAN :
          LET w == RecordEntry(Work, root, below, dir) IN
            /\ components' = w.components
            /\ files' = w.files
            /\ cache' = w.cache
            /\ truth' = w.truth
    BY DEF Record
  <1>2. below \in Seq(Names) /\ below # <<>> /\ Len(below) <= Depth
    <2>1. PICK n \in 1 .. Depth : below \in [1 .. n -> Names]
      OBVIOUS
    <2>2. Depth \in Nat
      BY PathsAssumption
    <2>3. below \in Seq(Names) /\ Len(below) = n
      BY <2>1, <2>2
    <2> QED
      BY <2>1, <2>2, <2>3, EmptySeq
  <1>3. PICK c0 \in Seq(Names) :
          /\ Prefixed(c0, components)
          /\ saved # NoTransaction =>
               \E f, t : /\ saved = <<c0, f, t>> /\ TablesOK(c0, f, t)
                         /\ ~astray => TruthOK(c0, f, t)
    <2>1. CASE saved = NoTransaction
      <3>1. <<>> \in Seq(Names) /\ Prefixed(<<>>, components)
        <4>1. <<>> \in Seq(Names) /\ Len(<<>>) = 0
          BY EmptySeq
        <4>2. Len(components) \in Nat
          BY LenProperties DEF PathsInv, TablesOK
        <4> QED
          BY <4>1, <4>2 DEF Prefixed
      <3> QED
        BY <2>1, <3>1
    <2>2. CASE saved # NoTransaction
      <3>1. PICK c, f, t : /\ saved = <<c, f, t>> /\ TablesOK(c, f, t) /\ Prefixed(c, components)
                           /\ ~astray => TruthOK(c, f, t)
        BY <2>2 DEF PathsInv
      <3>2. c \in Seq(Names)
        BY <3>1 DEF TablesOK
      <3> QED
        BY <3>1, <3>2
    <2> QED
      BY <2>1, <2>2
  <1>4. WorkAt(Work, c0, astray, <<>>)
    <2>1. /\ Work.components = components /\ Work.files = files /\ Work.cache = cache
          /\ Work.truth = truth /\ Work.id = 0 /\ Work.failed = FALSE
      BY DEF Work
    <2>2. /\ components \in Seq(Names) /\ files \in Seq(Row) /\ truth \in Seq(Seq(Names))
          /\ cache \in Caches
      BY DEF PathsInv, TablesOK, CacheFits
    <2>3. Work \in Works
      BY <2>2 DEF Work, Works
    <2>4. Len(files) \in Nat
      BY <2>2, LenProperties
    <2>5. WorkOK(Work, c0, astray)
      BY <1>3, <2>1, <2>3 DEF WorkOK, PathsInv
    <2>6. Work.id \in 0 .. Len(Work.files) /\ PathTo(Work.truth, Work.id) = <<>>
      BY <2>1, <2>4 DEF PathTo
    <2> QED
      BY <2>5, <2>6 DEF WorkAt
  <1>5. PICK w : w = RecordEntry(Work, root, below, dir)
    OBVIOUS
  <1>6. astray \in BOOLEAN
    BY DEF PathsInv
  <1>7. WorkOK(w, c0, astray)
    BY <1>2, <1>4, <1>5, <1>6, RecordKeepsWork
  <1>8. /\ components' = w.components /\ files' = w.files /\ cache' = w.cache /\ truth' = w.truth
        /\ saved' = saved /\ rollbacks' = rollbacks /\ astray' = astray
        /\ records < MaxRecords /\ records' = records + 1
    BY <1>1, <1>5 DEF Record
  <1>9. records' \in 0 .. MaxRecords
    BY <1>8, PathsAssumption DEF PathsInv
  <1>10. /\ TablesOK(components', files', truth') /\ CacheFits(cache')
         /\ ~astray => TruthOK(components', files', truth') /\ CacheOK(components', cache')
         /\ Prefixed(c0, components')
    BY <1>7, <1>8 DEF WorkOK
  <1>11. saved' # NoTransaction =>
          \E c, f, t : /\ saved' = <<c, f, t>> /\ TablesOK(c, f, t) /\ Prefixed(c, components')
                       /\ ~astray' => TruthOK(c, f, t)
    BY <1>3, <1>8, <1>10
  <1>12. rollbacks' \in 0 .. MaxRollbacks /\ astray' \in BOOLEAN
    BY <1>8 DEF PathsInv
  <1> QED
    BY <1>8, <1>9, <1>10, <1>11, <1>12 DEF PathsInv, NoTransaction

LEMMA RollbackKeeps == PathsInv /\ Rollback => PathsInv'
  <1> SUFFICES ASSUME PathsInv, Rollback PROVE PathsInv'
    OBVIOUS
  <1>1. PICK c, f, t : /\ saved = <<c, f, t>> /\ TablesOK(c, f, t) /\ Prefixed(c, components)
                       /\ ~astray => TruthOK(c, f, t)
    BY DEF PathsInv, Rollback
  <1>2. /\ components' = c /\ files' = f /\ truth' = t /\ saved' = NoTransaction
        /\ cache' = cache /\ records' = records
        /\ rollbacks < MaxRollbacks /\ rollbacks' = rollbacks + 1
        /\ astray' = (astray \/ \E n \in DOMAIN cache : cache[n] > Len(c))
    BY <1>1 DEF Rollback
  <1>3. rollbacks' \in 0 .. MaxRollbacks /\ records' \in 0 .. MaxRecords /\ astray' \in BOOLEAN
    BY <1>2, PathsAssumption DEF PathsInv
  <1>4. ASSUME ~astray' PROVE TruthOK(c, f, t) /\ CacheOK(c, cache)
    <2>1. ~astray /\ \A n \in DOMAIN cache : ~ (cache[n] > Len(c))
      BY <1>2, <1>4
    <2>2. Len(c) \in Nat
      BY <1>1, LenProperties DEF TablesOK
    <2>3. ASSUME NEW n \in DOMAIN cache PROVE cache[n] \in 1 .. Len(c) /\ c[cache[n]] = n
      <3>1. cache[n] \in 1 .. Len(components) /\ components[cache[n]] = n
        BY <2>1 DEF PathsInv, CacheOK
      <3>2. cache[n] \in 1 .. Len(c)
        <4>1. ~ (cache[n] > Len(c))
          BY <2>1
        <4> QED
          BY <2>2, <3>1, <4>1
      <3> QED
        BY <1>1, <3>1, <3>2 DEF Prefixed
    <2> QED
      BY <1>1, <2>1, <2>3 DEF CacheOK
  <1>5. CacheFits(cache)
    BY DEF PathsInv
  <1> QED
    BY <1>1, <1>2, <1>3, <1>4, <1>5 DEF PathsInv

LEMMA PathsStep == PathsInv /\ [PathsNext]_pathsVars => PathsInv'
  <1> SUFFICES ASSUME PathsInv, [PathsNext]_pathsVars PROVE PathsInv'
    OBVIOUS
  <1>1. CASE Record
    BY <1>1, RecordKeepsPaths
  <1>2. CASE Begin
    <2>1. /\ saved' = <<components, files, truth>> /\ components' = components
          /\ files' = files /\ truth' = truth /\ cache' = cache
          /\ records' = records /\ rollbacks' = rollbacks /\ astray' = astray
      BY <1>2 DEF Begin, tables
    <2>2. Prefixed(components, components)
      BY LenProperties DEF Prefixed, PathsInv, TablesOK
    <2>3. \E c, f, t : /\ saved' = <<c, f, t>> /\ TablesOK(c, f, t) /\ Prefixed(c, components')
                       /\ ~astray' => TruthOK(c, f, t)
      <3>1. TablesOK(components, files, truth) /\ (~astray => TruthOK(components, files, truth))
        BY DEF PathsInv
      <3> QED
        BY <2>1, <2>2, <3>1
    <2> QED
      BY <2>1, <2>3 DEF PathsInv
  <1>3. CASE Commit
    BY <1>3 DEF Commit, tables, PathsInv
  <1>4. CASE Rollback
    BY <1>4, RollbackKeeps
  <1>5. CASE Restart
    <2>1. /\ cache' = <<>> /\ components' = components /\ files' = files /\ truth' = truth
          /\ saved' = saved /\ saved = NoTransaction
          /\ records' = records /\ rollbacks' = rollbacks /\ astray' = astray
      BY <1>5 DEF Restart, tables
    <2> QED
      BY <2>1, NothingYet DEF PathsInv, NoTransaction
  <1>6. CASE UNCHANGED pathsVars
    <2>1. /\ cache' = cache /\ components' = components /\ files' = files /\ truth' = truth
          /\ saved' = saved
          /\ records' = records /\ rollbacks' = rollbacks /\ astray' = astray
      BY <1>6 DEF pathsVars, tables
    <2> QED
      BY <2>1 DEF PathsInv, NoTransaction
  <1> QED
    BY <1>1, <1>2, <1>3, <1>4, <1>5, <1>6 DEF PathsNext

(* The path of a row, and of none.                                           *)
LEMMA PathToIs ==
  ASSUME NEW t \in Seq(Seq(Names)), NEW k \in 0 .. Len(t)
  PROVE  PathTo(t, k) \in Seq(Names)
  <1>1. Len(t) \in Nat
    BY LenProperties
  <1>2. CASE k = 0
    BY <1>2, EmptySeq DEF PathTo
  <1>3. CASE k # 0
    <2>1. k \in 1 .. Len(t)
      BY <1>1, <1>3
    <2>2. t[k] \in Seq(Names)
      BY <2>1, LenProperties
    <2> QED
      BY <1>3, <2>2 DEF PathTo
  <1> QED
    BY <1>2, <1>3

LEMMA AppendOnce ==
  ASSUME NEW s \in Seq(Names), NEW u \in Seq(Names), NEW n \in Names, NEW m \in Names,
         Append(s, n) = Append(u, m)
  PROVE  s = u /\ n = m
  <1>1. /\ Len(Append(s, n)) = Len(s) + 1 /\ Append(s, n)[Len(s) + 1] = n
        /\ \A k \in 1 .. Len(s) : Append(s, n)[k] = s[k]
    BY AppendProperties
  <1>2. /\ Len(Append(u, m)) = Len(u) + 1 /\ Append(u, m)[Len(u) + 1] = m
        /\ \A k \in 1 .. Len(u) : Append(u, m)[k] = u[k]
    BY AppendProperties
  <1>3. Len(s) \in Nat /\ Len(u) \in Nat
    BY LenProperties
  <1>4. Len(s) = Len(u)
    BY <1>1, <1>2, <1>3
  <1>5. \A k \in 1 .. Len(s) : s[k] = u[k]
    BY <1>1, <1>2, <1>4
  <1>6. n = m
    BY <1>1, <1>2, <1>4
  <1> QED
    BY <1>4, <1>5, <1>6, SeqEqual

(* No two rows stand for one path: the first of two would have a parent that    *)
(* has another row beside it.                                               *)
LEMMA TruthInjective ==
  ASSUME NEW c, NEW f, NEW t, TablesOK(c, f, t), TruthOK(c, f, t)
  PROVE  \A i, j \in 1 .. Len(f) : t[i] = t[j] => i = j
  <1> DEFINE Twin(i) == \E j \in 1 .. Len(f) : t[i] = t[j] /\ i # j
             Wrong == {i \in 1 .. Len(f) : Twin(i)}
  <1> SUFFICES ASSUME Wrong # {} PROVE FALSE
    OBVIOUS
  <1>1. /\ f \in Seq(Row) /\ c \in Seq(Names) /\ t \in Seq(Seq(Names)) /\ Len(t) = Len(f)
        /\ Len(f) \in Nat
    BY LenProperties DEF TablesOK
  <1>2. Wrong \in SUBSET Nat
    BY <1>1
  <1>3. PICK i \in Wrong : \A j \in Wrong : i <= j
    <2> HIDE DEF Wrong
    <2> QED
      BY <1>2, LeastOf
  <1>4. i \in 1 .. Len(f) /\ Twin(i)
    OBVIOUS
  <1>5. PICK j \in 1 .. Len(f) : t[i] = t[j] /\ i # j
    BY <1>4
  <1>6. j \in Wrong
    BY <1>4, <1>5
  <1>7. i <= j
    BY <1>3, <1>6
  <1> DEFINE p == f[i].parent
             q == f[j].parent
             x == f[i].component
             y == f[j].component
  <1>8. /\ p \in 0 .. i - 1 /\ q \in 0 .. j - 1
        /\ x \in 1 .. Len(c) /\ y \in 1 .. Len(c)
    BY <1>4, <1>5 DEF TablesOK
  <1>9. /\ t[i] = Append(PathTo(t, p), c[x]) /\ t[j] = Append(PathTo(t, q), c[y])
    BY <1>4, <1>5 DEF TruthOK
  <1>10. c[x] \in Names /\ c[y] \in Names
    BY <1>1, <1>8, LenProperties
  <1>11. \A k \in 0 .. Len(f) : PathTo(t, k) \in Seq(Names)
    BY <1>1, PathToIs
  <1>12. p \in 0 .. Len(f) /\ q \in 0 .. Len(f)
    <2>1. i \in 1 .. Len(f) /\ j \in 1 .. Len(f)
      BY <1>4, <1>5
    <2> HIDE DEF p, q, x, y, Wrong
    <2> QED
      BY <1>1, <1>8, <2>1
  <1>14. PathTo(t, p) = PathTo(t, q) /\ c[x] = c[y]
    <2>1. Append(PathTo(t, p), c[x]) = Append(PathTo(t, q), c[y])
      BY <1>5, <1>9
    <2> HIDE DEF p, q, x, y
    <2>2. PathTo(t, p) \in Seq(Names) /\ PathTo(t, q) \in Seq(Names)
      BY <1>11, <1>12
    <2> QED
      BY <1>10, <2>1, <2>2, AppendOnce
  <1>15. x = y
    BY <1>8, <1>14 DEF TruthOK
  <1>16. p # q
    BY <1>4, <1>5, <1>15 DEF TablesOK
  <1>17. \A k \in 1 .. Len(f) : t[k] # <<>>
    <2> SUFFICES ASSUME NEW k \in 1 .. Len(f) PROVE t[k] # <<>>
      OBVIOUS
    <2>1. t[k] = Append(PathTo(t, f[k].parent), c[f[k].component])
      BY DEF TruthOK
    <2>2. f[k].parent \in 0 .. k - 1 /\ f[k].component \in 1 .. Len(c)
      BY DEF TablesOK
    <2>3. f[k].parent \in 0 .. Len(f)
      BY <1>1, <2>2
    <2>4. PathTo(t, f[k].parent) \in Seq(Names) /\ c[f[k].component] \in Names
      BY <1>1, <1>11, <2>2, <2>3, LenProperties
    <2> QED
      BY <2>1, <2>4, AppendProperties
  <1>18. p # 0 /\ q # 0
    <2> HIDE DEF x, y
    <2>1. CASE p = 0
      <3>1. q \in 1 .. Len(f)
        BY <1>12, <1>16, <2>1
      <3> QED
        BY <1>14, <1>17, <2>1, <3>1 DEF PathTo
    <2>2. CASE q = 0
      <3>1. p \in 1 .. Len(f)
        BY <1>12, <1>16, <2>2
      <3> QED
        BY <1>14, <1>17, <2>2, <3>1 DEF PathTo
    <2> QED
      BY <2>1, <2>2
  <1>19. t[p] = t[q] /\ p \in 1 .. Len(f) /\ q \in 1 .. Len(f)
    BY <1>12, <1>14, <1>18 DEF PathTo
  <1>20. p \in Wrong
    BY <1>16, <1>19
  <1>21. ~ (i <= p)
    <2>1. i \in 1 .. Len(f)
      BY <1>4
    <2> HIDE DEF p, q, x, y, Wrong
    <2> QED
      BY <1>1, <1>8, <2>1
  <1> QED
    BY <1>3, <1>20, <1>21

(* Where a path leads: each name one row further down, as far as there are     *)
(* rows.                                                                    *)
RowsAt(t, path) ==
  IF path = <<>> THEN {0}
  ELSE IF \E i \in 1 .. Len(t) : t[i] = path THEN {i \in 1 .. Len(t) : t[i] = path} ELSE {Missing}

LEMMA RowsBelow ==
  ASSUME NEW t, NEW path, path # <<>>
  PROVE  /\ \A k \in 1 .. Len(t) : t[k] = path => k \in RowsAt(t, path)
         /\ (~ \E i \in 1 .. Len(t) : t[i] = path) => RowsAt(t, path) = {Missing}
         /\ (\E i \in 1 .. Len(t) : t[i] = path)
               => RowsAt(t, path) = {i \in 1 .. Len(t) : t[i] = path}
  BY DEF RowsAt

LEMMA RowOfNext ==
  ASSUME PathsInv, ~astray, NEW path \in Seq(Names), NEW name \in Names,
         NEW y \in RowsAt(truth, path)
  PROVE  RowOf(y, name) \in RowsAt(truth, Append(path, name))
  <1> DEFINE n == Len(files)
             component == LookupComponent(name)
             at == {i \in DOMAIN files : files[i].parent = y /\ files[i].component = component}
             next == Append(path, name)
             Meant == {i \in 1 .. n : truth[i] = next}
  <1>1. /\ TablesOK(components, files, truth) /\ TruthOK(components, files, truth)
        /\ components \in Seq(Names) /\ files \in Seq(Row) /\ truth \in Seq(Seq(Names))
        /\ Len(truth) = n /\ n \in Nat /\ DOMAIN files = 1 .. n
        /\ DOMAIN components = 1 .. Len(components) /\ Len(components) \in Nat
    BY LenProperties DEF PathsInv, TablesOK
  <1>2. next \in Seq(Names) /\ next # <<>>
    BY AppendProperties
  <1>3. RowOf(y, name) = IF at = {} THEN Missing ELSE CHOOSE i \in at : TRUE
    BY DEF RowOf
  <1>4. \A i \in 1 .. n : /\ truth[i] = Append(PathTo(truth, files[i].parent), components[files[i].component])
                          /\ files[i].parent \in 0 .. n /\ files[i].component \in 1 .. Len(components)
                          /\ PathTo(truth, files[i].parent) \in Seq(Names)
                          /\ components[files[i].component] \in Names
    <2> SUFFICES ASSUME NEW i \in 1 .. n
                 PROVE  /\ truth[i] = Append(PathTo(truth, files[i].parent), components[files[i].component])
                        /\ files[i].parent \in 0 .. n /\ files[i].component \in 1 .. Len(components)
                        /\ PathTo(truth, files[i].parent) \in Seq(Names)
                        /\ components[files[i].component] \in Names
      OBVIOUS
    <2>1. truth[i] = Append(PathTo(truth, files[i].parent), components[files[i].component])
      BY <1>1 DEF TruthOK
    <2>2. files[i].parent \in 0 .. i - 1 /\ files[i].component \in 1 .. Len(components)
      BY <1>1 DEF TablesOK
    <2>3. files[i].parent \in 0 .. n
      BY <1>1, <2>2
    <2>4. components[files[i].component] \in Names
      BY <1>1, <2>2, LenProperties
    <2>5. PathTo(truth, files[i].parent) \in Seq(Names)
      BY <1>1, <2>3, PathToIs
    <2> QED
      BY <2>1, <2>2, <2>3, <2>4, <2>5
  <1>5. ASSUME NEW i \in at PROVE i \in Meant
    <2>1. i \in 1 .. n /\ files[i].parent = y /\ files[i].component = component
      BY <1>1
    <2>2. component \in 1 .. Len(components) /\ y \in 0 .. n
      BY <1>4, <2>1
    <2>3. components[component] = name
      <3>1. component # Missing
        BY <2>2 DEF Missing
      <3>2. name \in Range(components)
        BY <3>1 DEF LookupComponent
      <3>3. \E k \in DOMAIN components : components[k] = name
        BY <3>2 DEF Range
      <3>4. component = CHOOSE k \in DOMAIN components : components[k] = name
        BY <3>2 DEF LookupComponent
      <3> HIDE DEF component
      <3> QED
        BY <3>3, <3>4
    <2>4. PathTo(truth, y) = path
      <3> HIDE DEF component, at
      <3>1. CASE path = <<>>
        BY <3>1 DEF RowsAt, PathTo
      <3>2. CASE path # <<>>
        <4>1. y # Missing
          BY <2>2 DEF Missing
        <4>2. y \in 1 .. Len(truth) /\ truth[y] = path
          BY <3>2, <4>1 DEF RowsAt
        <4> QED
          BY <1>1, <4>2 DEF PathTo
      <3> QED
        BY <3>1, <3>2
    <2> HIDE DEF component
    <2> QED
      BY <1>4, <2>1, <2>3, <2>4
  <1>6. ASSUME NEW i \in Meant PROVE i \in at
    <2>1. i \in 1 .. n /\ truth[i] = next
      OBVIOUS
    <2> HIDE DEF Meant
    <2> DEFINE p == files[i].parent
               x == files[i].component
    <2>2. /\ truth[i] = Append(PathTo(truth, p), components[x])
          /\ p \in 0 .. n /\ x \in 1 .. Len(components) /\ PathTo(truth, p) \in Seq(Names)
          /\ components[x] \in Names
      BY <1>4, <2>1
    <2>3. PathTo(truth, p) = path /\ components[x] = name
      <3> HIDE DEF p, x
      <3> QED
        <4>1. Append(PathTo(truth, p), components[x]) = Append(path, name)
          BY <2>1, <2>2
        <4>2. path \in Seq(Names) /\ name \in Names
          OBVIOUS
        <4> QED
          BY ONLY <2>2, <4>1, <4>2, AppendOnce
    <2>4. component = x
      <3>1. x \in DOMAIN components /\ components[x] = name
        BY <1>1, <2>2, <2>3
      <3>2. name \in Range(components)
        BY <3>1 DEF Range
      <3>3. component = CHOOSE k \in DOMAIN components : components[k] = name
        BY <3>2 DEF LookupComponent
      <3> HIDE DEF component, x
      <3>4. component \in DOMAIN components /\ components[component] = name
        BY <3>1, <3>3
      <3>5. \A k, l \in 1 .. Len(components) : components[k] = components[l] => k = l
        BY <1>1 DEF TruthOK
      <3> QED
        BY <1>1, <3>1, <3>4, <3>5
    <2>5. p = y
      <3> HIDE DEF x, component, at
      <3>1. CASE p = 0
        <4>1. path = <<>>
          BY <2>3, <3>1 DEF PathTo
        <4> QED
          BY <3>1, <4>1 DEF RowsAt
      <3>2. CASE p # 0
        <4>1. p \in 1 .. n /\ truth[p] = path
          BY <1>1, <2>2, <2>3, <3>2 DEF PathTo
        <4>2. path # <<>>
          <5>1. /\ truth[p] = Append(PathTo(truth, files[p].parent), components[files[p].component])
                /\ PathTo(truth, files[p].parent) \in Seq(Names)
                /\ components[files[p].component] \in Names
            BY <1>4, <4>1
          <5>2. truth[p] # <<>>
            BY ONLY <5>1, AppendProperties
          <5> QED
            BY <4>1, <5>2
        <4>3. y \in 1 .. n /\ truth[y] = path
          BY <1>1, <4>1, <4>2 DEF RowsAt
        <4>4. \A k, l \in 1 .. n : truth[k] = truth[l] => k = l
          BY <1>1, TruthInjective
        <4> HIDE DEF p
        <4> QED
          BY <4>1, <4>3, <4>4
      <3> QED
        BY <3>1, <3>2
    <2> HIDE DEF component
    <2> QED
      BY <1>1, <2>1, <2>4, <2>5
  <1>7. CASE at = {}
    <2>1. RowOf(y, name) = Missing
      BY <1>3, <1>7
    <2>2. ~ \E i \in 1 .. Len(truth) : truth[i] = next
      <3> SUFFICES ASSUME NEW i \in 1 .. Len(truth), truth[i] = next PROVE FALSE
        OBVIOUS
      <3>1. i \in Meant
        BY <1>1
      <3> HIDE DEF Meant, at
      <3> QED
        BY <1>6, <1>7, <3>1
    <2> HIDE DEF at
    <2> QED
      BY ONLY <1>2, <2>1, <2>2, RowsBelow
  <1>8. CASE at # {}
    <2>1. PICK k : k = CHOOSE i \in at : TRUE
      OBVIOUS
    <2>2. k \in at
      <3> HIDE DEF at
      <3> QED
        BY <1>8, <2>1
    <2>3. RowOf(y, name) = k
      <3> HIDE DEF at
      <3> QED
        BY <1>3, <1>8, <2>1
    <2>4. k \in Meant
      <3> HIDE DEF at, Meant
      <3> QED
        BY <1>5, <2>2
    <2>5. k \in 1 .. Len(truth) /\ truth[k] = next
      BY <1>1, <2>4
    <2> HIDE DEF at, Meant
    <2> QED
      BY ONLY <1>2, <2>3, <2>5, RowsBelow
  <1> QED
    BY <1>7, <1>8

(* From the top, the names lead to where the path leads.                     *)
ReachedSteps(names) ==
  LET row[i \in 0 .. Len(names)] == IF i = 0 THEN 0 ELSE RowOf(row[i - 1], names[i]) IN row

LEMMA ReachedIs ==
  ASSUME PathsInv, ~astray, NEW names \in Seq(Names)
  PROVE  Reached(names) \in RowsAt(truth, names)
  <1> DEFINE n == Len(names)
             X == [i \in 0 .. n |-> RowsAt(truth, SubSeq(names, 1, i))]
             F == [p \in Int \X (1 .. n) |-> RowOf(p[1], names[p[2]])]
             P(g) == g = [i \in 0 .. n |-> IF i = 0 THEN 0 ELSE RowOf(g[i - 1], names[i])]
  <1>1. n \in Nat /\ Len(truth) \in Nat
    BY LenProperties DEF PathsInv, TablesOK
  <1>2. 0 \in X[0]
    <2>1. SubSeq(names, 1, 0) = <<>>
      BY SubSeqEmpty
    <2> QED
      BY <1>1, <2>1 DEF RowsAt
  <1>3. ASSUME NEW i \in 1 .. n, NEW y \in X[i - 1]
        PROVE  RowOf(y, names[i]) \in X[i] /\ y \in Int
    <2>1. i - 1 \in 0 .. n /\ i \in 0 .. n
      BY <1>1
    <2>2. /\ SubSeq(names, 1, i) = Append(SubSeq(names, 1, i - 1), names[i])
          /\ SubSeq(names, 1, i - 1) \in Seq(Names) /\ names[i] \in Names
      BY <1>1, NextOfPart
    <2>3. PICK path : path = SubSeq(names, 1, i - 1)
      OBVIOUS
    <2>4. y \in RowsAt(truth, path)
      BY <2>1, <2>3
    <2> HIDE DEF X
    <2>5. RowOf(y, names[i]) \in RowsAt(truth, Append(path, names[i]))
      BY <2>2, <2>3, <2>4, RowOfNext
    <2>6. y \in Int
      <3>1. CASE path = <<>>
        BY <2>4, <3>1 DEF RowsAt
      <3>2. CASE path # <<>>
        <4>1. RowsAt(truth, path) = {Missing}
              \/ RowsAt(truth, path) = {j \in 1 .. Len(truth) : truth[j] = path}
          BY <3>2, RowsBelow
        <4> QED
          BY <1>1, <2>4, <4>1 DEF Missing
      <3> QED
        BY <3>1, <3>2
    <2>7. X[i] = RowsAt(truth, Append(path, names[i]))
      BY <2>1, <2>2, <2>3 DEF X
    <2> QED
      BY <2>5, <2>6, <2>7
  <1>4. \A i \in 1 .. n : \A y \in X[i - 1] :
          F[<<y, i>>] = RowOf(y, names[i]) /\ F[<<y, i>>] \in X[i]
    <2> HIDE DEF X
    <2> QED
      BY <1>3
  <1>5. PICK f : Iterates(f, n, 0, F) /\ \A i \in 0 .. n : f[i] \in X[i]
    <2> HIDE DEF X, F, n
    <2>1. \A i \in 1 .. n : \A y \in X[i - 1] : F[<<y, i>>] \in X[i]
      BY <1>4
    <2> QED
      BY <1>1, <1>2, <2>1, StepsLead
  <1>6. P(f)
    <2> HIDE DEF X, F, n
    <2>1. \A i \in 0 .. n : f[i] = IF i = 0 THEN 0 ELSE RowOf(f[i - 1], names[i])
      <3> SUFFICES ASSUME NEW i \in 0 .. n, i # 0
                   PROVE  F[<<f[i - 1], i>>] = RowOf(f[i - 1], names[i])
        BY <1>5 DEF Iterates
      <3>1. i \in 1 .. n /\ i - 1 \in 0 .. n
        BY <1>1
      <3> QED
        BY <1>4, <1>5, <3>1
    <2>2. f = [i \in 0 .. n |-> f[i]]
      BY <1>5 DEF Iterates
    <2> QED
      BY <2>1, <2>2
  <1>7. P(ReachedSteps(names))
    <2>1. ReachedSteps(names) = CHOOSE g : P(g)
      BY DEF ReachedSteps
    <2> HIDE DEF P
    <2> QED
      BY <1>6, <2>1
  <1> DEFINE g == ReachedSteps(names)
  <1>8. g = [i \in 0 .. n |-> IF i = 0 THEN 0 ELSE RowOf(g[i - 1], names[i])]
    BY <1>7
  <1>9. \A i \in 0 .. n : g[i] \in X[i]
    <2> HIDE DEF X, F, n, P, g
    <2>1. g[0] \in X[0]
      BY <1>1, <1>2, <1>8
    <2>2. \A i \in 1 .. n : g[i - 1] \in X[i - 1] => g[i] \in X[i]
      <3> SUFFICES ASSUME NEW i \in 1 .. n, g[i - 1] \in X[i - 1] PROVE g[i] \in X[i]
        OBVIOUS
      <3>1. i \in 0 .. n /\ i # 0
        BY <1>1
      <3>2. g[i] = RowOf(g[i - 1], names[i])
        BY <1>8, <3>1
      <3> QED
        BY <1>3, <3>2
    <2> QED
      BY <1>1, <2>1, <2>2, StepsStay
  <1>10. g[n] \in RowsAt(truth, SubSeq(names, 1, n))
    <2>1. n \in 0 .. n
      BY <1>1
    <2> HIDE DEF g, n, F, P
    <2> QED
      BY <1>9, <2>1
  <1>11. SubSeq(names, 1, n) = names
    BY SubSeqFull
  <1>12. Reached(names) = g[n]
    BY DEF Reached, ReachedSteps
  <1> HIDE DEF g, n
  <1> QED
    BY <1>10, <1>11, <1>12

(* A path and what is above it.                                              *)
LEMMA PrefixIs ==
  ASSUME NEW s \in Seq(Written), NEW t \in Seq(Written), IsPrefix(s, t)
  PROVE  Len(s) <= Len(t) /\ \A i \in 1 .. Len(s) : s[i] = t[i]
  <1>1. Len(s) \in Nat /\ Len(t) \in Nat
    BY LenProperties
  <1>2. Len(s) <= Len(t) /\ SubSeq(s, 1, Len(s)) = SubSeq(t, 1, Len(s))
    BY DEF IsPrefix
  <1>3. SubSeq(s, 1, Len(s)) = s
    BY SubSeqFull
  <1>4. PICK u : u = SubSeq(t, 1, Len(s))
    OBVIOUS
  <1>5. \A i \in 1 .. Len(s) : t[i] \in Written
    BY <1>1, <1>2, LenProperties
  <1>6. \A i \in 1 .. Len(s) - 1 + 1 : u[i] = t[1 + i - 1]
    BY <1>1, <1>4, <1>5, SubSeqProperties
  <1>7. \A i \in 1 .. Len(s) : u[i] = t[i]
    <2> SUFFICES ASSUME NEW i \in 1 .. Len(s) PROVE u[i] = t[i]
      OBVIOUS
    <2>1. i \in 1 .. Len(s) - 1 + 1 /\ 1 + i - 1 = i
      BY <1>1
    <2> QED
      BY <1>6, <2>1
  <1> QED
    BY <1>2, <1>3, <1>4, <1>7

LEMMA PrefixOfBoth ==
  ASSUME NEW s \in Seq(Written), NEW t \in Seq(Written)
  PROVE  IsPrefix(s, s \o t)
  <1>1. PICK u : u = s \o t
    OBVIOUS
  <1>2. /\ u \in Seq(Written) /\ Len(u) = Len(s) + Len(t)
        /\ \A i \in 1 .. Len(s) + Len(t) : u[i] = IF i <= Len(s) THEN s[i] ELSE t[i - Len(s)]
    BY <1>1, ConcatProperties
  <1>3. Len(s) \in Nat /\ Len(t) \in Nat
    BY LenProperties
  <1>4. \A i \in 1 .. Len(s) : u[i] = s[i] /\ u[i] \in Written
    <2> SUFFICES ASSUME NEW i \in 1 .. Len(s) PROVE u[i] = s[i] /\ u[i] \in Written
      OBVIOUS
    <2>1. i \in 1 .. Len(s) + Len(t) /\ i <= Len(s)
      BY <1>3
    <2>2. u[i] = s[i]
      BY <1>2, <2>1
    <2> QED
      BY <2>2, LenProperties
  <1>5. PICK v : v = SubSeq(u, 1, Len(s))
    OBVIOUS
  <1>6. /\ v \in Seq(Written) /\ Len(v) = IF 1 <= Len(s) THEN Len(s) - 1 + 1 ELSE 0
        /\ \A i \in 1 .. Len(s) - 1 + 1 : v[i] = u[1 + i - 1]
    BY <1>3, <1>4, <1>5, SubSeqProperties
  <1>7. Len(v) = Len(s)
    BY <1>3, <1>6
  <1>8. \A i \in 1 .. Len(v) : v[i] = s[i]
    <2> SUFFICES ASSUME NEW i \in 1 .. Len(v) PROVE v[i] = s[i]
      OBVIOUS
    <2>1. i \in 1 .. Len(s) - 1 + 1 /\ 1 + i - 1 = i /\ i \in 1 .. Len(s)
      BY <1>3, <1>7
    <2> QED
      BY <1>4, <1>6, <2>1
  <1>9. v = s
    BY <1>6, <1>7, <1>8, SeqEqual
  <1>10. SubSeq(s, 1, Len(s)) = s
    BY SubSeqFull
  <1> QED
    BY <1>1, <1>2, <1>3, <1>5, <1>9, <1>10 DEF IsPrefix

Splits(u, r, rest) == u = r \o rest /\ rest \in Seq(Names) /\ rest # <<>>

Hangs(root, below, r, u, l, m, rest) ==
  /\ root \in Seq(Written) /\ below \in Seq(Names) /\ r \in Seq(Written)
  /\ u = root \o below /\ IsPrefix(r, u) /\ r # u /\ Len(root) <= Len(r)
  /\ l = Len(r) /\ m = Len(u) /\ rest = SubSeq(u, l + 1, m)

LEMMA RestIsNames ==
  ASSUME NEW root, NEW below, NEW r, NEW u, NEW l, NEW m, NEW rest,
         Hangs(root, below, r, u, l, m, rest)
  PROVE  Splits(u, r, rest)
  <1> /\ root \in Seq(Written) /\ below \in Seq(Names) /\ r \in Seq(Written)
      /\ u = root \o below /\ IsPrefix(r, u) /\ r # u /\ Len(root) <= Len(r)
      /\ l = Len(r) /\ m = Len(u) /\ rest = SubSeq(u, l + 1, m)
    BY DEF Hangs
  <1>1. u = root \o below
    OBVIOUS
  <1>2. below \in Seq(Written)
    BY DEF Written
  <1>3. /\ u \in Seq(Written) /\ Len(u) = Len(root) + Len(below)
        /\ \A i \in 1 .. Len(root) + Len(below) : u[i] = IF i <= Len(root) THEN root[i] ELSE below[i - Len(root)]
    BY <1>1, <1>2, ConcatProperties
  <1>4. Len(root) \in Nat /\ Len(below) \in Nat /\ Len(r) \in Nat
    BY LenProperties
  <1>5. Len(r) <= Len(u) /\ \A i \in 1 .. Len(r) : r[i] = u[i]
    BY <1>1, <1>3, PrefixIs
  <1>6. Len(r) # Len(u)
    BY <1>1, <1>3, <1>5, SeqEqual
  <1>7. m = Len(u)
    OBVIOUS
  <1>8. l = Len(r)
    OBVIOUS
  <1>9. m \in Nat /\ l \in Nat /\ l < m
    BY <1>3, <1>4, <1>5, <1>6, <1>7, <1>8
  <1>10. \A i \in l + 1 .. m : u[i] \in Names
    <2> SUFFICES ASSUME NEW i \in l + 1 .. m PROVE u[i] \in Names
      OBVIOUS
    <2>1. /\ i \in 1 .. Len(root) + Len(below) /\ ~ (i <= Len(root))
          /\ i - Len(root) \in 1 .. Len(below)
      BY <1>3, <1>4, <1>7, <1>8, <1>9
    <2> QED
      BY <1>3, <2>1, LenProperties
  <1>11. rest \in Seq(Names) /\ Len(rest) = m - l /\ \A i \in 1 .. m - l : rest[i] = u[l + i]
    <2>1. PICK k : k = l + 1
      OBVIOUS
    <2>2. k \in Int /\ m \in Int /\ k <= m /\ m - k + 1 = m - l
      BY <1>9, <2>1
    <2>3. rest = SubSeq(u, k, m)
      BY <1>1, <1>7, <1>8, <2>1
    <2>4. \A i \in k .. m : u[i] \in Names
      BY <1>10, <2>1
    <2>5. /\ rest \in Seq(Names) /\ Len(rest) = IF k <= m THEN m - k + 1 ELSE 0
          /\ \A i \in 1 .. m - k + 1 : rest[i] = u[k + i - 1]
      BY ONLY <2>2, <2>3, <2>4, SubSeqProperties
    <2>6. \A i \in 1 .. m - l : k + i - 1 = l + i
      BY <1>9, <2>1
    <2>7. \A i \in 1 .. m - l : rest[i] = u[k + i - 1]
      BY <2>2, <2>5
    <2> QED
      BY <2>2, <2>5, <2>6, <2>7
  <1>13. rest # <<>>
    <2>1. Len(<<>>) = 0
      BY EmptySeq
    <2> QED
      BY ONLY <1>9, <1>11, <2>1
  <1>14. PICK w : w = r \o rest
    OBVIOUS
  <1>15. rest \in Seq(Written)
    BY <1>11 DEF Written
  <1>16. /\ w \in Seq(Written) /\ Len(w) = l + Len(rest)
         /\ \A i \in 1 .. l + Len(rest) : w[i] = IF i <= l THEN r[i] ELSE rest[i - l]
    <2>1. /\ w \in Seq(Written) /\ Len(w) = Len(r) + Len(rest)
          /\ \A i \in 1 .. Len(r) + Len(rest) : w[i] = IF i <= Len(r) THEN r[i] ELSE rest[i - Len(r)]
      <3>1. r \in Seq(Written)
        OBVIOUS
      <3> QED
        BY ONLY <1>14, <1>15, <3>1, ConcatProperties
    <2> QED
      BY ONLY <1>8, <2>1
  <1>17. ASSUME NEW i \in 1 .. m PROVE u[i] = w[i]
    <2>1. i \in 1 .. l + Len(rest)
      BY <1>9, <1>11
    <2>2. CASE i <= l
      <3>1. i \in 1 .. Len(r)
        BY <1>8, <1>9, <2>2
      <3> QED
        BY <1>5, <1>16, <2>1, <2>2, <3>1
    <2>3. CASE ~ (i <= l)
      <3>1. i - l \in 1 .. m - l /\ l + (i - l) = i
        BY <1>9, <2>3
      <3> QED
        BY <1>11, <1>16, <2>1, <2>3, <3>1
    <2> QED
      BY <2>2, <2>3
  <1>18. Len(w) = m
    BY <1>9, <1>11, <1>16
  <1>19. u = w
    BY <1>3, <1>7, <1>16, <1>17, <1>18, SeqEqual
  <1> QED
    BY <1>11, <1>13, <1>14, <1>19 DEF Splits

LEMMA LastOfBoth ==
  ASSUME NEW r \in Seq(Written), NEW rest \in Seq(Names), rest # <<>>
  PROVE  Last(r \o rest) = Last(rest)
  <1>1. PICK w : w = r \o rest
    OBVIOUS
  <1>2. rest \in Seq(Written)
    BY DEF Written
  <1>3. /\ Len(w) = Len(r) + Len(rest)
        /\ \A i \in 1 .. Len(r) + Len(rest) : w[i] = IF i <= Len(r) THEN r[i] ELSE rest[i - Len(r)]
    BY <1>1, <1>2, ConcatProperties
  <1>4. Len(r) \in Nat /\ Len(rest) \in Nat \ {0}
    BY LenProperties, EmptySeq
  <1>5. w[Len(w)] = rest[Len(rest)]
    <2>1. /\ Len(r) + Len(rest) \in 1 .. Len(r) + Len(rest) /\ ~ (Len(r) + Len(rest) <= Len(r))
          /\ Len(r) + Len(rest) - Len(r) = Len(rest)
      BY <1>4
    <2> QED
      BY <1>3, <2>1
  <1> QED
    BY <1>1, <1>5 DEF Last

(* Of the roots above a path, one is the longest.                            *)
LEMMA OwningRootIs ==
  ASSUME NEW root \in RootDirs, NEW below \in Seq(Written)
  PROVE  /\ OwningRoot(root \o below) \in RootDirs /\ IsPrefix(OwningRoot(root \o below), root \o below)
         /\ Len(root) <= Len(OwningRoot(root \o below))
  <1> DEFINE whole == root \o below
             above == {r \in RootDirs : IsPrefix(r, whole)}
             Lengths == {MaxDepth - Len(r) : r \in above}
  <1>1. \A r \in RootDirs : r \in Seq(Written) /\ Len(r) \in Nat /\ MaxDepth - Len(r) \in Nat
    <2> SUFFICES ASSUME NEW r \in RootDirs
                 PROVE  r \in Seq(Written) /\ Len(r) \in Nat /\ MaxDepth - Len(r) \in Nat
      OBVIOUS
    <2>1. r \in Seq(Written) /\ Len(r) + Depth <= MaxDepth /\ Depth \in Nat
      BY PathsAssumption DEF Written
    <2>2. Len(r) \in Nat
      BY <2>1, LenProperties
    <2> QED
      BY <2>1, <2>2 DEF MaxDepth
  <1>2. root \in above
    <2>1. root \in Seq(Written)
      BY <1>1
    <2> HIDE DEF above
    <2>2. IsPrefix(root, whole)
      BY <2>1, PrefixOfBoth
    <2> QED
      BY <2>2 DEF above
  <1>3. Lengths \in SUBSET Nat /\ Lengths # {}
    BY <1>1, <1>2
  <1>4. PICK k \in Lengths : \A j \in Lengths : k <= j
    <2> HIDE DEF Lengths
    <2> QED
      BY <1>3, LeastOf
  <1>5. PICK r \in above : k = MaxDepth - Len(r)
    OBVIOUS
  <1>6. \A s \in above : Len(s) <= Len(r)
    <2> SUFFICES ASSUME NEW s \in above PROVE Len(s) <= Len(r)
      OBVIOUS
    <2>1. k <= MaxDepth - Len(s)
      BY <1>4
    <2>2. Len(s) \in Nat /\ Len(r) \in Nat
      BY <1>1
    <2> QED
      BY <1>5, <2>1, <2>2 DEF MaxDepth
  <1>7. OwningRoot(whole) = CHOOSE x \in above : \A s \in above : Len(s) <= Len(x)
    BY DEF OwningRoot
  <1>8. OwningRoot(whole) \in above /\ \A s \in above : Len(s) <= Len(OwningRoot(whole))
    <2> HIDE DEF above, whole, Lengths
    <2> QED
      BY <1>6, <1>7
  <1> QED
    BY <1>2, <1>8

(* A path below a root is found exactly if it was recorded.                  *)
LEMMA PathsAreFound == PathsInv => RecordedIsFound
  <1> SUFFICES ASSUME PathsInv, ~astray,
                      NEW root \in RootDirs, NEW below \in UNION {[1 .. n -> Names] : n \in 1 .. Depth},
                      root \o below \notin RootDirs
               PROVE  LET row == LookupFile(root \o below)
                          path == Normalised(root) \o below
                          meant == {i \in DOMAIN truth : truth[i] = path}
                      IN  IF meant = {} THEN row = Missing ELSE row \in meant
    BY DEF RecordedIsFound
  <1> DEFINE whole == root \o below
             row == LookupFile(whole)
             path == Normalised(root) \o below
             meant == {i \in DOMAIN truth : truth[i] = path}
  <1>1. below \in Seq(Names) /\ below # <<>>
    <2>1. PICK n \in 1 .. Depth : below \in [1 .. n -> Names]
      OBVIOUS
    <2>2. Depth \in Nat
      BY PathsAssumption
    <2>3. below \in Seq(Names) /\ Len(below) = n
      BY <2>1, <2>2
    <2> QED
      BY <2>1, <2>2, <2>3, EmptySeq
  <1>2. root \in Seq(Written) /\ below \in Seq(Written)
    BY <1>1, PathsAssumption DEF Written
  <1>3. PICK r : r = OwningRoot(whole)
    OBVIOUS
  <1>4. r \in RootDirs /\ IsPrefix(r, whole) /\ Len(root) <= Len(r)
    BY <1>2, <1>3, OwningRootIs
  <1>5. r \in Seq(Written)
    BY <1>4, PathsAssumption DEF Written
  <1>6. PICK rest : rest = SubSeq(whole, Len(r) + 1, Len(whole))
    OBVIOUS
  <1>7. whole = r \o rest /\ rest \in Seq(Names) /\ rest # <<>>
    <2>1. r # whole
      BY <1>4
    <2>2. PICK u : u = whole
      OBVIOUS
    <2>3. PICK l : l = Len(r)
      OBVIOUS
    <2>4. PICK m : m = Len(u)
      OBVIOUS
    <2>5. root \in Seq(Written) /\ below \in Seq(Names) /\ r \in Seq(Written)
      BY <1>1, <1>2, <1>5
    <2>6. u = root \o below /\ IsPrefix(r, u) /\ r # u /\ Len(root) <= Len(r)
      BY <1>4, <2>1, <2>2
    <2>7. rest = SubSeq(u, l + 1, m)
      BY <1>6, <2>2, <2>3, <2>4
    <2>8. Splits(u, r, rest)
      <3>1. Hangs(root, below, r, u, l, m, rest)
        BY ONLY <2>3, <2>4, <2>5, <2>6, <2>7 DEF Hangs
      <3> QED
        BY <3>1, RestIsNames
    <2> QED
      BY <2>2, <2>8 DEF Splits
  <1>8. PICK a : a = Normalised(r)
    OBVIOUS
  <1>9. a \in Seq(Names) /\ path = a \o rest /\ path \in Seq(Names)
    <2>1. Normalised(whole) = Normalised(root) \o below
      BY <1>1, <1>2, NormalisedBelow
    <2>2. Normalised(r \o rest) = a \o rest
      BY <1>5, <1>7, <1>8, NormalisedBelow
    <2>3. a \in Seq(Names)
      BY <1>5, <1>8, NormalisedIs
    <2> QED
      BY <1>7, <2>1, <2>2, <2>3, ConcatProperties
  <1>10. /\ Front(rest) \in Seq(Names) /\ Last(rest) \in Names
         /\ a \o rest = Append(a \o Front(rest), Last(rest)) /\ a \o Front(rest) \in Seq(Names)
    BY <1>7, <1>9, FrontAndLast
  <1>11. Last(whole) = Last(rest)
    BY <1>5, <1>7, LastOfBoth
  <1>12. row = RowOf(Reached(a \o Front(rest)), Last(rest))
    BY <1>3, <1>6, <1>7, <1>8, <1>11 DEF LookupFile, LookupParent
  <1>13. Reached(a \o Front(rest)) \in RowsAt(truth, a \o Front(rest))
    BY <1>10, ReachedIs
  <1> HIDE DEF row, path, whole
  <1>14. row \in RowsAt(truth, path)
    BY <1>9, <1>10, <1>12, <1>13, RowOfNext
  <1>15. path # <<>>
    BY <1>9, <1>10, AppendProperties
  <1>16. truth \in Seq(Seq(Names)) /\ DOMAIN truth = 1 .. Len(truth)
    BY LenProperties DEF PathsInv, TablesOK
  <1>17. IF meant = {} THEN row = Missing ELSE row \in meant
    <2>1. CASE meant = {}
      <3>1. ~ \E i \in 1 .. Len(truth) : truth[i] = path
        BY <1>16, <2>1
      <3>2. RowsAt(truth, path) = {Missing}
        BY <1>15, <3>1, RowsBelow
      <3> QED
        BY <1>14, <2>1, <3>2
    <2>2. CASE meant # {}
      <3>1. \E i \in 1 .. Len(truth) : truth[i] = path
        BY <1>16, <2>2
      <3>2. RowsAt(truth, path) = {i \in 1 .. Len(truth) : truth[i] = path}
        BY <1>15, <3>1, RowsBelow
      <3> QED
        BY <1>14, <1>16, <2>2, <3>2
    <2> QED
      BY <2>1, <2>2
  <1> QED
    BY <1>17 DEF row, path, whole

(* The way up from a row, one more row at a time.                            *)
UpSteps ==
  LET up[d \in 0 .. MaxDepth] ==
        IF d = 0 THEN [i \in 0 .. Len(files) |-> <<>>] ELSE OneUp(up[d - 1])
  IN up

LEMMA RowsUp ==
  ASSUME PathsInv, NEW i \in 1 .. Len(files)
  PROVE  /\ files[i].parent \in 0 .. Len(files) /\ components[files[i].component] \in Names
         /\ PathTo(truth, files[i].parent) \in Seq(Names)
         /\ ~astray => PathTo(truth, i) = Append(PathTo(truth, files[i].parent), components[files[i].component])
                       /\ Len(PathTo(truth, i)) = Len(PathTo(truth, files[i].parent)) + 1
                       /\ Len(PathTo(truth, i)) <= MaxDepth
  <1>1. /\ TablesOK(components, files, truth) /\ (~astray => TruthOK(components, files, truth))
        /\ components \in Seq(Names) /\ truth \in Seq(Seq(Names)) /\ Len(truth) = Len(files)
        /\ Len(files) \in Nat
    BY LenProperties DEF PathsInv, TablesOK
  <1>2. files[i].parent \in 0 .. i - 1 /\ files[i].component \in 1 .. Len(components)
    BY <1>1 DEF TablesOK
  <1>3. files[i].parent \in 0 .. Len(files)
    BY <1>1, <1>2
  <1>4. components[files[i].component] \in Names
    BY <1>1, <1>2, LenProperties
  <1>5. PathTo(truth, files[i].parent) \in Seq(Names)
    BY <1>1, <1>3, PathToIs
  <1>6. ASSUME ~astray
        PROVE  /\ PathTo(truth, i) = Append(PathTo(truth, files[i].parent), components[files[i].component])
               /\ Len(PathTo(truth, i)) = Len(PathTo(truth, files[i].parent)) + 1
               /\ Len(PathTo(truth, i)) <= MaxDepth
    <2>1. PathTo(truth, i) = truth[i]
      BY DEF PathTo
    <2>2. truth[i] = Append(PathTo(truth, files[i].parent), components[files[i].component])
          /\ Len(truth[i]) <= MaxDepth
      BY <1>1, <1>6 DEF TruthOK
    <2> QED
      BY <1>4, <1>5, <2>1, <2>2, AppendProperties
  <1> QED
    BY <1>3, <1>4, <1>5, <1>6

(* As far as a row is deep, that is the path of the row.                      *)
UpTo(d) ==
  {y \in [0 .. Len(files) -> Seq(Names)] :
     ~astray => \A i \in 0 .. Len(files) : Len(PathTo(truth, i)) <= d => y[i] = PathTo(truth, i)}

LEMMA OneUpIs ==
  ASSUME PathsInv, NEW d \in Nat, NEW y \in UpTo(d)
  PROVE  OneUp(y) \in UpTo(d + 1)
  <1> DEFINE n == Len(files)
  <1>1. n \in Nat /\ y \in [0 .. n -> Seq(Names)]
    BY LenProperties DEF PathsInv, TablesOK, UpTo
  <1>2. PICK u : u = OneUp(y)
    OBVIOUS
  <1>3. u = [i \in 0 .. n |-> IF i = 0 THEN <<>> ELSE Append(y[files[i].parent], components[files[i].component])]
    BY <1>2 DEF OneUp
  <1>4. u[0] = <<>> /\ <<>> \in Seq(Names)
    BY <1>1, <1>3, EmptySeq
  <1>5. ASSUME NEW i \in 1 .. n
        PROVE  /\ u[i] = Append(y[files[i].parent], components[files[i].component])
               /\ u[i] \in Seq(Names)
    <2>1. u[i] = Append(y[files[i].parent], components[files[i].component])
      BY <1>1, <1>3
    <2>2. files[i].parent \in 0 .. n /\ components[files[i].component] \in Names
      BY RowsUp
    <2>3. y[files[i].parent] \in Seq(Names)
      BY <1>1, <2>2
    <2> QED
      BY <2>1, <2>2, <2>3, AppendProperties
  <1>6. \A i \in 0 .. n : i = 0 \/ i \in 1 .. n
    BY <1>1
  <1>7. u \in [0 .. n -> Seq(Names)]
    <2>1. \A i \in 0 .. n : u[i] \in Seq(Names)
      BY <1>4, <1>5, <1>6
    <2>2. u = [i \in 0 .. n |-> u[i]]
      BY <1>3
    <2> QED
      BY <2>1, <2>2
  <1>8. ASSUME ~astray, NEW i \in 0 .. n, Len(PathTo(truth, i)) <= d + 1
        PROVE  u[i] = PathTo(truth, i)
    <2>1. CASE i = 0
      BY <1>4, <2>1 DEF PathTo
    <2>2. CASE i \in 1 .. n
      <3> DEFINE p == files[i].parent
      <3>1. /\ p \in 0 .. n /\ PathTo(truth, p) \in Seq(Names)
            /\ PathTo(truth, i) = Append(PathTo(truth, p), components[files[i].component])
            /\ Len(PathTo(truth, i)) = Len(PathTo(truth, p)) + 1
        BY <1>8, <2>2, RowsUp
      <3>2. Len(PathTo(truth, p)) \in Nat
        BY <3>1, LenProperties
      <3>3. Len(PathTo(truth, p)) <= d
        BY <1>8, <3>1, <3>2
      <3>4. y[p] = PathTo(truth, p)
        BY <1>8, <3>1, <3>3 DEF UpTo
      <3> QED
        BY <1>5, <2>2, <3>1, <3>4
    <2> QED
      BY <1>6, <2>1, <2>2
  <1> QED
    BY <1>2, <1>7, <1>8 DEF UpTo

LEMMA UpIsThePath ==
  ASSUME PathsInv
  PROVE  \A d \in 0 .. MaxDepth : UpSteps[d] \in UpTo(d)
  <1> DEFINE n == Len(files)
             Paths == [0 .. n -> Seq(Names)]
             none == [i \in 0 .. n |-> <<>>]
             X == [d \in 0 .. MaxDepth |-> UpTo(d)]
             F == [p \in Paths \X (1 .. MaxDepth) |-> OneUp(p[1])]
             P(g) == g = [d \in 0 .. MaxDepth |-> IF d = 0 THEN none ELSE OneUp(g[d - 1])]
  <1>1. n \in Nat /\ MaxDepth \in Nat /\ truth \in Seq(Seq(Names)) /\ Len(truth) = n
    BY LenProperties DEF PathsInv, TablesOK, MaxDepth
  <1>2. none \in UpTo(0)
    <2>1. <<>> \in Seq(Names)
      BY EmptySeq
    <2>2. none \in Paths
      BY <2>1
    <2>3. ASSUME NEW i \in 0 .. n, Len(PathTo(truth, i)) <= 0 PROVE none[i] = PathTo(truth, i)
      <3>1. PathTo(truth, i) \in Seq(Names)
        BY <1>1, PathToIs
      <3>2. PathTo(truth, i) = <<>>
        BY <2>3, <3>1, EmptySeq, LenProperties
      <3> QED
        BY <3>2
    <2> HIDE DEF none
    <2> QED
      BY <2>2, <2>3 DEF UpTo
  <1>3. none \in X[0]
    <2> HIDE DEF none
    <2> QED
      BY <1>1, <1>2
  <1>4. ASSUME NEW d \in 1 .. MaxDepth, NEW y \in X[d - 1]
        PROVE  OneUp(y) \in X[d] /\ y \in Paths
    <2>1. d - 1 \in 0 .. MaxDepth /\ d \in 0 .. MaxDepth /\ d - 1 \in Nat /\ d - 1 + 1 = d
      BY <1>1
    <2>2. y \in UpTo(d - 1)
      BY <2>1
    <2>3. OneUp(y) \in UpTo(d)
      BY <2>1, <2>2, OneUpIs
    <2> QED
      BY <2>1, <2>2, <2>3 DEF UpTo
  <1>5. \A d \in 1 .. MaxDepth : \A y \in X[d - 1] :
          F[<<y, d>>] = OneUp(y) /\ F[<<y, d>>] \in X[d]
    <2> HIDE DEF X, Paths
    <2> QED
      BY <1>4
  <1>6. PICK f : Iterates(f, MaxDepth, none, F) /\ \A d \in 0 .. MaxDepth : f[d] \in X[d]
    <2> HIDE DEF X, F, none
    <2>1. \A d \in 1 .. MaxDepth : \A y \in X[d - 1] : F[<<y, d>>] \in X[d]
      BY <1>5
    <2> QED
      BY <1>1, <1>3, <2>1, StepsLead
  <1>7. P(f)
    <2> HIDE DEF X, F, none
    <2>1. \A d \in 0 .. MaxDepth : f[d] = IF d = 0 THEN none ELSE OneUp(f[d - 1])
      <3> SUFFICES ASSUME NEW d \in 0 .. MaxDepth, d # 0
                   PROVE  F[<<f[d - 1], d>>] = OneUp(f[d - 1])
        BY <1>6 DEF Iterates
      <3>1. d \in 1 .. MaxDepth /\ d - 1 \in 0 .. MaxDepth
        BY <1>1
      <3> QED
        BY <1>5, <1>6, <3>1
    <2>2. f = [d \in 0 .. MaxDepth |-> f[d]]
      BY <1>6 DEF Iterates
    <2> QED
      BY <2>1, <2>2
  <1>8. P(UpSteps)
    <2>1. UpSteps = CHOOSE g : P(g)
      BY DEF UpSteps
    <2> HIDE DEF P
    <2> QED
      BY <1>7, <2>1
  <1> DEFINE g == UpSteps
  <1>9. g = [d \in 0 .. MaxDepth |-> IF d = 0 THEN none ELSE OneUp(g[d - 1])]
    BY <1>8
  <1>10. \A d \in 0 .. MaxDepth : g[d] \in X[d]
    <2> HIDE DEF X, F, none, P, g
    <2>1. g[0] \in X[0]
      BY <1>1, <1>3, <1>9
    <2>2. \A d \in 1 .. MaxDepth : g[d - 1] \in X[d - 1] => g[d] \in X[d]
      <3> SUFFICES ASSUME NEW d \in 1 .. MaxDepth, g[d - 1] \in X[d - 1] PROVE g[d] \in X[d]
        OBVIOUS
      <3>1. d \in 0 .. MaxDepth /\ d # 0
        BY <1>1
      <3>2. g[d] = OneUp(g[d - 1])
        BY <1>9, <3>1
      <3> QED
        BY <1>4, <3>2
    <2> QED
      BY <1>1, <2>1, <2>2, StepsStay
  <1> HIDE DEF g
  <1> QED
    BY <1>10 DEF g

(* Every row leads back to the path it was recorded for.                     *)
LEMMA PathsLeadBack == PathsInv => PathsResolve
  <1> SUFFICES ASSUME PathsInv, ~astray, NEW i \in DOMAIN files
               PROVE  /\ Entry(i).path = truth[i]
                      /\ Entry(i).previous_path = truth[i]
    BY DEF PathsResolve
  <1>1. /\ i \in 1 .. Len(files) /\ Len(files) \in Nat
        /\ DOMAIN components = 1 .. Len(components) /\ files[i].component \in 1 .. Len(components)
    BY LenProperties DEF PathsInv, TablesOK
  <1>2. /\ files[i].parent \in 0 .. Len(files) /\ PathTo(truth, i) = truth[i] /\ i \in 0 .. Len(files)
        /\ PathTo(truth, i) = Append(PathTo(truth, files[i].parent), components[files[i].component])
        /\ Len(PathTo(truth, i)) <= MaxDepth
        /\ Len(PathTo(truth, i)) = Len(PathTo(truth, files[i].parent)) + 1
        /\ PathTo(truth, files[i].parent) \in Seq(Names)
    <2>1. PathTo(truth, i) = truth[i] /\ i \in 0 .. Len(files)
      BY <1>1 DEF PathTo
    <2>2. i \in 1 .. Len(files)
      BY <1>1
    <2> QED
      BY <2>1, <2>2, RowsUp
  <1>3. Len(PathTo(truth, files[i].parent)) <= MaxDepth
    BY <1>2, LenProperties DEF MaxDepth
  <1>4. \A k \in 0 .. Len(files) : Len(PathTo(truth, k)) <= MaxDepth => ResolvePath(k) = PathTo(truth, k)
    <2>1. MaxDepth \in 0 .. MaxDepth
      BY DEF MaxDepth
    <2>2. UpSteps[MaxDepth] \in UpTo(MaxDepth)
      BY <2>1, UpIsThePath
    <2>3. \A k : ResolvePath(k) = UpSteps[MaxDepth][k]
      BY DEF ResolvePath, UpSteps
    <2> QED
      BY <2>2, <2>3 DEF UpTo
  <1>5. ResolvePath(i) = truth[i] /\ ResolvePath(files[i].parent) = PathTo(truth, files[i].parent)
    BY <1>2, <1>3, <1>4
  <1>6. PreviousPath(files[i].parent, files[i].component) = truth[i]
    BY <1>1, <1>2, <1>5 DEF PreviousPath
  <1> QED
    BY <1>5, <1>6 DEF Entry

LEMMA PathsShow == PathsInv => PathsSound
  <1> SUFFICES ASSUME PathsInv PROVE PathsSound
    OBVIOUS
  <1>1. PathsTypeOK
    <2>1. /\ components \in Seq(Names) /\ DOMAIN files = 1 .. Len(files) /\ DOMAIN truth = 1 .. Len(truth)
          /\ Len(truth) = Len(files) /\ files \in Seq(Row)
      BY LenProperties DEF PathsInv, TablesOK
    <2>2. ASSUME NEW i \in DOMAIN files
          PROVE  /\ files[i].parent \in 0 .. Len(files) /\ files[i].component \in 1 .. Len(components)
                 /\ files[i].dir \in BOOLEAN
      <3>1. i \in 1 .. Len(files)
        BY <2>1
      <3>2. files[i].parent \in 0 .. Len(files)
        BY <3>1, RowsUp
      <3>3. files[i].component \in 1 .. Len(components)
        BY <3>1 DEF PathsInv, TablesOK
      <3>4. files[i] \in Row
        BY <2>1, <3>1, LenProperties
      <3> QED
        BY <3>2, <3>3, <3>4 DEF Row
    <2>3. DOMAIN cache \subseteq Names
      <3>1. PICK S \in SUBSET Names : cache \in [S -> Nat]
        BY DEF PathsInv, CacheFits, Caches
      <3> QED
        BY <3>1
    <2>4. records \in 0 .. MaxRecords /\ rollbacks \in 0 .. MaxRollbacks
      BY DEF PathsInv
    <2> QED
      BY <2>1, <2>2, <2>3, <2>4 DEF PathsTypeOK
  <1>2. PathsResolve /\ RecordedIsFound
    BY PathsLeadBack, PathsAreFound
  <1>3. OneRowPerPath
    <2> SUFFICES ASSUME ~astray
                 PROVE  IsInjective(truth) /\ \A n \in DOMAIN cache : components[cache[n]] = n
      BY DEF OneRowPerPath
    <2>1. /\ TablesOK(components, files, truth) /\ TruthOK(components, files, truth)
          /\ CacheOK(components, cache)
          /\ DOMAIN truth = 1 .. Len(files)
      BY LenProperties DEF PathsInv, TablesOK
    <2>2. IsInjective(truth)
      BY <2>1, TruthInjective DEF IsInjective
    <2> QED
      BY <2>1, <2>2 DEF CacheOK
  <1>4. CacheBounded
    BY DEF PathsInv, CacheFits, CacheBounded
  <1> QED
    BY <1>1, <1>2, <1>3, <1>4 DEF PathsSound

(* Interning names costs no path: every row leads back to the path it was       *)
(* recorded for, and a change under any of the roots finds the row, however     *)
(* many transactions were rolled back and whatever the cache holds, as long as  *)
(* no rollback left it ids that are gone.                                    *)
THEOREM PathsAreSound == PathsSpec => []PathsSound
  <1>1. PathsInit => PathsInv
    BY PathsInitial
  <1>2. PathsInv /\ [PathsNext]_pathsVars => PathsInv'
    BY PathsStep
  <1>3. PathsInv => PathsSound
    BY PathsShow
  <1> QED
    BY <1>1, <1>2, <1>3, PTL DEF PathsSpec
=============================================================================
