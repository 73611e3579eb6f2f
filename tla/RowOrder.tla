------------------------------ MODULE RowOrder ------------------------------
(***************************************************************************)
(* ORDER BY and LIMIT of a statement that reads rows, by their ids.          *)
(***************************************************************************)
EXTENDS Integers, Sequences, FiniteSets, FiniteSetsExt

(* The n-th row is the one that n - 1 others come before. (SetToSortSeq says  *)
(* the same, over an operator of the tools that a proof cannot expand.)       *)
InOrder(ids, Before(_, _)) ==
  [n \in 1 .. Cardinality(ids) |->
    CHOOSE i \in ids : Cardinality({j \in ids : Before(j, i)}) = n - 1]

NewestFirst(ids) == InOrder(ids, >)

FirstRows(rows, limit) == SubSeq(rows, 1, Min({Len(rows), limit}))
=============================================================================
