------------------------------ MODULE Changes -------------------------------
(* What the watch decided happened (dafs-scan watch.rs, `Change`).          *)
EXTENDS Naturals, Sequences

CONSTANTS
  Names,     (* the file names of the directory                            *)
  None       (* no name                                                    *)

ASSUME ChangesAssumption == None \notin Names

Touched(n) == [kind |-> "touched", from |-> n, to |-> n]
Removed(n) == [kind |-> "removed", from |-> n, to |-> n]
Renamed(n, m) == [kind |-> "renamed", from |-> n, to |-> m]
Overflowed == [kind |-> "overflowed", from |-> None, to |-> None]

FileChange ==
  {Touched(n) : n \in Names} \cup {Removed(n) : n \in Names}
    \cup UNION {{Renamed(n, m) : m \in Names \ {n}} : n \in Names}

Change == FileChange \cup {Overflowed}

(* The names a change is about, and those a sequence of them is about.      *)
NamesOf(c) == {c.from, c.to} \cap Names

Mentioned(s) == UNION {NamesOf(s[i]) : i \in DOMAIN s}
=============================================================================
