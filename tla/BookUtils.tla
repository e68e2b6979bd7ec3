----------------------------- MODULE BookUtils ------------------------------
(***************************************************************************)
(* What the modules of the book engine share: one step of a sort, and      *)
(* sums.  Loops are recursive functions of the number of rounds done.      *)
(***************************************************************************)
EXTENDS Integers, Sequences, SequencesExt

\* The inner loop of insertion_sort: from the end of the sorted part, the
\* elements that belong behind the key move one place.
InsertKey(sorted, key, behind) ==
  InsertAt(sorted, 1 + Max({0} \cup (DOMAIN sorted \ behind)), key)

\* std::map::insert: a key that is in the map keeps the value it has.
MapInsert(map, key, value) ==
  [k \in DOMAIN map \cup {key} |-> IF k \in DOMAIN map THEN map[k] ELSE value]

\* f[1] + ... + f[n]
SumTo(f, n) ==
  LET upTo[k \in 0..n] == IF k = 0 THEN 0 ELSE upTo[k - 1] + f[k]
  IN  upTo[n]

=============================================================================
