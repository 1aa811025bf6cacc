---------------------------- MODULE Ascending ----------------------------
(***************************************************************************)
(* Sequences that keep some of the elements of another one, in its order:  *)
(* what "for x in rows: if ..." and "filter" make of a list of rows.       *)
(***************************************************************************)
EXTENDS Integers, Sequences, FiniteSets

\* The members of a finite set of numbers in ascending order
Ascending(S) ==
  CHOOSE f \in [1..Cardinality(S) -> S] : \A j, k \in DOMAIN f : j < k => f[j] < f[k]
=============================================================================
