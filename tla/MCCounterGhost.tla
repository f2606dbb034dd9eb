--------------------------- MODULE MCCounterGhost ---------------------------
(***************************************************************************)
(* CounterGhost on small instances.                                        *)
(***************************************************************************)
EXTENDS CounterGhost, TLC

\* Operation ids and nodes are interchangeable.
Symmetry == Permutations(Uuid) \cup Permutations(Nodes)
=============================================================================
