---------------------------- MODULE MCManifest ----------------------------
(***************************************************************************)
(* Manifest on small instances.                                            *)
(***************************************************************************)
EXTENDS Manifest, TLC

\* No property tells two operation ids apart.
Symmetry == Permutations(Uuid)
=============================================================================
