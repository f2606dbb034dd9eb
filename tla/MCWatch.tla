------------------------------ MODULE MCWatch ------------------------------
(***************************************************************************)
(* Watch on small instances.                                               *)
(***************************************************************************)
EXTENDS Watch, TLC
=============================================================================
