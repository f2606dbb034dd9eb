-------------------------- MODULE MCKafkaPipeline --------------------------
(***************************************************************************)
(* KafkaPipeline on small instances.                                       *)
(***************************************************************************)
EXTENDS KafkaPipeline
=============================================================================
