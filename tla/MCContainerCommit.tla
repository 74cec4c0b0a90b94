------------------------- MODULE MCContainerCommit -------------------------
(***************************************************************************)
(* ContainerCommit for TLC; every constant is given by the configurations. *)
(***************************************************************************)
EXTENDS ContainerCommit
============================================================================
