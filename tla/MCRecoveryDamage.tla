-------------------------- MODULE MCRecoveryDamage --------------------------
(***************************************************************************)
(* RecoveryDamage for TLC; every constant is given by the configurations.  *)
(***************************************************************************)
EXTENDS RecoveryDamage
============================================================================
