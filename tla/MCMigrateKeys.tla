---------------------------- MODULE MCMigrateKeys ----------------------------
(***************************************************************************)
(* Instances of MigrateKeys for TLC.                                       *)
(***************************************************************************)
EXTENDS MigrateKeysProps
=============================================================================
