---------------------------- MODULE MCVaultQuery ----------------------------
(***************************************************************************)
(* VaultQuery with every query against every engine.                       *)
(***************************************************************************)
EXTENDS VaultQuery
=============================================================================
