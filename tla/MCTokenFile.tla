----------------------------- MODULE MCTokenFile ----------------------------
(***************************************************************************)
(* TokenFile with every query.                                             *)
(***************************************************************************)
EXTENDS TokenFile
=============================================================================
