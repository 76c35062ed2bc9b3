--------------------------- MODULE MCInstanceAuth ---------------------------
(***************************************************************************)
(* Small instances of InstanceAuth for TLC.                                *)
(***************************************************************************)
EXTENDS InstanceAuth
=============================================================================
