----------------------------- MODULE MCRoleNames -----------------------------
(***************************************************************************)
(* All ARNs and subpaths of a few characters: two letters tell a name from *)
(* another one, slash and colon are what the code looks for.               *)
(***************************************************************************)
EXTENDS RoleNames

CONSTANTS x, y
=============================================================================
