------------------------- MODULE MCMetadataHandler -------------------------
(***************************************************************************)
(* Small instances of MetadataHandler for TLC.                             *)
(***************************************************************************)
EXTENDS MetadataHandler, TLC

CONSTANTS h1, h2, a1, a2, c1, c2, r1, r2

\* One container may have a role, the other is refused one.
VerdictMixed == (c1 :> r1) @@ (c2 :> "noRole")

Statuses == {200, 404}

NeverTime == -2
=============================================================================
