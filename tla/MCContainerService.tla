------------------------- MODULE MCContainerService -------------------------
(***************************************************************************)
(* Small instances of ContainerService for TLC.                            *)
(***************************************************************************)
EXTENDS RoleCacheRefinement, TLC

CONSTANTS
    h1, h2,        \* goroutines
    c1, c2, c3, c4,    \* containers
    a1, a2,        \* addresses
    r1, r2,        \* roles
    bad, empty     \* other values of IAM_ROLE

\* An empty entry before two roles, an ill-formed role before a role, none, one.
EnvMixed == (c1 :> <<empty, r1, r2>>) @@ (c2 :> <<bad, r1>>) @@ (c3 :> <<>>) @@ (c4 :> <<r2>>)

\* Goroutines and addresses are interchangeable.
Symmetry == Permutations(Handlers) \cup Permutations(IPs)
=============================================================================
