--------------------------- MODULE MCAsyncLogger ---------------------------
(***************************************************************************)
(* Small instances of AsyncLogger for TLC.                                 *)
(***************************************************************************)
EXTENDS AsyncLogger, TLC

CONSTANTS u1, u2, default, second

\* An asynchronous logger with every step a consumer can take (a loop's is one without
\* pauses, a timer's one with equal ones), and a synchronous one.
MixedKind == default :> "adaptive" @@ second :> "sync"

\* The proxy's two loggers.
LoopKind == default :> "loop" @@ second :> "loop"
=============================================================================
