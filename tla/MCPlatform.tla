----------------------------- MODULE MCPlatform ------------------------------
(* A small instance of Platform: a workspace of a high tier with more jobs *)
(* than a tick fetches, and one of a low tier.                             *)
EXTENDS Platform, TLC

CONSTANTS high, low, j1, j2, j3, j4

SmallJobs == (high :> {j1, j2, j3}) @@ (low :> {j4})
SmallTiers == (high :> 1) @@ (low :> 0)
==============================================================================
