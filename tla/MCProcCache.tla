---------------------------- MODULE MCProcCache -----------------------------
(* A small instance of ProcCache for TLC: two requests that overlap.          *)
EXTENDS ProcCache, TLC

CONSTANTS r1, r2, p

MCRequests == {r1, r2}
MCPids     == {p}
Symmetry   == Permutations(MCRequests)
=============================================================================
