------------------------------ MODULE MCMcpEdge ------------------------------
(* Three requests of one agent and one of another for TLC. *)
EXTENDS McpEdge, TLC

CONSTANTS a1, a2, r1, r2, r3, r4

MCAgentOf == (r1 :> a1) @@ (r2 :> a1) @@ (r3 :> a1) @@ (r4 :> a2)
================================================================================
