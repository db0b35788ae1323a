---------------------------- MODULE MCMcpUpstreams ----------------------------
(* What is called and in which order it is listed, for TLC.                  *)
EXTENDS McpUpstreams, TLC

CONSTANTS u1, u2, c1, c2, l1, l2

BothTargets == <<u1, u2>>

\* All callers share the session of the first upstream.
FirstTarget == [c \in Callers |-> u1]
================================================================================
