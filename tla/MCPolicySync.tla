----------------------------- MODULE MCPolicySync -----------------------------
(* Who asks which replica, for TLC.                                          *)
EXTENDS PolicySync, TLC

CONSTANTS r1, r2, a1, a2, o1, p1, p2

\* Published and read on the first replica, read and watched on the second.
PublishedOnFirst ==
    (p1 :> r1) @@ (p2 :> r1) @@ (a1 :> r1) @@ (a2 :> r2) @@ (o1 :> r2)
================================================================================
