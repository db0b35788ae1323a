------------------------------- MODULE MCGateway -------------------------------
(* Instances of Gateway for TLC: the placement of tasks on replicas.        *)
EXTENDS GatewayProperties, TLC

CONSTANTS c1, c2, x1, x2, o1, o2, r1, r2, a1, a2

\* The waiters, one resume and one operator on r1, the others on r2.
Spread == [x \in Tasks |-> IF x \in {x2, o2} THEN r2 ELSE r1]

\* The verdicts land on the replica the waiters are not on.
Apart == [x \in Tasks |-> IF x \in Operators \cup {x2} THEN r2 ELSE r1]

\* One replica, as with the in-memory signal's own guarantee.
Together == [x \in Tasks |-> r1]

\* Arguments are compared only for equality.
ArgsSymmetry == Permutations(Args)
================================================================================
