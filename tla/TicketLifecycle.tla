---------------------------- MODULE TicketLifecycle ----------------------------
(***************************************************************************)
(* What the gateway promises of a ticket, without replicas, waiters,       *)
(* claims or leases: it gets one verdict, it is run at most once and only  *)
(* after an approval, and once it is closed by a result it is never run.   *)
(***************************************************************************)
EXTENDS Naturals

CONSTANT Tickets

VARIABLES
    verdict,    \* verdict[t]: none (not filed), pending, approved, rejected or timeout
    runs,       \* runs[t]: how many times the upstream got the call
    closed      \* the tickets with a result

vars == <<verdict, runs, closed>>

Init ==
    /\ verdict = [t \in Tickets |-> "none"]
    /\ runs = [t \in Tickets |-> 0]
    /\ closed = {}

File(t) ==
    /\ verdict[t] = "none"
    /\ verdict' = [verdict EXCEPT ![t] = "pending"]
    /\ UNCHANGED <<runs, closed>>

Settle(t) ==
    /\ verdict[t] = "pending"
    /\ \E v \in {"approved", "rejected", "timeout"} : verdict' = [verdict EXCEPT ![t] = v]
    /\ UNCHANGED <<runs, closed>>

\* An execution whose result is lost leaves the ticket open until it is closed
\* as interrupted.
Run(t) ==
    /\ verdict[t] = "approved"
    /\ runs[t] = 0
    /\ t \notin closed
    /\ runs' = [runs EXCEPT ![t] = 1]
    /\ UNCHANGED <<verdict, closed>>

Close(t) ==
    /\ verdict[t] = "approved"
    /\ t \notin closed
    /\ closed' = closed \cup {t}
    /\ UNCHANGED <<verdict, runs>>

Next == \E t \in Tickets : File(t) \/ Settle(t) \/ Run(t) \/ Close(t)

Spec == Init /\ [][Next]_vars
================================================================================
