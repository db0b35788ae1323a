----------------------------- MODULE RateLimiter -----------------------------
(***************************************************************************)
(* WindowRateLimiter: one process counts the calls of each agent in the    *)
(* current clock minute.  admit_call does not await, so it is one step.    *)
(* With a limit of 0 or less it does nothing, which is left out.  The      *)
(* clock of a machine may jump ahead, it is not turned back here.          *)
(***************************************************************************)
EXTENDS Integers

CONSTANTS
    Agents,         \* identities of agents
    Limit,          \* calls_per_minute
    MaxMinute,      \* bound on the clock
    MaxCount        \* bound on the calls counted for an agent in one window

ASSUME LimitIsSet == Limit \in Nat \ {0}
ASSUME BoundsAreNumbers == MaxMinute \in Nat /\ MaxCount \in Nat

VARIABLES
    now,            \* int(clock() // 60)
    window, counts, \* as in the code
    admitted        \* how many calls of an agent were admitted in a minute

limiterVars == <<now, window, counts, admitted>>

Minutes == 0..MaxMinute

LimiterInit ==
    /\ now = 0
    /\ window = -1
    /\ counts = [a \in Agents |-> 0]
    /\ admitted = [a \in Agents |-> [m \in Minutes |-> 0]]

Tick == \E m \in Minutes : m > now /\ now' = m /\ UNCHANGED <<window, counts, admitted>>

\* A call counts, refused or not; a new minute starts from nothing.
Counted(a) ==
    LET kept == IF window = now THEN counts ELSE [b \in Agents |-> 0]
    IN [kept EXCEPT ![a] = @ + 1]

\* FAULTY: the call that is asking is not counted yet.
AdmitsBeforeCounting(a) == window # now \/ counts[a] <= Limit

Admits(a) == Counted(a)[a] <= Limit

Ask(a) ==
    /\ Counted(a)[a] <= MaxCount
    /\ window' = now
    /\ counts' = Counted(a)
    /\ admitted' = IF Admits(a) THEN [admitted EXCEPT ![a][now] = @ + 1] ELSE admitted
    /\ UNCHANGED now

LimiterNext == Tick \/ \E a \in Agents : Ask(a)

LimiterSpec == LimiterInit /\ [][LimiterNext]_limiterVars

LimiterTypeOK ==
    /\ now \in Minutes
    /\ window \in Minutes \cup {-1} /\ window <= now
    /\ counts \in [Agents -> Nat]
    /\ admitted \in [Agents -> [Minutes -> Nat]]

\* Whatever the agents ask and in whatever order, across the minutes in which
\* nobody asks, no agent is admitted more often than the limit in one clock
\* minute (WindowRateLimiter, "at most calls_per_minute per agent in each clock
\* minute").
WithinBudget == \A a \in Agents, m \in Minutes : admitted[a][m] <= Limit

\* What keeps it so: the count of the window covers what was admitted in it,
\* and nothing was admitted in a minute after the window.
CountsCover ==
    \A a \in Agents, m \in Minutes :
        /\ m = window => admitted[a][m] <= counts[a]
        /\ m > window => admitted[a][m] = 0
================================================================================
