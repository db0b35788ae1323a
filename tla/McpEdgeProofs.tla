---------------------------- MODULE McpEdgeProofs ----------------------------
(***************************************************************************)
(* The budget of the limiter holds for every limit, set of agents and      *)
(* order of calls.  The edge uses the limiter as its module says, so the   *)
(* budget holds of what the edge handles; and the future, the task and the *)
(* manager stay together, for any number of requests and cancellations,    *)
(* and tell why a request broke.                                           *)
(***************************************************************************)
EXTENDS McpEdge, TLAPS

\* WithinBudget is not inductive: an admission is compared with the count of
\* the window, so what was admitted must be covered by that count, and a new
\* window must find nothing admitted in its minute.
BudgetInv == LimiterTypeOK /\ CountsCover /\ WithinBudget

\* No step of the limiter or of its clock breaks the budget.
THEOREM BudgetInvariant == LimiterSpec => []BudgetInv
<1> USE LimitIsSet, BoundsAreNumbers DEF Minutes
<1>1. LimiterInit => BudgetInv
  BY DEF LimiterInit, BudgetInv, LimiterTypeOK, CountsCover, WithinBudget
<1>2. BudgetInv /\ [LimiterNext]_limiterVars => BudgetInv'
  <2> SUFFICES ASSUME BudgetInv, [LimiterNext]_limiterVars PROVE BudgetInv'
    OBVIOUS
  <2> USE DEF BudgetInv
  <2>1. CASE Tick
    BY <2>1 DEF Tick, LimiterTypeOK, CountsCover, WithinBudget
  <2>2. ASSUME NEW a \in Agents, Ask(a) PROVE BudgetInv'
    <3> DEFINE kept == IF window = now THEN counts ELSE [b \in Agents |-> 0]
    <3>1. /\ now \in Minutes /\ window \in Minutes \cup {-1} /\ window <= now
          /\ counts \in [Agents -> Nat] /\ admitted \in [Agents -> [Minutes -> Nat]]
      BY DEF LimiterTypeOK
    <3>2. kept \in [Agents -> Nat]
      BY <3>1
    <3>3. \A b \in Agents : admitted[b][now] <= kept[b]
      BY <3>1 DEF CountsCover
    <3>4. /\ counts' = [kept EXCEPT ![a] = @ + 1] /\ window' = now /\ now' = now
          /\ admitted' = IF counts'[a] <= Limit THEN [admitted EXCEPT ![a][now] = @ + 1] ELSE admitted
      BY <2>2 DEF Ask, Admits, Counted
    <3> HIDE DEF kept
    <3>5. counts' \in [Agents -> Nat] /\ counts'[a] = kept[a] + 1
      BY <3>2, <3>4
    <3>6. admitted' \in [Agents -> [Minutes -> Nat]]
      BY <3>1, <3>4
    <3>7. LimiterTypeOK'
      BY <3>1, <3>4, <3>5, <3>6 DEF LimiterTypeOK
    <3>8. ASSUME NEW b \in Agents, NEW m \in Minutes
          PROVE  /\ m = now => admitted'[b][m] <= counts'[b]
                 /\ m > now => admitted'[b][m] = 0
                 /\ admitted'[b][m] <= Limit
      <4>1. admitted[b][m] <= Limit /\ admitted[b][m] \in Nat /\ kept[b] \in Nat
        BY <3>1, <3>2 DEF WithinBudget
      <4>2. m > now => admitted[b][m] = 0
        BY <3>1 DEF CountsCover
      <4>3. CASE b = a /\ m = now /\ counts'[a] <= Limit
        <5>1. admitted'[b][m] = admitted[a][now] + 1
          BY <3>1, <3>4, <4>3
        <5> QED BY <3>1, <3>3, <3>5, <4>1, <4>3, <5>1
      <4>4. CASE ~(b = a /\ m = now /\ counts'[a] <= Limit)
        <5>1. admitted'[b][m] = admitted[b][m]
          BY <3>1, <3>4, <4>4
        <5>2. counts'[b] >= kept[b]
          BY <3>2, <3>4, <4>1
        <5>3. counts'[b] \in Nat
          BY <3>5
        <5> QED BY <3>1, <3>3, <4>1, <4>2, <5>1, <5>2, <5>3
      <4> QED BY <4>3, <4>4
    <3> QED BY <3>4, <3>7, <3>8 DEF CountsCover, WithinBudget
  <2>3. CASE UNCHANGED limiterVars
    BY <2>3 DEF limiterVars, LimiterTypeOK, CountsCover, WithinBudget
  <2> QED BY <2>1, <2>2, <2>3 DEF LimiterNext
<1> QED BY <1>1, <1>2, PTL DEF LimiterSpec

\* No agent is admitted beyond its budget in any minute.
THEOREM BudgetHolds == LimiterSpec => []WithinBudget
<1>1. BudgetInv => WithinBudget
  BY DEF BudgetInv
<1> QED BY <1>1, BudgetInvariant, PTL

--------------------------------------------------------------------------------
(* The edge.                                                                *)

\* The edge implements the limiter: it starts like it, and every step of the
\* edge is a step of the limiter or leaves it alone.
THEOREM EdgeUsesLimiter == Spec => LimiterSpec
<1>1. Init => LimiterInit
  BY DEF Init
<1>2. [Next]_edgeVars => [LimiterNext]_limiterVars
  <2> SUFFICES ASSUME [Next]_edgeVars PROVE LimiterNext \/ UNCHANGED limiterVars
    BY DEF limiterVars
  <2>1. CASE UNCHANGED edgeVars
    BY <2>1 DEF edgeVars
  <2>2. ASSUME NEW r \in Requests, Handle(r) PROVE LimiterNext \/ UNCHANGED limiterVars
    BY <2>2, RequestsHaveAgents DEF Handle, LimiterNext, Requests
  <2>3. ASSUME NEW r \in Requests, Arrive(r) \/ Resumes(r) \/ CancelWaiting(r) \/ CancelHandled(r)
        PROVE UNCHANGED limiterVars
    BY <2>3 DEF Arrive, Resumes, CancelWaiting, CancelHandled
  <2>4. CASE MinutePasses
    BY <2>4 DEF MinutePasses, LimiterNext
  <2>5. CASE ManagerStarts \/ ManagerFails \/ ManagerStops \/ Shutdown
    BY <2>5 DEF ManagerStarts, ManagerFails, ManagerStops, Shutdown
  <2> QED BY <2>1, <2>2, <2>3, <2>4, <2>5 DEF Next
<1> QED BY <1>1, <1>2, PTL DEF Spec, LimiterSpec

\* No agent is served beyond its budget in any minute.
THEOREM ServedWithinBudget == Spec => []WithinBudget
BY EdgeUsesLimiter, BudgetHolds, PTL

\* What the limiter leaves of the type invariant of the edge.
FutureAndTask ==
    /\ ready \in {"none", "pending", "done", "failed", "cancelled"} /\ stop \in BOOLEAN
    /\ owner \in {"none", "starting", "running", "ended", "failed"}
    /\ req \in [Requests -> {"new", "waiting", "handling", "answered", "broken", "cancelled"}]
    /\ ready = "none" <=> owner = "none"
    /\ ready = "pending" => owner = "starting"
    /\ owner = "running" => ready = "done"

\* Whoever waits has a task that will set the future, and a manager that runs
\* is announced.
THEOREM EdgeTypeCorrect == Spec => []EdgeTypeOK
<1>1. Init => FutureAndTask
  BY DEF Init, FutureAndTask
<1>2. FutureAndTask /\ [Next]_edgeVars => FutureAndTask'
  <2> SUFFICES ASSUME FutureAndTask, [Next]_edgeVars PROVE FutureAndTask'
    OBVIOUS
  <2> USE DEF FutureAndTask, edge
  <2>1. ASSUME NEW r \in Requests, Arrive(r) PROVE FutureAndTask'
    BY <2>1 DEF Arrive, Start, Moves
  <2>2. ASSUME NEW r \in Requests, Resumes(r) \/ Handle(r) PROVE FutureAndTask'
    BY <2>2 DEF Resumes, Handle, Moves
  <2>3. ASSUME NEW r \in Requests, CancelWaiting(r) \/ CancelHandled(r) PROVE FutureAndTask'
    BY <2>3 DEF CancelWaiting, CancelHandled, Moves
  <2>4. CASE ManagerStarts \/ ManagerFails \/ ManagerStops
    BY <2>4 DEF ManagerStarts, ManagerFails, Announced, ManagerStops
  <2>5. CASE Shutdown \/ MinutePasses \/ UNCHANGED edgeVars
    BY <2>5 DEF Shutdown, MinutePasses, edgeVars
  <2> QED BY <2>1, <2>2, <2>3, <2>4, <2>5 DEF Next
<1>3. LimiterSpec => []LimiterTypeOK
  <2>1. BudgetInv => LimiterTypeOK
    BY DEF BudgetInv
  <2> QED BY <2>1, BudgetInvariant, PTL
<1>4. FutureAndTask /\ LimiterTypeOK => EdgeTypeOK
  BY DEF FutureAndTask, EdgeTypeOK
<1> QED BY <1>1, <1>2, <1>3, <1>4, EdgeUsesLimiter, PTL DEF Spec

\* A request may break long after the owner did what breaks it, so the invariant
\* says of the owner and of the future why they are what they are.
ReasonsInv ==
    /\ OnlyKnownReasonsBreak
    /\ owner = "ended" => stop \/ ready = "cancelled"
    /\ ready = "failed" => owner = "failed"

\* Nothing else breaks a request, whatever the number and the order of requests,
\* cancellations and failures.
THEOREM KnownReasonsBreak == Spec => []OnlyKnownReasonsBreak
<1>1. Init => ReasonsInv
  BY DEF Init, ReasonsInv, OnlyKnownReasonsBreak
<1>2. EdgeTypeOK /\ ReasonsInv /\ [Next]_edgeVars => ReasonsInv'
  <2> SUFFICES ASSUME FutureAndTask, ReasonsInv, [Next]_edgeVars PROVE ReasonsInv'
    BY DEF EdgeTypeOK, FutureAndTask
  <2> USE DEF FutureAndTask, ReasonsInv, OnlyKnownReasonsBreak, edge
  <2>1. ASSUME NEW r \in Requests, Arrive(r) PROVE ReasonsInv'
    BY <2>1 DEF Arrive, Start, Moves
  <2>2. ASSUME NEW r \in Requests, Resumes(r) PROVE ReasonsInv'
    BY <2>2 DEF Resumes, Moves
  <2>3. ASSUME NEW r \in Requests, Handle(r) PROVE ReasonsInv'
    BY <2>3 DEF Handle, Moves
  <2>4. ASSUME NEW r \in Requests, CancelWaiting(r) \/ CancelHandled(r) PROVE ReasonsInv'
    BY <2>4 DEF CancelWaiting, CancelHandled, Moves
  <2>5. CASE ManagerStarts \/ ManagerFails
    BY <2>5 DEF ManagerStarts, ManagerFails, Announced
  <2>6. CASE ManagerStops \/ Shutdown
    BY <2>6 DEF ManagerStops, Stops, Shutdown
  <2>7. CASE MinutePasses \/ UNCHANGED edgeVars
    BY <2>7 DEF MinutePasses, edgeVars
  <2> QED BY <2>1, <2>2, <2>3, <2>4, <2>5, <2>6, <2>7 DEF Next
<1>3. ReasonsInv => OnlyKnownReasonsBreak
  BY DEF ReasonsInv
<1> QED BY <1>1, <1>2, <1>3, EdgeTypeCorrect, PTL DEF Spec
================================================================================
