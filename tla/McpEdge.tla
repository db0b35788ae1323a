------------------------------- MODULE McpEdge -------------------------------
(***************************************************************************)
(* The /mcp route of one process: the first request starts a task that     *)
(* owns the session manager of the SDK, every request awaits the one       *)
(* future that says the manager runs, and is then handled.  What a handled *)
(* request asks first is the rate limiter.                                 *)
(*                                                                         *)
(* asyncio: cancelling a task that awaits a future cancels the future, and *)
(* set_result on a cancelled future raises InvalidStateError.              *)
(***************************************************************************)
EXTENDS RateLimiter

CONSTANTS
    AgentOf         \* AgentOf[r]: who sends the request r, for every request

ASSUME RequestsHaveAgents == \A r \in DOMAIN AgentOf : AgentOf[r] \in Agents

VARIABLES
    ready,          \* the future: "none" (no loop yet), "pending", "done", "failed", "cancelled"
    owner,          \* the task: "none", "starting", "running", "ended", "failed"
    stop,           \* the event _shutdown sets
    req             \* "new", "waiting", "handling", "answered", "broken", "cancelled"

edge == <<ready, owner, stop>>
edgeVars == <<edge, req, limiterVars>>

Requests == DOMAIN AgentOf
Moves(r, from, to) == req[r] = from /\ req' = [req EXCEPT ![r] = to]

--------------------------------------------------------------------------------
(* The requests: _asgi.                                                     *)

\* FAULTY: a cancelled future is replaced, without a task to set the new one.
StartAgain ==
    /\ ready \in {"none", "cancelled"} /\ ready' = "pending"
    /\ owner' = IF owner = "none" THEN "starting" ELSE owner

\* The first request creates the future and the task.
Start == ready = "none" /\ ready' = "pending" /\ owner' = "starting"

\* Awaiting a future that is set does not yield.
Arrive(r) ==
    /\ \/ Start /\ Moves(r, "new", "waiting")
       \/ ready = "pending" /\ Moves(r, "new", "waiting") /\ UNCHANGED <<ready, owner>>
       \/ ready = "done" /\ Moves(r, "new", "handling") /\ UNCHANGED <<ready, owner>>
       \/ ready \in {"failed", "cancelled"} /\ Moves(r, "new", "broken") /\ UNCHANGED <<ready, owner>>
    /\ UNCHANGED <<stop, limiterVars>>

Resumes(r) ==
    /\ \/ ready = "done" /\ Moves(r, "waiting", "handling")
       \/ ready \in {"failed", "cancelled"} /\ Moves(r, "waiting", "broken")
    /\ UNCHANGED <<edge, limiterVars>>

\* handle_request fails once the manager has left its context.
Handle(r) ==
    /\ \/ owner = "running" /\ Moves(r, "handling", "answered") /\ Ask(AgentOf[r])
       \/ owner \in {"ended", "failed"} /\ Moves(r, "handling", "broken") /\ UNCHANGED limiterVars
    /\ UNCHANGED edge

--------------------------------------------------------------------------------
(* The owner task: _own, and _shutdown.                                     *)

ManagerStarts ==
    /\ owner = "starting"
    /\ \/ ready = "pending" /\ ready' = "done" /\ owner' = "running"
       \/ ready = "cancelled" /\ owner' = "ended" /\ UNCHANGED ready
    /\ UNCHANGED <<stop, req, limiterVars>>

\* FAULTY: an owner that fails leaves the future as it is.
Swallowed == ready

Announced == IF ready = "pending" THEN "failed" ELSE ready

\* The manager raises while it starts or runs, or the owner is cancelled; an
\* owner whose future is set already ends without a word.
ManagerFails ==
    /\ owner \in {"starting", "running"}
    /\ ready' = Announced /\ owner' = "failed"
    /\ UNCHANGED <<stop, req, limiterVars>>

\* FAULTY: the manager stops when nobody is being served.
StopsWhenIdle == stop \/ \A r \in Requests : req[r] # "handling"

Stops == stop

ManagerStops ==
    /\ owner = "running" /\ Stops
    /\ owner' = "ended"
    /\ UNCHANGED <<ready, stop, req, limiterVars>>

\* There is no event to set before the first request.
Shutdown ==
    /\ ready # "none" /\ ~stop
    /\ stop' = TRUE
    /\ UNCHANGED <<ready, owner, req, limiterVars>>

--------------------------------------------------------------------------------
(* Cancellation of a request, and time.                                     *)

CancelWaiting(r) ==
    /\ Moves(r, "waiting", "cancelled")
    /\ ready' = IF ready = "pending" THEN "cancelled" ELSE ready
    /\ UNCHANGED <<owner, stop, limiterVars>>

CancelHandled(r) == Moves(r, "handling", "cancelled") /\ UNCHANGED <<edge, limiterVars>>

MinutePasses == Tick /\ UNCHANGED <<edge, req>>

--------------------------------------------------------------------------------

Init ==
    /\ ready = "none" /\ owner = "none" /\ stop = FALSE
    /\ req = [r \in Requests |-> "new"]
    /\ LimiterInit

Next ==
    \/ \E r \in Requests :
          Arrive(r) \/ Resumes(r) \/ Handle(r) \/ CancelWaiting(r) \/ CancelHandled(r)
    \/ ManagerStarts \/ ManagerFails \/ ManagerStops \/ Shutdown \/ MinutePasses

\* Tasks that can go on do; nobody has to send a request or shut down.
Fairness ==
    /\ WF_edgeVars(ManagerStarts) /\ WF_edgeVars(ManagerStops)
    /\ \A r \in Requests : WF_edgeVars(Resumes(r)) /\ WF_edgeVars(Handle(r))

Spec == Init /\ [][Next]_edgeVars /\ Fairness

--------------------------------------------------------------------------------

\* The future and the task go together: a future that is not set has a task that
\* will set it, and a running manager is announced.
EdgeTypeOK ==
    /\ LimiterTypeOK
    /\ ready \in {"none", "pending", "done", "failed", "cancelled"} /\ stop \in BOOLEAN
    /\ owner \in {"none", "starting", "running", "ended", "failed"}
    /\ req \in [Requests -> {"new", "waiting", "handling", "answered", "broken", "cancelled"}]
    /\ ready = "none" <=> owner = "none"
    /\ ready = "pending" => owner = "starting"
    /\ owner = "running" => ready = "done"

\* No request is left waiting for the manager, not even when it fails to start
\* or the request that started it is cancelled (_asgi, _own).
EveryoneServed ==
    \A r \in Requests : req[r] # "new" ~> req[r] \in {"answered", "broken", "cancelled"}

\* A request breaks for three reasons only, of which two break every request
\* after it: a shutdown, a manager that failed, and a request that was cancelled
\* while the manager was starting (_asgi, _own).
OnlyKnownReasonsBreak ==
    \A r \in Requests : req[r] = "broken" => stop \/ owner = "failed" \/ ready = "cancelled"

\* The manager, once started, runs until the container shuts down (McpEdge:
\* "a small owner task starts the manager on the first request and keeps it
\* running until the container shuts down").
RunsUntilShutdown == owner = "ended" => stop
================================================================================
