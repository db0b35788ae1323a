-------------------------------- MODULE Gateway --------------------------------
(***************************************************************************)
(* The path of a gated tool call: ToolGateway.call with its approval gate, *)
(* ToolGateway.decide by operators and ToolGateway.resume by whoever       *)
(* checks a ticket, on several replicas that share the ticket store.       *)
(*                                                                         *)
(* Every coroutine is a task with a program counter.  A step runs from one *)
(* await to the next: it does one operation of the shared store, or of the *)
(* signal or the upstream, and the local code that follows it.  What a     *)
(* task read before an await (seen, ctx) is kept and may be out of date.   *)
(* A gated call has one ticket, so a call is its own ticket identifier.    *)
(***************************************************************************)
EXTENDS TicketStore, Sequences, Naturals

CONSTANTS
    Resumes,    \* tasks that check tickets: POST resume, check_ticket of the MCP edge
    Operators,  \* tasks that decide tickets
    Replicas,   \* gateway processes
    Home,       \* Home[x]: the replica task x runs on
    Grants,     \* what grant_for may answer: approval modes, None when not allowed
    Faults,     \* the faults considered, of "crash", "abort", "slow"
    MaxFaults   \* bound on the crashes and aborts of a behaviour

Calls   == Tickets
Runners == Calls \cup Resumes
Tasks   == Runners \cup Operators

ASSUME TasksAreDistinct ==
    /\ Calls \cap Resumes = {} /\ Calls \cap Operators = {} /\ Resumes \cap Operators = {}
    /\ None \notin Resumes \cup Operators
ASSUME HomeIsAReplica == Home \in [Tasks -> Replicas]
ASSUME GrantsAreModes == Grants \subseteq {"auto", "interactive", "async", None}
ASSUME FaultsAreKnown == Faults \subseteq {"crash", "abort", "slow"} /\ MaxFaults \in Nat

VARIABLES
    pc,         \* where each task is
    target,     \* target[x]: the ticket task x is about
    seen,       \* seen[x]: the Decision x read, or brings
    ctx,        \* ctx[x]: arguments, edit note and outcome of the execution x drives
    reply,      \* reply[x]: what x last answered
    expired,    \* the calls that waited for approval_timeout_seconds
    events,     \* events[r]: tickets whose decision event is set in replica r
    received,   \* received[t]: the arguments the upstream got for call t, in order
    audited,    \* the tickets with a "decision" audit event
    faults      \* crashes and aborts so far

locals == <<target, seen, ctx, reply>>
world == <<expired, events, received, audited, faults>>
vars == <<storeVars, pc, locals, world>>

--------------------------------------------------------------------------------
(* Values.                                                                  *)

CallPcs  == {"start", "filed", "await", "check", "sleep", "expire", "reread", "enforce",
             "claim", "lost", "stale", "run", "report", "done"}
ResumePcs == {"idle", "regrant", "enforce", "claim", "lost", "stale", "run", "report"}
OperatorPcs == {"idle", "decide", "signal", "audit"}

Say(kind) == [kind |-> kind, note |-> FALSE]
Replies == Results \cup
    {Say(k) : k \in {"none", "refused", "pending", "denied", "recorded", "conflict", "lost"}}

NoCtx == [args |-> None, note |-> FALSE, outcome |-> None]
Ctxs  == [args : Args \cup {None}, note : BOOLEAN, outcome : Results \cup {None}]

TaskTypeOK ==
    /\ pc \in [Tasks -> CallPcs \cup ResumePcs \cup OperatorPcs]
    /\ \A c \in Calls : pc[c] \in CallPcs /\ target[c] = c
    /\ \A x \in Resumes : pc[x] \in ResumePcs
    /\ \A o \in Operators : pc[o] \in OperatorPcs
    /\ target \in [Tasks -> Tickets \cup {None}]
    /\ seen \in [Tasks -> Decisions]
    /\ ctx \in [Tasks -> Ctxs]
    /\ reply \in [Tasks -> Replies]

WorldTypeOK ==
    /\ expired \in SUBSET Calls
    /\ events \in [Replicas -> SUBSET Calls]
    /\ received \in [Calls -> Seq(Args)]
    /\ audited \in SUBSET Calls
    /\ faults \in 0..MaxFaults

TypeOK == StoreTypeOK /\ TaskTypeOK /\ WorldTypeOK

Init ==
    /\ StoreInit
    /\ pc = [x \in Tasks |-> IF x \in Calls THEN "start" ELSE "idle"]
    /\ target = [x \in Tasks |-> IF x \in Calls THEN x ELSE None]
    /\ seen = [x \in Tasks |-> Undecided]
    /\ ctx = [x \in Tasks |-> NoCtx]
    /\ reply = [x \in Tasks |-> Say("none")]
    /\ expired = {}
    /\ events = [r \in Replicas |-> {}]
    /\ received = [c \in Calls |-> <<>>]
    /\ audited = {}
    /\ faults = 0

InFlight(x) == pc[x] \notin {"start", "idle", "done"}

At(x, label) == pc[x] = label
Goto(x, label) == pc' = [pc EXCEPT ![x] = label]

\* The tasks in X end, and whoever waits on them gets the answer r.  An
\* operator keeps in mind the verdict it brought.
Leave(X, r) ==
    /\ pc' = [x \in Tasks |-> IF x \notin X THEN pc[x] ELSE IF x \in Calls THEN "done" ELSE "idle"]
    /\ reply' = [x \in Tasks |-> IF x \in X THEN r ELSE reply[x]]
    /\ seen' = [x \in Tasks |-> IF x \in X \cap Runners THEN Undecided ELSE seen[x]]
    /\ ctx' = [x \in Tasks |-> IF x \in X THEN NoCtx ELSE ctx[x]]
    /\ UNCHANGED target
End(x, r) == Leave({x}, r)

--------------------------------------------------------------------------------
(* ToolGateway.call up to the gate.                                         *)

\* The rate limiter may be spent at any call; without a grant this is the only way on.
TurnAway(c) ==
    /\ At(c, "start")
    /\ End(c, Say("refused"))
    /\ UNCHANGED <<storeVars, world>>

PassUngated(c) ==
    /\ At(c, "start")
    /\ "auto" \in Grants
    /\ \E a \in Args : ctx' = [ctx EXCEPT ![c].args = a]
    /\ Goto(c, "run")
    /\ UNCHANGED <<storeVars, target, seen, reply, world>>

FileTicket(c) ==
    /\ At(c, "start")
    /\ Grants \cap {"interactive", "async"} # {}
    /\ \E a \in Args : Create(c, a) /\ ctx' = [ctx EXCEPT ![c].args = a]
    /\ Goto(c, "filed")
    /\ UNCHANGED <<target, seen, reply, world>>

\* Async mode, or a caller that cannot block: the answer is the ticket.
HandBack(c) ==
    /\ At(c, "filed")
    /\ End(c, Say("pending"))
    /\ UNCHANGED <<storeVars, world>>

Wait(c) ==
    /\ At(c, "filed")
    /\ "interactive" \in Grants
    /\ Goto(c, "await")
    /\ UNCHANGED <<storeVars, locals, world>>

--------------------------------------------------------------------------------
(* _await_decision and the end of the wait.                                 *)

Reread(c) ==
    /\ At(c, "await")
    /\ seen' = [seen EXCEPT ![c] = decision[c]]
    /\ Goto(c, "check")
    /\ UNCHANGED <<storeVars, target, ctx, reply, world>>

\* FAULTY: only a verdict ends the wait.
CheckForever(c) ==
    /\ At(c, "check")
    /\ IF seen[c].status = "pending" THEN Goto(c, "sleep") ELSE Goto(c, "enforce")
    /\ UNCHANGED <<storeVars, locals, world>>

\* The ticket was pending when it was read; it need not be by now.
Check(c) ==
    /\ At(c, "check")
    /\ \/ /\ seen[c].status # "pending"
          /\ Goto(c, "enforce")
          /\ UNCHANGED seen
       \/ /\ seen[c].status = "pending" /\ c \in expired
          /\ seen' = [seen EXCEPT ![c] = TimedOut]
          /\ Goto(c, "expire")
       \/ /\ seen[c].status = "pending" /\ c \notin expired
          /\ Goto(c, "sleep")
          /\ UNCHANGED seen
    /\ UNCHANGED <<storeVars, target, ctx, reply, world>>

WakeBySignal(c) ==
    /\ At(c, "sleep")
    /\ c \in events[Home[c]]
    /\ events' = [events EXCEPT ![Home[c]] = @ \ {c}]
    /\ Goto(c, "await")
    /\ UNCHANGED <<storeVars, locals, expired, received, audited, faults>>

\* decision_recheck_seconds, or what is left of the wait, went by.
WakeByTimer(c) ==
    /\ At(c, "sleep")
    /\ Goto(c, "await")
    /\ UNCHANGED <<storeVars, locals, world>>

\* FAULTY: the waiter gives up without recording the timeout on the ticket.
ExpireSilently(c) ==
    /\ At(c, "expire")
    /\ Goto(c, "enforce")
    /\ UNCHANGED <<storeVars, locals, world>>

\* FAULTY: the timeout replaces the verdict of an operator.
ExpireRegardless(c) ==
    /\ At(c, "expire")
    /\ decision' = [decision EXCEPT ![c] = TimedOut]
    /\ Goto(c, "enforce")
    /\ UNCHANGED <<call, claimed, stale, result>>
    /\ UNCHANGED <<locals, world>>

Expire(c) ==
    /\ At(c, "expire")
    /\ IF DecideWins(c)
       THEN Decide(c, TimedOut) /\ Goto(c, "enforce")
       ELSE Goto(c, "reread") /\ UNCHANGED storeVars
    /\ UNCHANGED <<locals, world>>

\* An operator decided right at the deadline: their verdict stands.
YieldToOperator(c) ==
    /\ At(c, "reread")
    /\ seen' = [seen EXCEPT ![c] = decision[c]]
    /\ Goto(c, "enforce")
    /\ UNCHANGED <<storeVars, target, ctx, reply, world>>

--------------------------------------------------------------------------------
(* ToolGateway.resume up to the verdict.                                    *)

\* An unknown ticket changes nothing (UnknownTicket).
StartResume(x, t) ==
    /\ At(x, "idle") /\ Filed(t)
    /\ target' = [target EXCEPT ![x] = t]
    /\ IF result[t] # None \/ decision[t].status = "pending"
       THEN /\ reply' = [reply EXCEPT ![x] = IF result[t] # None THEN result[t] ELSE Say("pending")]
            /\ UNCHANGED <<pc, seen, ctx>>
       ELSE /\ seen' = [seen EXCEPT ![x] = decision[t]]
            /\ ctx' = [ctx EXCEPT ![x].args = call[t]]
            /\ reply' = [reply EXCEPT ![x] = Say("none")]
            /\ Goto(x, "regrant")
    /\ UNCHANGED <<storeVars, world>>

\* FAULTY: a resume runs the full pipeline, gate included.
RegrantFull(x) ==
    /\ At(x, "regrant")
    /\ Goto(x, "filed")
    /\ UNCHANGED <<storeVars, locals, world>>

\* The grant is resolved again: the policy of today decides, not the one at filing.
Regrant(x) ==
    /\ At(x, "regrant")
    /\ \/ None \in Grants /\ End(x, Say("refused"))
       \/ Grants \ {None} # {} /\ Goto(x, "enforce") /\ UNCHANGED locals
    /\ UNCHANGED <<storeVars, world>>

--------------------------------------------------------------------------------
(* apply_decision: the verdict is enforced, an edit adopted and noted.      *)

\* FAULTY: any edit is noted, also one that changes nothing.
EditOfAny(args, d) == d.edit # None

EditOf(args, d) == d.edit # None /\ d.edit # args

Deny(x) ==
    /\ At(x, "enforce")
    /\ seen[x].status # "approved"
    /\ End(x, Say("denied"))
    /\ UNCHANGED <<storeVars, world>>

\* FAULTY: a timeout is not told from an approval.
AdoptUnlessRejected(x) ==
    /\ At(x, "enforce")
    /\ seen[x].status # "rejected"
    /\ ctx' = [ctx EXCEPT ![x] = IF EditOf(@.args, seen[x])
                                 THEN [@ EXCEPT !.args = seen[x].edit, !.note = TRUE] ELSE @]
    /\ Goto(x, "claim")
    /\ UNCHANGED <<storeVars, target, seen, reply, world>>

Adopt(x) ==
    /\ At(x, "enforce")
    /\ seen[x].status = "approved"
    /\ ctx' = [ctx EXCEPT ![x] = IF EditOf(@.args, seen[x])
                                 THEN [@ EXCEPT !.args = seen[x].edit, !.note = TRUE] ELSE @]
    /\ Goto(x, "claim")
    /\ UNCHANGED <<storeVars, target, seen, reply, world>>

--------------------------------------------------------------------------------
(* run_once, for the waiter of a call and for a resume alike.               *)

TakeClaim(x) ==
    /\ At(x, "claim")
    /\ IF ClaimWins(target[x])
       THEN Claim(target[x]) /\ Goto(x, "run")
       ELSE Goto(x, "lost") /\ UNCHANGED storeVars
    /\ UNCHANGED <<locals, world>>

AnswerStored(x) ==
    /\ At(x, "lost")
    /\ IF result[target[x]] # None
       THEN End(x, result[target[x]])
       ELSE Goto(x, "stale") /\ UNCHANGED locals
    /\ UNCHANGED <<storeVars, world>>

\* FAULTY: a stale claim is taken over and the call run again.
RetryStale(x) ==
    /\ At(x, "stale")
    /\ IF CloseStaleClaimWins(target[x])
       THEN Goto(x, "run") /\ UNCHANGED locals
       ELSE End(x, Say("pending"))
    /\ UNCHANGED <<storeVars, world>>

\* FAULTY: nobody closes a stale claim.
LeavePending(x) ==
    /\ At(x, "stale")
    /\ End(x, Say("pending"))
    /\ UNCHANGED <<storeVars, world>>

CloseOrLeave(x) ==
    /\ At(x, "stale")
    /\ IF CloseStaleClaimWins(target[x])
       THEN CloseStaleClaim(target[x]) /\ End(x, Interrupted)
       ELSE End(x, Say("pending")) /\ UNCHANGED storeVars
    /\ UNCHANGED world

Gated(x) == x \in Resumes \/ Filed(x)

\* The execution is over: run_once goes on to store its outcome, an ungated
\* call has nowhere to store it and answers.
Finish(x, r) ==
    IF Gated(x)
    THEN Goto(x, "report") /\ ctx' = [ctx EXCEPT ![x].outcome = r] /\ UNCHANGED <<target, seen, reply>>
    ELSE End(x, r)

\* A step after the gate refuses the call (schema, secrets, an extra step), or
\* the upstream is not reached: nothing is executed.
FailBeforeUpstream(x) ==
    /\ At(x, "run")
    /\ Finish(x, Say("error"))
    /\ UNCHANGED <<storeVars, world>>

\* The upstream gets the call; its answer may still be an error (a failure, a leak).
Dispatch(x) ==
    /\ At(x, "run")
    /\ received' = [received EXCEPT ![target[x]] = Append(@, ctx[x].args)]
    /\ \/ Finish(x, [kind |-> "ok", note |-> ctx[x].note])
       \/ Finish(x, Say("error"))
    /\ UNCHANGED <<storeVars, expired, events, audited, faults>>

Report(x) ==
    /\ At(x, "report")
    /\ Complete(target[x], ctx[x].outcome)
    /\ End(x, ctx[x].outcome)
    /\ UNCHANGED world

--------------------------------------------------------------------------------
(* ToolGateway.decide.                                                      *)

\* An unknown ticket, or a status an operator cannot give, changes nothing.
StartDecide(o, t, d) ==
    /\ At(o, "idle") /\ Filed(t)
    /\ target' = [target EXCEPT ![o] = t]
    /\ seen' = [seen EXCEPT ![o] = d]
    /\ reply' = [reply EXCEPT ![o] = Say("none")]
    /\ Goto(o, "decide")
    /\ UNCHANGED <<storeVars, ctx, world>>

RecordVerdict(o) ==
    /\ At(o, "decide")
    /\ IF DecideWins(target[o])
       THEN Decide(target[o], seen[o]) /\ Goto(o, "signal") /\ UNCHANGED locals
       ELSE End(o, Say("conflict")) /\ UNCHANGED storeVars
    /\ UNCHANGED world

\* FAULTY: a signal nobody sleeps on is dropped.
SignalSleeper(o) ==
    /\ At(o, "signal")
    /\ events' = IF pc[target[o]] = "sleep" THEN [events EXCEPT ![Home[o]] = @ \cup {target[o]}] ELSE events
    /\ Goto(o, "audit")
    /\ UNCHANGED <<storeVars, locals, expired, received, audited, faults>>

Signal(o) ==
    /\ At(o, "signal")
    /\ events' = [events EXCEPT ![Home[o]] = @ \cup {target[o]}]
    /\ Goto(o, "audit")
    /\ UNCHANGED <<storeVars, locals, expired, received, audited, faults>>

\* FAULTY: only approvals are audited.
AuditApprovals(o) ==
    /\ At(o, "audit")
    /\ audited' = IF seen[o].status = "approved" THEN audited \cup {target[o]} ELSE audited
    /\ End(o, Say("recorded"))
    /\ UNCHANGED <<storeVars, expired, events, received, faults>>

Audit(o) ==
    /\ At(o, "audit")
    /\ audited' = audited \cup {target[o]}
    /\ End(o, Say("recorded"))
    /\ UNCHANGED <<storeVars, expired, events, received, faults>>

--------------------------------------------------------------------------------
(* The environment: clocks and faults.                                      *)

\* approval_timeout_seconds went by since the waiter of c went to wait.
Deadline(c) ==
    /\ pc[c] \in {"await", "check", "sleep"}
    /\ c \notin expired
    /\ expired' = expired \cup {c}
    /\ UNCHANGED <<storeVars, pc, locals, events, received, audited, faults>>

Executing(t) == \E x \in Runners : target[x] = t /\ pc[x] \in {"run", "report"}

\* execution_lease_seconds went by since the claim.  The lease is set above the
\* slowest tool, so the executor is gone by then, unless "slow" is considered.
LeaseExpires(t) ==
    /\ "slow" \in Faults \/ ~Executing(t)
    /\ GrowStale(t)
    /\ UNCHANGED <<pc, locals, world>>

\* Replica r stops: its tasks and its decision events are gone, the store is not.
Crash(r) ==
    /\ "crash" \in Faults /\ faults < MaxFaults
    /\ faults' = faults + 1
    /\ Leave({x \in Tasks : Home[x] = r /\ InFlight(x)}, Say("lost"))
    /\ events' = [events EXCEPT ![r] = {}]
    /\ UNCHANGED <<storeVars, expired, received, audited>>

\* Task x ends at an await: its client disconnects and it is cancelled, or the
\* awaited store, audit log, resolver... raises something no caller catches.
Abort(x) ==
    /\ "abort" \in Faults /\ faults < MaxFaults
    /\ InFlight(x)
    /\ faults' = faults + 1
    /\ End(x, Say("lost"))
    /\ UNCHANGED <<storeVars, expired, events, received, audited>>

--------------------------------------------------------------------------------

CallStep(c) ==
    \/ HandBack(c) \/ Wait(c)
    \/ Reread(c) \/ Check(c) \/ WakeBySignal(c) \/ Expire(c) \/ YieldToOperator(c)

RunnerStep(x) ==
    \/ Deny(x) \/ Adopt(x)
    \/ TakeClaim(x) \/ AnswerStored(x) \/ CloseOrLeave(x)
    \/ FailBeforeUpstream(x) \/ Dispatch(x) \/ Report(x)

OperatorStep(o) == RecordVerdict(o) \/ Signal(o) \/ Audit(o)

Request ==
    \/ \E c \in Calls : TurnAway(c) \/ PassUngated(c) \/ FileTicket(c)
    \/ \E x \in Resumes, t \in Tickets : StartResume(x, t)
    \/ \E o \in Operators, t \in Tickets, d \in Verdicts : StartDecide(o, t, d)

Work ==
    \/ \E c \in Calls : CallStep(c)
    \/ \E x \in Resumes : Regrant(x)
    \/ \E x \in Runners : RunnerStep(x)
    \/ \E o \in Operators : OperatorStep(o)

Clock ==
    \/ \E c \in Calls : WakeByTimer(c) \/ Deadline(c)
    \/ \E t \in Tickets : LeaseExpires(t)

Fault == (\E r \in Replicas : Crash(r)) \/ (\E x \in Tasks : Abort(x))

Next == Request \/ Work \/ Clock \/ Fault

Spec == Init /\ [][Next]_vars

\* Every coroutine that can run is run in the end.
WorkFairness ==
    /\ \A c \in Calls : WF_vars(CallStep(c))
    /\ \A x \in Resumes : WF_vars(Regrant(x))
    /\ \A x \in Runners : WF_vars(RunnerStep(x))
    /\ \A o \in Operators : WF_vars(OperatorStep(o))

\* Time goes by.
ClockFairness ==
    /\ \A c \in Calls : WF_vars(WakeByTimer(c)) /\ WF_vars(Deadline(c))
    /\ \A t \in Tickets : WF_vars(LeaseExpires(t))

\* Whoever got a ticket keeps checking it: strong, since the few resume tasks
\* stand for the checks of every client and are not held up by one another.
CheckFairness == \A t \in Tickets : SF_vars(\E x \in Resumes : StartResume(x, t))

FairSpec == Spec /\ WorkFairness /\ ClockFairness /\ CheckFairness
================================================================================
