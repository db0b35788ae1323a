--------------------------- MODULE GatewayProperties ---------------------------
(***************************************************************************)
(* What the gateway must guarantee, and the life of a ticket it            *)
(* implements.                                                             *)
(***************************************************************************)
EXTENDS Gateway

--------------------------------------------------------------------------------
(* Safety.                                                                  *)

\* A call reaches the upstream at most once, however many waiters and resumes
\* race for it on however many replicas, and whatever crashes, is cancelled or
\* outlives its lease in between (run_once).
AtMostOnce == \A c \in Calls : Len(received[c]) <= 1

\* What reached the upstream for a gated call is what an operator approved:
\* the edited arguments if there are any, the filed ones otherwise
\* (_await_decision, resume, apply_decision).
ExecutesWhatWasApproved ==
    \A c \in Calls : Filed(c) =>
        \A i \in DOMAIN received[c] :
            /\ decision[c].status = "approved"
            /\ received[c][i] = IF decision[c].edit # None THEN decision[c].edit ELSE call[c]

\* A caller that heard a denial can rely on it: the call never reaches the
\* upstream, not even when an operator approves at the deadline of the waiter
\* (handle_call records the timeout before it denies).
DeniedNeverRuns ==
    \A x \in Runners : reply[x].kind = "denied" => received[target[x]] = <<>>

\* Everyone who got an outcome for a gated call, the executor that raised an
\* error included, got the one the ticket keeps (run_once).
AnswersAgree ==
    \A x \in Runners :
        reply[x].kind \in {"ok", "error", "interrupted"} /\ Gated(x)
            => result[target[x]] = reply[x]

\* The agent is told of an edit exactly when the edit changed its call, whoever
\* hands over the result (apply_decision, Dispatch).
EditsAreDisclosed ==
    \A t \in Tickets : result[t] # None /\ result[t].kind = "ok" =>
        (result[t].note <=> decision[t].edit # None /\ decision[t].edit # call[t])

\* An operator that was told its verdict is recorded finds it standing for good,
\* against other operators and against the timeout of the waiter (decide).
RecordedStands ==
    \A o \in Operators : reply[o].kind = "recorded" => decision[target[o]] = seen[o]

\* A waiter does not sleep through a verdict that an operator of its own replica
\* was told is recorded: a signal sent before the waiter sleeps is kept
\* (_await_decision, MemoryDecisionSignal).
NoLostWakeup ==
    \A c \in Calls, o \in Operators :
        /\ pc[c] = "sleep"
        /\ reply[o].kind = "recorded" /\ target[o] = c /\ Home[o] = Home[c]
        => c \in events[Home[c]]

\* The operator o is between the verdict it recorded on t and its audit event,
\* and the verdict of t is in the audit log or on its way there.
Auditing(o, t) == target[o] = t /\ pc[o] \in {"signal", "audit"}
Accounted(t)   == t \in audited \/ \E o \in Operators : Auditing(o, t)

\* A verdict is missing in the audit log only when the decide request that
\* recorded it was lost on its way there: no other step records a verdict that
\* nobody will audit, or forgets one (ToolGateway.decide; README.md:50).
VerdictsReachTheLog ==
    [][\A t \in Tickets :
          decision'[t].status \in {"approved", "rejected"} /\ ~Accounted(t)' =>
              /\ decision'[t] = decision[t]
              /\ Accounted(t) => \E o \in Operators : Auditing(o, t) /\ reply'[o].kind = "lost"]_vars

\* The result of a ticket is set once (domain.py:68).
ResultSetOnce ==
    [][\A t \in Tickets : result[t] # None => result'[t] = result[t]]_vars

--------------------------------------------------------------------------------
(* Inductive invariants: why the properties above hold.                     *)

\* A task at work is about a ticket that exists, has the arguments to run and,
\* once its execution is over, an outcome to report.
WorkIsSound ==
    /\ \A x \in Resumes \cup Operators : InFlight(x) => target[x] \in Tickets /\ Filed(target[x])
    /\ \A x \in Runners : InFlight(x) => ctx[x].args \in Args
    /\ \A x \in Runners : pc[x] = "report" => ctx[x].outcome \in Results

Typed == TypeOK /\ WorkIsSound

\* x executes the call of its ticket.
Executes(x) == pc[x] \in {"run", "report"} /\ Gated(x)

\* The claim on a ticket stands for the one execution it can have: until it is
\* taken nothing has run, and whoever is about to run holds it alone.
ClaimIsTheRun ==
    /\ \A c \in Calls : pc[c] = "start" => ~Filed(c) /\ received[c] = <<>>
    /\ \A c \in Calls : pc[c] \notin {"start", "run", "done"} => Filed(c)
    /\ \A c \in Calls : ~Filed(c) => c \notin claimed /\ (pc[c] = "run" => received[c] = <<>>)
    /\ \A t \in Tickets : Filed(t) /\ t \notin claimed => received[t] = <<>>
    /\ \A x \in Runners : Executes(x) => target[x] \in claimed
    /\ \A x \in Runners : Executes(x) /\ pc[x] = "run" => received[target[x]] = <<>>
    /\ \A x, y \in Runners : Executes(x) /\ Executes(y) /\ target[x] = target[y] => x = y

OneRun == Typed /\ ClaimIsTheRun /\ AtMostOnce

\* What an approval of t stands for, and whether it changed the call.
ApprovedArgs(t) == IF decision[t].edit # None THEN decision[t].edit ELSE call[t]
Edited(t)       == EditOf(call[t], decision[t])

\* The runner x is past the verdict of its ticket.
Proceeds(x) == pc[x] \in {"claim", "lost", "stale"} \/ Executes(x)

\* What x read before an await is still so when x acts on it: a verdict does not
\* change, and until there is one x only holds the call as it was filed.
ActsOnVerdict(x) ==
    LET t == target[x] IN
    /\ pc[x] \in {"filed", "await", "check", "sleep", "expire", "reread", "regrant", "enforce"}
          => ctx[x].args = call[t]
    /\ pc[x] \notin {"claim", "lost", "stale", "run", "report"} => ~ctx[x].note
    /\ pc[x] = "check" => seen[x].status = "pending" \/ seen[x] = decision[t]
    /\ pc[x] = "expire" => seen[x] = TimedOut
    /\ pc[x] = "reread" => decision[t].status # "pending"
    /\ pc[x] \in {"regrant", "enforce"} => seen[x] = decision[t] /\ decision[t].status # "pending"
    /\ Proceeds(x) => decision[t].status = "approved"
    /\ pc[x] = "claim" \/ (pc[x] = "run" /\ Gated(x))
          => ctx[x].args = ApprovedArgs(t) /\ (ctx[x].note <=> Edited(t))
    /\ Executes(x) /\ pc[x] = "report" /\ ctx[x].outcome.kind = "ok" => (ctx[x].outcome.note <=> Edited(t))
    /\ reply[x].kind = "denied"
          => t \in Tickets /\ Filed(t) /\ decision[t].status \notin {"pending", "approved"}

\* An operator brings a verdict and, once it is recorded, finds it on the ticket.
StandsBy(o) ==
    /\ pc[o] = "decide" => seen[o].status # "pending"
    /\ pc[o] \in {"signal", "audit"} \/ reply[o].kind = "recorded" =>
        target[o] \in Tickets /\ Filed(target[o]) /\ decision[target[o]] = seen[o] /\ seen[o].status # "pending"

\* Only an approved call has a result or reached the upstream.
OutcomeIsApproved(t) ==
    /\ result[t] # None => Filed(t) /\ decision[t].status = "approved"
    /\ result[t] # None /\ result[t].kind = "ok" => (result[t].note <=> Edited(t))
    /\ Filed(t) => \A i \in DOMAIN received[t] : decision[t].status = "approved" /\ received[t][i] = ApprovedArgs(t)

OneVerdict ==
    /\ OneRun
    /\ \A x \in Runners : ActsOnVerdict(x)
    /\ \A o \in Operators : StandsBy(o)
    /\ \A t \in Tickets : OutcomeIsApproved(t)

\* While no lease expires under its executor, nobody closes a claim that is still
\* at work, so the executor finds its ticket open and closes it itself.
ClosedByOne ==
    /\ stale \subseteq claimed
    /\ \A x \in Runners : Executes(x) => target[x] \notin stale /\ result[target[x]] = None
    /\ \A c \in Calls : pc[c] = "start" => reply[c].kind = "none"

OneOutcome == OneVerdict /\ ClosedByOne /\ AnswersAgree

\* The waiter c sleeps, or is about to on what it read.
Drowsy(c) == pc[c] = "sleep" \/ (pc[c] = "check" /\ seen[c].status = "pending")

\* The operator o has signalled its verdict.
Signalled(o) == pc[o] = "audit" \/ reply[o].kind = "recorded"

\* A signal that comes before the waiter sleeps is still there when it does.
SignalKept ==
    \A c \in Calls, o \in Operators :
        Drowsy(c) /\ Signalled(o) /\ target[o] = c /\ Home[o] = Home[c] => c \in events[Home[c]]

--------------------------------------------------------------------------------
(* Liveness.                                                                *)

\* A blocking caller is answered in the end, even if nobody ever decides.
WaiterReleased == \A c \in Calls : pc[c] = "await" ~> pc[c] = "done"

\* An approved call gets a result in the end, after a crash of its executor too.
ApprovedGetsResult ==
    \A t \in Tickets : decision[t].status = "approved" ~> result[t] # None

\* The claim a dead executor left is closed in the end (README.md:105).
ClaimsAreClosed == \A t \in Tickets : t \in claimed ~> result[t] # None

--------------------------------------------------------------------------------
(* The gateway implements the life of a ticket.                             *)

TicketVerdict == [t \in Tickets |-> IF Filed(t) THEN decision[t].status ELSE "none"]
TicketRuns    == [t \in Tickets |-> IF Filed(t) THEN Len(received[t]) ELSE 0]
TicketsClosed == {t \in Tickets : result[t] # None}

Life == INSTANCE TicketLifecycle WITH
    verdict <- TicketVerdict, runs <- TicketRuns, closed <- TicketsClosed

LifeSpec == Life!Spec
================================================================================
