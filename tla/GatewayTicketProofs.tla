-------------------------- MODULE GatewayTicketProofs --------------------------
(***************************************************************************)
(* What becomes of a ticket, proved.  Its verdict first: what a task read  *)
(* of a ticket before an await still holds when it acts on it, since a     *)
(* verdict is given once.  From that, what runs is what was approved, a    *)
(* denial is for good, and an operator's verdict stands.  Then its         *)
(* outcome, for leases that outlast their executions: everyone is told the *)
(* one outcome the ticket keeps, it is set once, and the gateway           *)
(* implements the life of a ticket.  And, for every lease: no waiter       *)
(* sleeps through a signal.                                                *)
(***************************************************************************)
EXTENDS GatewayProofs

--------------------------------------------------------------------------------
(* The verdict.  Most steps move one task and leave the tickets alone, or   *)
(* let tasks go.                                                            *)

Unmoved(x) ==
    /\ pc'[x] = pc[x] /\ target'[x] = target[x]
    /\ seen'[x] = seen[x] /\ ctx'[x] = ctx[x] /\ reply'[x] = reply[x]

\* A filed ticket keeps its call, and its verdict once it has one.
StoreKept ==
    \A t \in Tickets : Filed(t) =>
        /\ Filed(t)' /\ call'[t] = call[t]
        /\ decision'[t] = decision[t] \/ decision[t].status = "pending"

LEMMA AtWorkIsFiled ==
    ASSUME OneRun, NEW x \in Runners,
           pc[x] \notin {"start", "idle", "done"}, pc[x] = "run" => Gated(x)
    PROVE  target[x] \in Tickets /\ Filed(target[x])
<1>1. CASE x \in Resumes
    BY <1>1, RunnerAtWork DEF OneRun, InFlight
<1>2. CASE x \in Calls
    BY <1>2, TaskSets DEF OneRun, Typed, TypeOK, TaskTypeOK, ClaimIsTheRun, Gated
<1> QED BY <1>1, <1>2 DEF Runners

LEMMA UnmovedRunner ==
    ASSUME OneVerdict, StoreKept, NEW x \in Runners, Unmoved(x), x \in Calls => Filed(x)' = Filed(x)
    PROVE  ActsOnVerdict(x)'
<1> DEFINE t == target[x]
<1>1. ActsOnVerdict(x) /\ OneRun
    BY DEF OneVerdict
<1>2. Gated(x)' = Gated(x)
    BY DEF Gated, Runners
<1>3. Executes(x)' = Executes(x)
    BY <1>2 DEF Executes, Unmoved
<1>4. CASE t \in Tickets /\ Filed(t)
    <2>1. target'[x] = t /\ call'[t] = call[t] /\ Filed(t)'
        BY <1>4 DEF StoreKept, Unmoved
    <2>2. CASE decision'[t] = decision[t]
        BY <1>1, <1>2, <1>3, <2>1, <2>2 DEF ActsOnVerdict, Unmoved, Proceeds, ApprovedArgs, Edited, EditOf
    <2>3. CASE decision[t].status = "pending"
        <3>1. pc[x] \notin {"reread", "regrant", "enforce", "claim", "lost", "stale"} /\ ~Executes(x)
            BY <1>1, <2>3 DEF ActsOnVerdict, Proceeds
        <3>2. reply[x].kind # "denied"
            BY <1>1, <2>3 DEF ActsOnVerdict
        <3>3. pc[x] = "check" => seen[x].status = "pending"
            BY <1>1, <2>3 DEF ActsOnVerdict
        <3>4. ~(pc[x] = "run" /\ Gated(x))
            BY <3>1 DEF Executes
        <3> QED BY <1>1, <1>2, <1>3, <2>1, <3>1, <3>2, <3>3, <3>4 DEF ActsOnVerdict, Unmoved, Proceeds
    <2> QED BY <1>4, <2>2, <2>3 DEF StoreKept
<1>5. CASE ~(t \in Tickets /\ Filed(t))
    <2>1. pc[x] \in {"start", "idle", "done"} \/ (pc[x] = "run" /\ ~Gated(x))
        BY <1>1, <1>5, AtWorkIsFiled
    <2>2. reply[x].kind # "denied"
        BY <1>1, <1>5 DEF ActsOnVerdict
    <2>3. ~Executes(x)
        BY <2>1 DEF Executes
    <2> QED BY <1>1, <1>2, <1>3, <2>1, <2>2, <2>3 DEF ActsOnVerdict, Unmoved, Proceeds
<1> QED BY <1>4, <1>5

LEMMA UnmovedOperator ==
    ASSUME OneVerdict, StoreKept, NEW o \in Operators, Unmoved(o) PROVE StandsBy(o)'
BY DEF OneVerdict, StandsBy, StoreKept, Unmoved

LEMMA KeptTicket ==
    ASSUME OneVerdict, StoreKept, NEW t \in Tickets,
           result'[t] = result[t], received'[t] = received[t],
           Filed(t)' => Filed(t) \/ received[t] = <<>>
    PROVE  OutcomeIsApproved(t)'
<1>1. OutcomeIsApproved(t)
    BY DEF OneVerdict
<1>2. CASE Filed(t)
    <2>1. Filed(t)' /\ call'[t] = call[t]
        BY <1>2 DEF StoreKept
    <2>2. CASE decision'[t] = decision[t]
        BY <1>1, <1>2, <2>1, <2>2 DEF OutcomeIsApproved, ApprovedArgs, Edited, EditOf
    <2>3. CASE decision[t].status = "pending"
        <3>1. result[t] = None /\ DOMAIN received[t] = {}
            BY <1>1, <1>2, <2>3 DEF OutcomeIsApproved
        <3> QED BY <3>1 DEF OutcomeIsApproved
    <2> QED BY <1>2, <2>2, <2>3 DEF StoreKept
<1>3. CASE ~Filed(t)
    <2>1. result'[t] = None
        BY <1>1, <1>3 DEF OutcomeIsApproved
    <2>2. DOMAIN <<>> = {}
        OBVIOUS
    <2>3. Filed(t)' => DOMAIN received'[t] = {}
        BY <1>3, <2>2
    <2> QED BY <2>1, <2>3 DEF OutcomeIsApproved
<1> QED BY <1>2, <1>3

\* The tasks of X move, the others do not.
LEMMA MoveKeeps ==
    ASSUME OneVerdict, OneRun', StoreKept, NEW X \in SUBSET Tasks,
           \A y \in Tasks \ X : Unmoved(y),
           \A x \in X : /\ x \in Runners => ActsOnVerdict(x)'
                        /\ x \in Operators => StandsBy(x)',
           \A c \in Calls \ X : Filed(c)' = Filed(c),
           \A t \in Tickets : OutcomeIsApproved(t)'
    PROVE  OneVerdict'
<1>1. ASSUME NEW x \in Runners PROVE ActsOnVerdict(x)'
    BY TaskSets, UnmovedRunner
<1>2. ASSUME NEW o \in Operators PROVE StandsBy(o)'
    BY TaskSets, UnmovedOperator
<1> QED BY <1>1, <1>2 DEF OneVerdict

LEMMA SameStore ==
    ASSUME UNCHANGED <<call, decision>> PROVE StoreKept /\ \A t \in Tickets : Filed(t)' = Filed(t)
BY DEF StoreKept, Filed

LEMMA SameOutcome ==
    ASSUME OneVerdict, UNCHANGED <<call, decision, result, received>>
    PROVE  \A t \in Tickets : OutcomeIsApproved(t)'
BY SameStore, KeptTicket

\* The task x moves, and the tickets do not.
LEMMA LocalKeeps ==
    ASSUME OneVerdict, OneRun', UNCHANGED <<call, decision, result, received>>, NEW x \in Tasks,
           \A y \in Tasks \ {x} : Unmoved(y),
           x \in Runners => ActsOnVerdict(x)',
           x \in Operators => StandsBy(x)'
    PROVE  OneVerdict'
<1>1. StoreKept /\ (\A t \in Tickets : Filed(t)' = Filed(t)) /\ (\A t \in Tickets : OutcomeIsApproved(t)')
    BY SameStore, SameOutcome
<1>2. {x} \in SUBSET Tasks /\ \A c \in Calls \ {x} : Filed(c)' = Filed(c)
    BY <1>1, TaskSets
<1> QED BY <1>1, <1>2, MoveKeeps

\* Tasks that end without a denial or a verdict have nothing left to stand for.
LEMMA LeftTask ==
    ASSUME OneVerdict, NEW X \in SUBSET Tasks, NEW r, Leave(X, r), r.kind \notin {"denied", "recorded"}
    PROVE  /\ \A x \in X : (x \in Runners => ActsOnVerdict(x)') /\ (x \in Operators => StandsBy(x)')
           /\ \A y \in Tasks \ X : Unmoved(y)
<1>1. \A y \in Tasks \ X : Unmoved(y)
    BY DEF Leave, Unmoved
<1>2. \A x \in X : /\ pc'[x] \in {"idle", "done"} /\ ctx'[x] = NoCtx
                   /\ reply'[x] = r
    BY DEF Leave
<1>3. ~NoCtx.note
    BY DEF NoCtx
<1>4. \A x \in X : ActsOnVerdict(x)' /\ StandsBy(x)'
    BY <1>2, <1>3 DEF ActsOnVerdict, StandsBy, Proceeds, Executes
<1> QED BY <1>1, <1>4

LEMMA LeaveKeeps ==
    ASSUME OneVerdict, OneRun', NEW X \in SUBSET Tasks, NEW r, Leave(X, r),
           r.kind \notin {"denied", "recorded"}, UNCHANGED <<call, decision>>,
           \A t \in Tickets : OutcomeIsApproved(t)'
    PROVE  OneVerdict'
BY LeftTask, SameStore, MoveKeeps, TaskSets

LEMMA OneVerdictInit == Init => OneVerdict
<1> SUFFICES ASSUME Init PROVE OneVerdict
    OBVIOUS
<1>1. OneRun
    BY OneRunInit
<1>2. \A x \in Runners : ActsOnVerdict(x)
    BY TaskSets DEF Init, ActsOnVerdict, Proceeds, Executes, Say, NoCtx
<1>3. \A o \in Operators : StandsBy(o)
    BY TaskSets DEF Init, StandsBy, Say
<1>4. \A t \in Tickets : OutcomeIsApproved(t)
    <2>1. DOMAIN <<>> = {}
        OBVIOUS
    <2> QED BY <2>1, TaskSets DEF Init, StoreInit, OutcomeIsApproved, Filed
<1> QED BY <1>1, <1>2, <1>3, <1>4 DEF OneVerdict

\* The waiter of a call, from the filing to the verdict.
LEMMA WaiterKeeps ==
    ASSUME OneVerdict, OneRun', NEW c \in Calls,
           Wait(c) \/ Reread(c) \/ Check(c) \/ WakeBySignal(c) \/ WakeByTimer(c) \/ YieldToOperator(c)
    PROVE  OneVerdict'
<1> USE TaskSets DEF storeVars, locals, world
<1>1. UNCHANGED <<call, decision, result, received>>
    BY DEF Wait, Reread, Check, WakeBySignal, WakeByTimer, YieldToOperator
<1>2. Typed /\ TaskTypeOK /\ ActsOnVerdict(c) /\ target[c] = c
    BY DEF OneVerdict, OneRun, Typed, TypeOK, TaskTypeOK
<1>3. /\ \A y \in Tasks \ {c} : Unmoved(y)
      /\ target'[c] = c /\ ctx'[c] = ctx[c] /\ reply'[c] = reply[c]
    BY <1>2 DEF Wait, Reread, Check, WakeBySignal, WakeByTimer, YieldToOperator, Goto, TaskTypeOK, Unmoved
<1>4. \/ pc[c] = "filed" /\ pc'[c] = "await"
      \/ pc[c] = "await" /\ pc'[c] = "check" /\ seen'[c] = decision[c]
      \/ pc[c] = "check" /\ pc'[c] = "enforce" /\ seen'[c] = seen[c] /\ seen[c].status # "pending"
      \/ pc[c] = "check" /\ pc'[c] = "expire" /\ seen'[c] = TimedOut
      \/ pc[c] = "check" /\ pc'[c] = "sleep"
      \/ pc[c] = "sleep" /\ pc'[c] = "await"
      \/ pc[c] = "reread" /\ pc'[c] = "enforce" /\ seen'[c] = decision[c]
    BY <1>2 DEF Wait, Reread, Check, WakeBySignal, WakeByTimer, YieldToOperator, Goto, At, TaskTypeOK
<1>5. ActsOnVerdict(c)'
    BY <1>1, <1>2, <1>3, <1>4 DEF ActsOnVerdict, Proceeds, Executes, Filed
<1> QED BY <1>1, <1>3, <1>5, LocalKeeps

\* The timeout is a verdict only if it is the first.
LEMMA ExpireKeeps ==
    ASSUME OneVerdict, OneRun', NEW c \in Calls, Expire(c) PROVE OneVerdict'
<1> USE TaskSets DEF storeVars, locals, world
<1>1. /\ Typed /\ TaskTypeOK /\ StoreTypeOK /\ ActsOnVerdict(c) /\ target[c] = c
      /\ pc[c] = "expire" /\ Filed(c) /\ seen[c] = TimedOut
    BY DEF OneVerdict, OneRun, Typed, TypeOK, TaskTypeOK, ClaimIsTheRun, ActsOnVerdict, Expire, At
<1>2. /\ \A y \in Tasks \ {c} : Unmoved(y)
      /\ target'[c] = c /\ ctx'[c] = ctx[c] /\ reply'[c] = reply[c] /\ seen'[c] = seen[c]
      /\ UNCHANGED <<call, result, received>>
    BY <1>1 DEF Expire, Decide, Goto, TaskTypeOK, Unmoved
<1>3. CASE DecideWins(c)
    <2>1. /\ decision[c].status = "pending" /\ decision'[c] = TimedOut /\ pc'[c] = "enforce"
          /\ \A t \in Tickets \ {c} : decision'[t] = decision[t]
        BY <1>1, <1>3 DEF Expire, DecideWins, Decide, Goto, TaskTypeOK, StoreTypeOK
    <2>2. StoreKept /\ \A t \in Tickets : Filed(t)' = Filed(t)
        BY <1>2, <2>1 DEF StoreKept, Filed
    <2>3. \A t \in Tickets : OutcomeIsApproved(t)'
        BY <1>2, <2>2, KeptTicket
    <2>4. reply[c].kind # "denied" /\ ~ctx[c].note /\ ctx[c].args = call[c]
        BY <1>1, <2>1 DEF ActsOnVerdict
    <2>5. ActsOnVerdict(c)'
        BY <1>1, <1>2, <2>1, <2>4 DEF ActsOnVerdict, Proceeds, Executes, TimedOut
    <2>6. {c} \in SUBSET Tasks /\ \A y \in Calls \ {c} : Filed(y)' = Filed(y)
        BY <2>2
    <2> QED BY <1>2, <2>2, <2>3, <2>5, <2>6, MoveKeeps
<1>4. CASE ~DecideWins(c)
    <2>1. /\ UNCHANGED <<call, decision>> /\ pc'[c] = "reread" /\ decision[c].status # "pending"
        BY <1>1, <1>4 DEF Expire, DecideWins, Goto, TaskTypeOK
    <2>2. ActsOnVerdict(c)'
        BY <1>1, <1>2, <2>1 DEF ActsOnVerdict, Proceeds, Executes, Filed
    <2> QED BY <1>2, <2>1, <2>2, LocalKeeps
<1> QED BY <1>3, <1>4

\* A call at its start: ungated, or filed as a ticket without a verdict.
LEMMA PassKeeps ==
    ASSUME OneVerdict, OneRun', NEW c \in Calls, PassUngated(c) PROVE OneVerdict'
<1> USE TaskSets DEF storeVars, locals, world
<1>1. /\ Typed /\ TaskTypeOK /\ ActsOnVerdict(c) /\ target[c] = c /\ pc[c] = "start" /\ ~Filed(c)
    BY DEF OneVerdict, OneRun, Typed, TypeOK, TaskTypeOK, ClaimIsTheRun, PassUngated, At
<1>2. /\ \A y \in Tasks \ {c} : Unmoved(y)
      /\ target'[c] = c /\ reply'[c] = reply[c] /\ pc'[c] = "run"
      /\ UNCHANGED <<call, decision, result, received>>
    BY <1>1 DEF PassUngated, Goto, TaskTypeOK, Unmoved
<1>3. ~Gated(c)'
    BY <1>1, <1>2 DEF Gated, Filed
<1>4. ActsOnVerdict(c)'
    BY <1>1, <1>2, <1>3 DEF ActsOnVerdict, Proceeds, Executes
<1> QED BY <1>2, <1>4, LocalKeeps

LEMMA FileKeeps ==
    ASSUME OneVerdict, OneRun', NEW c \in Calls, FileTicket(c) PROVE OneVerdict'
<1> USE TaskSets DEF storeVars, locals, world
<1>1. /\ Typed /\ TaskTypeOK /\ StoreTypeOK /\ ActsOnVerdict(c) /\ target[c] = c
      /\ pc[c] = "start" /\ ~Filed(c) /\ received[c] = <<>>
    BY DEF OneVerdict, OneRun, Typed, TypeOK, TaskTypeOK, ClaimIsTheRun, FileTicket, At
<1>2. PICK a \in Args : Create(c, a) /\ ctx' = [ctx EXCEPT ![c] = [@ EXCEPT !.args = a]]
    BY DEF FileTicket
<1>3. ctx'[c].args = a /\ ctx'[c].note = ctx[c].note /\ \A y \in Tasks \ {c} : ctx'[y] = ctx[y]
    <2> DEFINE k == [ctx[c] EXCEPT !.args = a]
    <2>1. k.args = a /\ k.note = ctx[c].note
        BY <1>1 DEF TaskTypeOK, Ctxs
    <2>2. ctx' = [ctx EXCEPT ![c] = k]
        BY <1>2
    <2> HIDE DEF k
    <2> QED BY <1>1, <2>1, <2>2 DEF TaskTypeOK
<1>4. /\ \A y \in Tasks \ {c} : Unmoved(y)
      /\ target'[c] = c /\ reply'[c] = reply[c] /\ pc'[c] = "filed"
      /\ UNCHANGED <<result, received>>
    BY <1>1, <1>2, <1>3 DEF FileTicket, Create, Goto, TaskTypeOK, Unmoved
<1>5. /\ call'[c] = a
      /\ \A t \in Tickets \ {c} : call'[t] = call[t] /\ decision'[t] = decision[t]
    BY <1>1, <1>2 DEF Create, StoreTypeOK
<1>6. StoreKept /\ \A t \in Tickets \ {c} : Filed(t)' = Filed(t)
    BY <1>1, <1>5 DEF StoreKept, Filed
<1>7. \A t \in Tickets : OutcomeIsApproved(t)'
    BY <1>1, <1>4, <1>6, KeptTicket
<1>8. ActsOnVerdict(c)'
    BY <1>1, <1>3, <1>4, <1>5 DEF ActsOnVerdict, Proceeds, Executes
<1>9. {c} \in SUBSET Tasks
    OBVIOUS
<1> QED BY <1>4, <1>6, <1>7, <1>8, <1>9, MoveKeeps

\* A resume starts from the verdict on the ticket and the call as it was filed.
LEMMA ResumeKeeps ==
    ASSUME OneVerdict, OneRun', NEW x \in Resumes, NEW t \in Tickets, StartResume(x, t) PROVE OneVerdict'
<1> USE TaskSets DEF storeVars, locals, world
<1>1. Typed /\ TaskTypeOK /\ StoreTypeOK /\ ActsOnVerdict(x) /\ pc[x] = "idle" /\ ~ctx[x].note
    BY DEF OneVerdict, OneRun, Typed, TypeOK, ActsOnVerdict, StartResume, At
<1>2. UNCHANGED <<call, decision, result, received>> /\ target'[x] = t
    BY <1>1 DEF StartResume, TaskTypeOK
<1>3. CASE result[t] # None \/ decision[t].status = "pending"
    <2>1. \A y \in Tasks \ {x} : Unmoved(y)
        BY <1>1, <1>3 DEF StartResume, Unmoved, TaskTypeOK
    <2>2. pc'[x] = "idle" /\ ctx'[x] = ctx[x] /\ reply'[x].kind # "denied"
        BY <1>1, <1>3 DEF StartResume, TaskTypeOK, StoreTypeOK, Results, Say
    <2>3. ActsOnVerdict(x)'
        BY <1>1, <1>2, <2>2 DEF ActsOnVerdict, Proceeds, Executes
    <2> QED BY <1>2, <2>1, <2>3, LocalKeeps
<1>4. CASE ~(result[t] # None \/ decision[t].status = "pending")
    <2>0. ctx' = [ctx EXCEPT ![x] = [@ EXCEPT !.args = call[t]]]
        BY <1>4 DEF StartResume
    <2>1. ctx'[x].args = call[t] /\ ctx'[x].note = ctx[x].note /\ \A y \in Tasks \ {x} : ctx'[y] = ctx[y]
        <3> DEFINE k == [ctx[x] EXCEPT !.args = call[t]]
        <3>1. k.args = call[t] /\ k.note = ctx[x].note
            BY <1>1 DEF TaskTypeOK, Ctxs
        <3>2. ctx' = [ctx EXCEPT ![x] = k]
            BY <2>0
        <3> HIDE DEF k
        <3> QED BY <1>1, <3>1, <3>2 DEF TaskTypeOK
    <2>2. \A y \in Tasks \ {x} : Unmoved(y)
        BY <1>1, <1>4, <2>1 DEF StartResume, Unmoved, TaskTypeOK, Goto
    <2>3. pc'[x] = "regrant" /\ seen'[x] = decision[t] /\ reply'[x].kind # "denied" /\ decision[t].status # "pending"
        BY <1>1, <1>4 DEF StartResume, TaskTypeOK, Say, Goto
    <2>4. ActsOnVerdict(x)'
        BY <1>1, <1>2, <2>1, <2>3 DEF ActsOnVerdict, Proceeds, Executes
    <2> QED BY <1>2, <2>2, <2>4, LocalKeeps
<1> QED BY <1>3, <1>4

LEMMA RegrantKeeps ==
    ASSUME OneVerdict, OneRun', NEW x \in Resumes, Regrant(x) PROVE OneVerdict'
<1> USE TaskSets DEF storeVars, locals, world
<1>1. TaskTypeOK /\ ActsOnVerdict(x) /\ pc[x] = "regrant" /\ UNCHANGED <<call, decision, result, received>>
    BY DEF OneVerdict, OneRun, Typed, TypeOK, Regrant, At
<1>2. CASE End(x, Say("refused"))
    BY <1>1, <1>2, SameOutcome, LeaveKeeps DEF End, Say
<1>3. CASE Goto(x, "enforce") /\ UNCHANGED locals
    <2>1. ActsOnVerdict(x)'
        BY <1>1, <1>3 DEF ActsOnVerdict, Goto, TaskTypeOK, Proceeds, Executes, Filed
    <2>2. \A y \in Tasks \ {x} : Unmoved(y)
        BY <1>1, <1>3 DEF Unmoved, Goto, TaskTypeOK
    <2> QED BY <1>1, <2>1, <2>2, LocalKeeps
<1> QED BY <1>2, <1>3 DEF Regrant

\* The verdict is enforced as it was read, and it still stands.
LEMMA DenyKeeps ==
    ASSUME OneVerdict, OneRun', NEW x \in Runners, Deny(x) PROVE OneVerdict'
<1> USE TaskSets DEF storeVars, locals, world
<1>1. /\ TaskTypeOK /\ ActsOnVerdict(x) /\ pc[x] = "enforce" /\ UNCHANGED <<call, decision, result, received>>
      /\ seen[x].status # "approved" /\ target[x] \in Tickets /\ Filed(target[x])
    BY AtWorkIsFiled DEF OneVerdict, OneRun, Typed, TypeOK, Deny, At
<1>2. pc'[x] \in {"idle", "done"} /\ target'[x] = target[x] /\ ctx'[x] = NoCtx
    BY DEF Deny, End, Leave
<1>3. ~NoCtx.note
    BY DEF NoCtx
<1>4. ActsOnVerdict(x)'
    BY <1>1, <1>2, <1>3 DEF ActsOnVerdict, Proceeds, Executes, Filed
<1>5. \A y \in Tasks \ {x} : Unmoved(y)
    BY DEF Deny, End, Leave, Unmoved
<1> QED BY <1>1, <1>4, <1>5, LocalKeeps

LEMMA AdoptKeeps ==
    ASSUME OneVerdict, OneRun', NEW x \in Runners, Adopt(x) PROVE OneVerdict'
<1> USE TaskSets DEF storeVars, locals, world
<1> DEFINE t == target[x]
           k == IF EditOf(ctx[x].args, seen[x])
                THEN [ctx[x] EXCEPT !.args = seen[x].edit, !.note = TRUE] ELSE ctx[x]
<1>1. /\ TaskTypeOK /\ ActsOnVerdict(x) /\ pc[x] = "enforce" /\ UNCHANGED <<call, decision, result, received>>
      /\ seen[x].status = "approved" /\ seen[x] = decision[t] /\ ctx[x].args = call[t] /\ ~ctx[x].note
    BY DEF OneVerdict, OneRun, Typed, TypeOK, Adopt, At, ActsOnVerdict
<1>2. k.args = ApprovedArgs(t) /\ (k.note <=> Edited(t))
    BY <1>1 DEF TaskTypeOK, Ctxs, EditOf, ApprovedArgs, Edited
<1>3. ctx' = [ctx EXCEPT ![x] = k]
    BY DEF Adopt
<1> HIDE DEF k
<1>4. /\ ctx'[x] = k /\ pc'[x] = "claim" /\ target'[x] = t /\ reply'[x] = reply[x]
      /\ \A y \in Tasks \ {x} : Unmoved(y)
    BY <1>1, <1>3 DEF Adopt, Goto, TaskTypeOK, Unmoved
<1>5. ActsOnVerdict(x)'
    BY <1>1, <1>2, <1>4 DEF ActsOnVerdict, Proceeds, Executes, ApprovedArgs, Edited, Filed
<1> QED BY <1>1, <1>4, <1>5, LocalKeeps

\* The outcome of one ticket changes.
LEMMA OneTicketChanges ==
    ASSUME OneVerdict, UNCHANGED <<call, decision>>, NEW t \in Tickets, OutcomeIsApproved(t)',
           \A u \in Tickets \ {t} : result'[u] = result[u] /\ received'[u] = received[u]
    PROVE  \A u \in Tickets : OutcomeIsApproved(u)'
<1> SUFFICES ASSUME NEW u \in Tickets \ {t} PROVE OutcomeIsApproved(u)'
    OBVIOUS
<1>1. StoreKept /\ Filed(u)' = Filed(u)
    BY SameStore
<1>2. result'[u] = result[u] /\ received'[u] = received[u]
    OBVIOUS
<1> QED BY <1>1, <1>2, KeptTicket

LEMMA SameVerdict ==
    ASSUME UNCHANGED <<call, decision>>
    PROVE  \A t \in Tickets : Filed(t)' = Filed(t) /\ ApprovedArgs(t)' = ApprovedArgs(t) /\ Edited(t)' = Edited(t)
BY DEF Filed, ApprovedArgs, Edited, EditOf

\* run_once: only an approved call is claimed, closed, dispatched and reported.
LEMMA ClaimKeeps ==
    ASSUME OneVerdict, OneRun', NEW x \in Runners, TakeClaim(x) \/ AnswerStored(x) PROVE OneVerdict'
<1> USE TaskSets DEF storeVars, locals, world
<1>1. /\ TaskTypeOK /\ StoreTypeOK /\ ActsOnVerdict(x) /\ pc[x] \in {"claim", "lost"}
      /\ target[x] \in Tickets
      /\ UNCHANGED <<call, decision, result, received>>
    BY AtWorkIsFiled DEF OneVerdict, OneRun, Typed, TypeOK, TakeClaim, AnswerStored, At, Claim
<1>2. CASE AnswerStored(x) /\ result[target[x]] # None
    <2>1. result[target[x]].kind \notin {"denied", "recorded"}
        BY <1>1, <1>2 DEF StoreTypeOK, Results
    <2> QED BY <1>1, <1>2, <2>1, SameOutcome, LeaveKeeps DEF AnswerStored, End
<1>3. CASE TakeClaim(x) \/ result[target[x]] = None
    <2>1. /\ \A y \in Tasks \ {x} : Unmoved(y)
          /\ target'[x] = target[x] /\ ctx'[x] = ctx[x] /\ reply'[x] = reply[x]
          /\ \/ pc[x] = "claim" /\ pc'[x] \in {"run", "lost"}
             \/ pc[x] = "lost" /\ pc'[x] = "stale"
        BY <1>1, <1>3 DEF TakeClaim, AnswerStored, At, Goto, TaskTypeOK, Unmoved
    <2>2. Gated(x)' = Gated(x)
        BY <1>1 DEF Gated, Filed
    <2>3. ActsOnVerdict(x)'
        BY <1>1, <2>1, <2>2 DEF ActsOnVerdict, Proceeds, Executes, ApprovedArgs, Edited, Filed
    <2> QED BY <1>1, <2>1, <2>3, LocalKeeps
<1> QED BY <1>2, <1>3

LEMMA CloseKeeps ==
    ASSUME OneVerdict, OneRun', NEW x \in Runners, CloseOrLeave(x) PROVE OneVerdict'
<1> USE TaskSets DEF storeVars, locals, world
<1>0. PICK t \in Tickets : t = target[x]
    BY AtWorkIsFiled DEF OneVerdict, CloseOrLeave, At
<1>1. /\ StoreTypeOK /\ Filed(t) /\ decision[t].status = "approved"
      /\ UNCHANGED <<call, decision, received>>
    BY <1>0, AtWorkIsFiled
    DEF OneVerdict, OneRun, Typed, TypeOK, CloseOrLeave, CloseStaleClaim, At, ActsOnVerdict, Proceeds
<1>3. CASE CloseStaleClaimWins(t)
    <2>1. /\ result'[t] = Interrupted /\ \A u \in Tickets \ {t} : result'[u] = result[u]
          /\ End(x, Interrupted)
        BY <1>0, <1>1, <1>3 DEF CloseOrLeave, CloseStaleClaim, StoreTypeOK
    <2>2. OutcomeIsApproved(t)
        BY <1>1 DEF OneVerdict
    <2>3. OutcomeIsApproved(t)'
        BY <1>1, <2>1, <2>2, SameVerdict DEF OutcomeIsApproved, Interrupted
    <2>5. \A u \in Tickets : OutcomeIsApproved(u)'
        BY <1>1, <2>1, <2>3, OneTicketChanges
    <2>4. {x} \in SUBSET Tasks /\ Interrupted.kind \notin {"denied", "recorded"}
        BY DEF Interrupted
    <2> QED BY <1>1, <2>1, <2>4, <2>5, LeaveKeeps DEF End
<1>4. CASE ~CloseStaleClaimWins(t)
    <2>1. End(x, Say("pending")) /\ UNCHANGED result
        BY <1>0, <1>4 DEF CloseOrLeave
    <2> QED BY <1>1, <2>1, SameOutcome, LeaveKeeps DEF End, Say
<1> QED BY <1>3, <1>4

\* The end of an execution: the outcome carries the note of the edit, or is an error.
LEMMA FinishKeeps ==
    ASSUME OneVerdict, OneRun', StoreKept, UNCHANGED <<call, decision>>,
           NEW x \in Runners, pc[x] = "run", NEW r \in Results, Finish(x, r),
           Gated(x) /\ r.kind = "ok" => r.note = ctx[x].note,
           \A t \in Tickets : OutcomeIsApproved(t)'
    PROVE  OneVerdict'
<1> USE TaskSets
<1>1. TaskTypeOK /\ ActsOnVerdict(x) /\ \A t \in Tickets : Filed(t)' = Filed(t)
    BY SameStore DEF OneVerdict, OneRun, Typed, TypeOK
<1>2. CASE ~Gated(x)
    <2>1. r.kind \notin {"denied", "recorded"}
        BY DEF Results
    <2> QED BY <1>2, <2>1, LeaveKeeps DEF Finish, End
<1>3. CASE Gated(x)
    <2>1. /\ pc' = [pc EXCEPT ![x] = "report"] /\ UNCHANGED <<target, seen, reply>>
          /\ ctx' = [ctx EXCEPT ![x] = [@ EXCEPT !.outcome = r]]
        BY <1>3 DEF Finish, Goto
    <2>2. ctx'[x].outcome = r /\ \A y \in Tasks \ {x} : ctx'[y] = ctx[y]
        <3> DEFINE k == [ctx[x] EXCEPT !.outcome = r]
        <3>1. k.outcome = r
            BY <1>1 DEF TaskTypeOK, Ctxs
        <3>2. ctx' = [ctx EXCEPT ![x] = k]
            BY <2>1
        <3> HIDE DEF k
        <3> QED BY <1>1, <3>1, <3>2 DEF TaskTypeOK
    <2>3. /\ \A y \in Tasks \ {x} : Unmoved(y)
          /\ pc'[x] = "report" /\ target'[x] = target[x] /\ reply'[x] = reply[x] /\ Gated(x)'
        BY <1>1, <1>3, <2>1, <2>2 DEF TaskTypeOK, Unmoved, Gated, Runners
    <2>4. /\ decision[target[x]].status = "approved" /\ (ctx[x].note <=> Edited(target[x]))
          /\ reply[x].kind # "denied"
        BY <1>1, <1>3 DEF ActsOnVerdict, Proceeds, Executes
    <2>5. ActsOnVerdict(x)'
        BY <1>3, <2>2, <2>3, <2>4 DEF ActsOnVerdict, Proceeds, Executes, Edited
    <2>6. {x} \in SUBSET Tasks /\ x \notin Operators
        OBVIOUS
    <2> QED BY <1>1, <2>3, <2>5, <2>6, MoveKeeps
<1> QED BY <1>2, <1>3

LEMMA FailKeeps ==
    ASSUME OneVerdict, OneRun', NEW x \in Runners, FailBeforeUpstream(x) PROVE OneVerdict'
<1>1. UNCHANGED <<call, decision, result, received>> /\ pc[x] = "run" /\ Finish(x, Say("error"))
    BY DEF FailBeforeUpstream, At, storeVars, world
<1>2. Say("error") \in Results /\ Say("error").kind # "ok"
    BY ValueTypes DEF Say
<1> QED BY <1>1, <1>2, SameStore, SameOutcome, FinishKeeps

LEMMA DispatchKeeps ==
    ASSUME OneVerdict, OneRun', NEW x \in Runners, Dispatch(x) PROVE OneVerdict'
<1> USE TaskSets
<1>1. /\ Typed /\ TaskTypeOK /\ WorldTypeOK /\ ActsOnVerdict(x) /\ pc[x] = "run"
      /\ UNCHANGED <<call, decision, result>>
    BY DEF OneVerdict, OneRun, Typed, TypeOK, Dispatch, At, storeVars
<1>0. PICK t \in Tickets : t = target[x]
    BY <1>1, RunnerAtWork DEF InFlight
<1>2. ctx[x] \in Ctxs /\ ctx[x].args \in Args /\ (Gated(x) <=> Filed(t))
    BY <1>0, <1>1, RunnerAtWork DEF InFlight, Gated, TaskTypeOK, Runners
<1>3. received' = [received EXCEPT ![t] = Append(@, ctx[x].args)]
    BY <1>0 DEF Dispatch
<1>4. StoreKept
    BY <1>1, SameStore
<1>5. \A u \in Tickets \ {t} : received'[u] = received[u]
    BY <1>1, <1>3 DEF WorldTypeOK
<1>6. OutcomeIsApproved(t)'
    <2>1. Filed(t)' => /\ decision[t].status = "approved" /\ ctx[x].args = ApprovedArgs(t)
                       /\ Filed(t) /\ received[t] = <<>>
        <3>1. Gated(x) => Executes(x)
            BY <1>1 DEF Executes
        <3>2. Executes(x) => received[t] = <<>>
            BY <1>0, <1>1 DEF OneVerdict, OneRun, ClaimIsTheRun
        <3>3. Gated(x) => decision[t].status = "approved" /\ ctx[x].args = ApprovedArgs(t)
            BY <1>0, <1>1, <3>1 DEF ActsOnVerdict, Proceeds
        <3> QED BY <1>1, <1>2, <3>1, <3>2, <3>3, SameVerdict
    <2>2. received[t] = <<>> => received'[t] = <<ctx[x].args>>
        BY <1>1, <1>2, <1>3 DEF WorldTypeOK
    <2>3. OutcomeIsApproved(t)
        BY <1>2 DEF OneVerdict
    <2>4. \A i \in DOMAIN <<ctx[x].args>> : <<ctx[x].args>>[i] = ctx[x].args
        OBVIOUS
    <2>5. Filed(t)' => \A i \in DOMAIN received'[t] : received'[t][i] = ApprovedArgs(t)
        BY <2>1, <2>2, <2>4
    <2> QED BY <1>1, <1>2, <2>1, <2>3, <2>5, SameVerdict DEF OutcomeIsApproved
<1>7. PICK r \in Results : Finish(x, r) /\ (r.kind = "ok" => r.note = ctx[x].note)
    <2>1. [kind |-> "ok", note |-> ctx[x].note] \in Results /\ Say("error") \in Results /\ Say("error").kind # "ok"
        BY <1>2, ValueTypes, NoteIsBoolean DEF Say
    <2> QED BY <2>1 DEF Dispatch
<1>8. \A u \in Tickets : OutcomeIsApproved(u)'
    BY <1>1, <1>2, <1>5, <1>6, OneTicketChanges
<1> QED BY <1>1, <1>4, <1>7, <1>8, FinishKeeps

LEMMA ReportKeeps ==
    ASSUME OneVerdict, OneRun', NEW x \in Runners, Report(x) PROVE OneVerdict'
<1> USE TaskSets
<1>1. /\ Typed /\ StoreTypeOK /\ TaskTypeOK /\ ActsOnVerdict(x) /\ pc[x] = "report"
      /\ UNCHANGED <<call, decision, received>>
    BY DEF OneVerdict, OneRun, Typed, TypeOK, Report, At, Complete, world
<1>0. PICK t \in Tickets : t = target[x]
    BY <1>1, RunnerAtWork DEF InFlight
<1>2. Filed(t) /\ Gated(x) /\ ctx[x].outcome \in Results
    BY <1>0, <1>1, AtWorkIsFiled, RunnerAtWork DEF InFlight, OneVerdict, TaskTypeOK, Gated, Runners
<1>3. /\ decision[t].status = "approved"
      /\ ctx[x].outcome.kind = "ok" => (ctx[x].outcome.note <=> Edited(t))
    BY <1>0, <1>1, <1>2 DEF ActsOnVerdict, Proceeds, Executes
<1>4. result'[t] = ctx[x].outcome /\ \A u \in Tickets \ {t} : result'[u] = result[u]
    BY <1>0, <1>1, <1>2 DEF Report, Complete, StoreTypeOK
<1>5. OutcomeIsApproved(t)
    BY <1>2 DEF OneVerdict
<1>6. OutcomeIsApproved(t)'
    <2>1. Filed(t)' /\ ApprovedArgs(t)' = ApprovedArgs(t) /\ Edited(t)' = Edited(t)
        BY <1>1, <1>2, SameVerdict
    <2>2. decision'[t].status = "approved"
        BY <1>1, <1>3
    <2>3. result'[t].kind = "ok" => (result'[t].note <=> Edited(t)')
        BY <1>3, <1>4, <2>1
    <2>4. \A i \in DOMAIN received'[t] : decision'[t].status = "approved" /\ received'[t][i] = ApprovedArgs(t)'
        BY <1>1, <1>2, <1>5, <2>1 DEF OutcomeIsApproved
    <2> QED BY <2>1, <2>2, <2>3, <2>4 DEF OutcomeIsApproved
<1>8. \A u \in Tickets : OutcomeIsApproved(u)'
    BY <1>1, <1>2, <1>4, <1>6, OneTicketChanges
<1>7. /\ {x} \in SUBSET Tasks /\ Leave({x}, ctx[x].outcome)
      /\ ctx[x].outcome.kind \notin {"denied", "recorded"}
    BY <1>2 DEF Report, End, Results
<1> QED BY <1>1, <1>7, <1>8, LeaveKeeps

\* An operator: the verdict it brings is recorded only on a pending ticket.
LEMMA OperatorKeeps ==
    ASSUME OneVerdict, OneRun', NEW o \in Operators,
           (\E t \in Tickets, d \in Verdicts : StartDecide(o, t, d)) \/ Signal(o) \/ Audit(o)
    PROVE  OneVerdict'
<1> USE TaskSets DEF storeVars, locals, world
<1>1. /\ TaskTypeOK /\ StandsBy(o) /\ UNCHANGED <<call, decision, result, received>>
    BY DEF OneVerdict, OneRun, Typed, TypeOK, StartDecide, Signal, Audit
<1>2. \A y \in Tasks \ {o} : Unmoved(y)
    BY <1>1 DEF StartDecide, Signal, Audit, End, Leave, Goto, TaskTypeOK, Unmoved
<1>3. \/ pc'[o] = "decide" /\ seen'[o].status # "pending" /\ reply'[o].kind = "none"
      \/ pc[o] = "signal" /\ pc'[o] = "audit" /\ UNCHANGED <<target, seen, reply>>
      \/ pc[o] = "audit" /\ pc'[o] = "idle" /\ target' = target /\ seen'[o] = seen[o]
    BY <1>1 DEF StartDecide, Signal, Audit, At, End, Leave, Goto, TaskTypeOK, Say, Verdicts
<1>4. StandsBy(o)'
    BY <1>1, <1>3 DEF StandsBy, Filed
<1> QED BY <1>1, <1>2, <1>4, LocalKeeps

LEMMA RecordKeeps ==
    ASSUME OneVerdict, OneRun', NEW o \in Operators, RecordVerdict(o) PROVE OneVerdict'
<1> USE TaskSets DEF storeVars, locals, world
<1>1. /\ TaskTypeOK /\ StoreTypeOK /\ WorkIsSound /\ StandsBy(o) /\ pc[o] = "decide" /\ seen[o].status # "pending"
      /\ UNCHANGED <<call, result, received>>
    BY DEF OneVerdict, OneRun, Typed, TypeOK, RecordVerdict, Decide, At, StandsBy
<1>2. PICK t \in Tickets : t = target[o]
    BY <1>1 DEF WorkIsSound, InFlight
<1>3. CASE DecideWins(t)
    <2>1. /\ Filed(t) /\ decision[t].status = "pending" /\ decision'[t] = seen[o]
          /\ \A u \in Tickets \ {t} : decision'[u] = decision[u]
          /\ pc' = [pc EXCEPT ![o] = "signal"] /\ UNCHANGED locals
        BY <1>1, <1>2, <1>3 DEF RecordVerdict, DecideWins, Decide, Goto, StoreTypeOK
    <2>2. StoreKept /\ \A u \in Tickets : Filed(u)' = Filed(u)
        BY <1>1, <2>1 DEF StoreKept, Filed
    <2>3. \A u \in Tickets : OutcomeIsApproved(u)'
        BY <1>1, <2>2, KeptTicket
    <2>4. \A y \in Tasks \ {o} : Unmoved(y)
        BY <1>1, <2>1 DEF Unmoved, TaskTypeOK
    <2>5. StandsBy(o)'
        BY <1>1, <1>2, <2>1, <2>2 DEF StandsBy, TaskTypeOK
    <2>6. {o} \in SUBSET Tasks /\ o \notin Runners
        OBVIOUS
    <2> QED BY <2>2, <2>3, <2>4, <2>5, <2>6, MoveKeeps
<1>4. CASE ~DecideWins(t)
    <2>1. UNCHANGED decision /\ Leave({o}, Say("conflict"))
        BY <1>2, <1>4 DEF RecordVerdict, End
    <2>2. {o} \in SUBSET Tasks /\ Say("conflict").kind \notin {"denied", "recorded"}
        BY DEF Say
    <2> QED BY <1>1, <2>1, <2>2, SameOutcome, LeaveKeeps
<1> QED BY <1>3, <1>4

\* Tasks that are turned away, handed back, cancelled or lost with their replica.
LEMMA EndKeeps ==
    ASSUME OneVerdict, OneRun', NEW X \in SUBSET Tasks, NEW k \in {"refused", "pending", "lost"},
           Leave(X, Say(k)), UNCHANGED <<call, decision, result, received>>
    PROVE  OneVerdict'
<1>1. Say(k).kind \notin {"denied", "recorded"}
    BY DEF Say
<1> QED BY <1>1, SameOutcome, LeaveKeeps

\* The clock moves no task.
LEMMA ClockKeeps ==
    ASSUME OneVerdict, OneRun', UNCHANGED <<call, decision, result, received, pc, target, seen, ctx, reply>>
    PROVE  OneVerdict'
<1>1. {} \in SUBSET Tasks /\ \A y \in Tasks : Unmoved(y)
    BY DEF Unmoved
<1> QED BY <1>1, SameStore, SameOutcome, MoveKeeps, TaskSets

LEMMA OneVerdictNext == OneVerdict /\ [Next]_vars => OneVerdict'
<1> SUFFICES ASSUME OneVerdict, [Next]_vars PROVE OneVerdict'
    OBVIOUS
<1>1. OneRun'
    BY OneRunNext DEF OneVerdict
<1> USE <1>1
<1>2. ASSUME UNCHANGED vars PROVE OneVerdict'
    BY <1>2, ClockKeeps DEF vars, storeVars, locals, world
<1>3. ASSUME Request PROVE OneVerdict'
    <2>1. ASSUME NEW c \in Calls, TurnAway(c) PROVE OneVerdict'
        BY <2>1, EndKeeps, TaskSets DEF TurnAway, End, storeVars, world
    <2> QED BY <1>3, <2>1, PassKeeps, FileKeeps, ResumeKeeps, OperatorKeeps DEF Request
<1>4. ASSUME Work PROVE OneVerdict'
    <2>1. ASSUME NEW c \in Calls, HandBack(c) PROVE OneVerdict'
        BY <2>1, EndKeeps, TaskSets DEF HandBack, End, storeVars, world
    <2>2. ASSUME NEW c \in Calls, CallStep(c) PROVE OneVerdict'
        BY <2>1, <2>2, WaiterKeeps, ExpireKeeps DEF CallStep
    <2>3. ASSUME NEW x \in Runners, RunnerStep(x) PROVE OneVerdict'
        BY <2>3, DenyKeeps, AdoptKeeps, ClaimKeeps, CloseKeeps, FailKeeps, DispatchKeeps, ReportKeeps DEF RunnerStep
    <2>4. ASSUME NEW o \in Operators, OperatorStep(o) PROVE OneVerdict'
        BY <2>4, RecordKeeps, OperatorKeeps DEF OperatorStep
    <2> QED BY <1>4, <2>2, <2>3, <2>4, RegrantKeeps DEF Work
<1>5. ASSUME Clock PROVE OneVerdict'
    <2>1. ASSUME NEW c \in Calls, Deadline(c) PROVE OneVerdict'
        BY <2>1, ClockKeeps DEF Deadline, storeVars, locals
    <2>2. ASSUME NEW t \in Tickets, LeaseExpires(t) PROVE OneVerdict'
        BY <2>2, ClockKeeps DEF LeaseExpires, GrowStale, locals, world
    <2> QED BY <1>5, <2>1, <2>2, WaiterKeeps DEF Clock
<1>6. ASSUME Fault PROVE OneVerdict'
    <2>1. ASSUME NEW r \in Replicas, Crash(r) PROVE OneVerdict'
        <3>1. {x \in Tasks : Home[x] = r /\ InFlight(x)} \in SUBSET Tasks
            OBVIOUS
        <3> QED BY <2>1, <3>1, EndKeeps DEF Crash, storeVars
    <2>2. ASSUME NEW x \in Tasks, Abort(x) PROVE OneVerdict'
        BY <2>2, EndKeeps DEF Abort, End, storeVars
    <2> QED BY <1>6, <2>1, <2>2 DEF Fault
<1> QED BY <1>2, <1>3, <1>4, <1>5, <1>6 DEF Next

\* What a task holds of a verdict is the verdict of its ticket, in any execution.
THEOREM VerdictInvariant == Spec => []OneVerdict
BY OneVerdictInit, OneVerdictNext, PTL DEF Spec

\* A gated call that reaches the upstream was approved, and arrives with the
\* arguments of the approval: the edit if there is one, the filed call otherwise.
THEOREM RunsWhatWasApproved == Spec => []ExecutesWhatWasApproved
<1>1. OneVerdict => ExecutesWhatWasApproved
    BY TaskSets DEF OneVerdict, OutcomeIsApproved, ApprovedArgs, ExecutesWhatWasApproved
<1> QED BY <1>1, VerdictInvariant, PTL

\* A caller that heard a denial finds the call never run, whatever an operator, a
\* resume or a fault does afterwards.
THEOREM DeniedStaysDenied == Spec => []DeniedNeverRuns
<1>1. ASSUME OneVerdict PROVE DeniedNeverRuns
    <2>1. SUFFICES ASSUME NEW x \in Runners, reply[x].kind = "denied" PROVE received[target[x]] = <<>>
        BY DEF DeniedNeverRuns
    <2>2. PICK t \in Tickets : t = target[x] /\ Filed(t) /\ decision[t].status # "approved"
        BY <1>1, <2>1 DEF OneVerdict, ActsOnVerdict
    <2>3. received[t] \in Seq(Args)
        BY <1>1, TaskSets DEF OneVerdict, OneRun, Typed, TypeOK, WorldTypeOK
    <2>4. \A i \in DOMAIN received[t] : FALSE
        <3>1. OutcomeIsApproved(t)
            BY <1>1 DEF OneVerdict
        <3> QED BY <2>2, <3>1 DEF OutcomeIsApproved
    <2>5. Len(received[t]) = 0
        <3>1. Len(received[t]) \in Nat /\ DOMAIN received[t] = 1..Len(received[t])
            BY <2>3
        <3>2. Len(received[t]) > 0 => 1 \in 1..Len(received[t])
            BY <3>1
        <3> QED BY <2>4, <3>1, <3>2
    <2> QED BY <2>2, <2>3, <2>5
<1> QED BY <1>1, VerdictInvariant, PTL

\* An operator that was told its verdict is recorded finds it on the ticket ever
\* after: no other operator and no timeout of a waiter replaces it.
THEOREM VerdictStands == Spec => []RecordedStands
<1>1. OneVerdict => RecordedStands
    BY DEF OneVerdict, StandsBy, RecordedStands
<1> QED BY <1>1, VerdictInvariant, PTL

\* A stored success tells the agent of an edit exactly when the edit changed the
\* call, whichever task executed it.
THEOREM EditsDisclosed == Spec => []EditsAreDisclosed
<1>1. OneVerdict => EditsAreDisclosed
    BY DEF OneVerdict, OutcomeIsApproved, Edited, EditOf, EditsAreDisclosed
<1> QED BY <1>1, VerdictInvariant, PTL

--------------------------------------------------------------------------------
(* The outcome.                                                             *)

Outcomes == {"ok", "error", "interrupted"}

\* The step closes, claims and files nothing, and whoever is answered an outcome
\* gets the one that is stored, or has no ticket.
Plain ==
    /\ UNCHANGED <<call, claimed, stale, result>>
    /\ \A y \in Runners :
        /\ Executes(y)' => Executes(y) /\ target'[y] = target[y]
        /\ pc'[y] = "start" => pc[y] = "start" /\ reply'[y] = reply[y]
        /\ \/ reply'[y] = reply[y] /\ target'[y] = target[y]
           \/ reply'[y].kind \notin Outcomes
           \/ ~Gated(y)
           \/ reply'[y] = result[target'[y]]

LEMMA SameGate ==
    ASSUME UNCHANGED call
    PROVE  (\A t \in Tickets : Filed(t)' = Filed(t)) /\ (\A y \in Runners : Gated(y)' = Gated(y))
BY TaskSets DEF Filed, Gated, Runners

LEMMA PlainKeeps ==
    ASSUME OneOutcome, OneVerdict', Plain PROVE OneOutcome'
<1> USE TaskSets DEF Plain
<1>1. \A y \in Runners : Gated(y)' = Gated(y)
    BY SameGate
<1>2. ClosedByOne'
    BY DEF OneOutcome, ClosedByOne
<1>3. AnswersAgree'
    BY <1>1 DEF OneOutcome, AnswersAgree, Outcomes
<1> QED BY <1>2, <1>3 DEF OneOutcome

LEMMA PlainSteps ==
    ASSUME OneOutcome, [Next]_vars
    PROVE  \/ Plain
           \/ \E c \in Calls : FileTicket(c)
           \/ \E x \in Runners : TakeClaim(x) /\ ClaimWins(target[x])
           \/ \E x \in Runners : CloseOrLeave(x) /\ CloseStaleClaimWins(target[x])
           \/ \E x \in Runners : Report(x)
           \/ \E t \in Tickets : LeaseExpires(t)
<1> USE TaskSets, SameGate DEF TaskTypeOK, Plain, Outcomes, Executes, Goto, At, End, Leave, Say, storeVars, locals, world
<1>t. TaskTypeOK
    BY DEF OneOutcome, OneVerdict, OneRun, Typed, TypeOK
<1> USE <1>t
<1>0. CASE UNCHANGED vars
    BY <1>0 DEF vars
<1>1. ASSUME NEW c \in Calls, TurnAway(c) PROVE Plain
    BY <1>1 DEF TurnAway
<1>2. ASSUME NEW c \in Calls, HandBack(c) PROVE Plain
    BY <1>2 DEF HandBack
<1>3. ASSUME NEW c \in Calls, Wait(c) PROVE Plain
    BY <1>3 DEF Wait
<1>4. ASSUME NEW c \in Calls, Reread(c) PROVE Plain
    BY <1>4 DEF Reread
<1>5. ASSUME NEW c \in Calls, Check(c) PROVE Plain
    BY <1>5 DEF Check
<1>6. ASSUME NEW c \in Calls, WakeBySignal(c) PROVE Plain
    BY <1>6 DEF WakeBySignal
<1>7. ASSUME NEW c \in Calls, WakeByTimer(c) PROVE Plain
    BY <1>7 DEF WakeByTimer
<1>8. ASSUME NEW c \in Calls, Expire(c) PROVE Plain
    BY <1>8 DEF Expire, Decide
<1>9. ASSUME NEW c \in Calls, YieldToOperator(c) PROVE Plain
    BY <1>9 DEF YieldToOperator
<1>10. ASSUME NEW x \in Resumes, NEW t \in Tickets, StartResume(x, t) PROVE Plain
    BY <1>10 DEF StartResume
<1>11. ASSUME NEW x \in Resumes, Regrant(x) PROVE Plain
    BY <1>11 DEF Regrant
<1>12. ASSUME NEW x \in Runners, Deny(x) PROVE Plain
    BY <1>12 DEF Deny
<1>13. ASSUME NEW x \in Runners, Adopt(x) PROVE Plain
    BY <1>13 DEF Adopt
<1>14. ASSUME NEW x \in Runners, AnswerStored(x) PROVE Plain
    BY <1>14 DEF AnswerStored
<1>15. ASSUME NEW x \in Runners, CloseOrLeave(x), ~CloseStaleClaimWins(target[x]) PROVE Plain
    BY <1>15 DEF CloseOrLeave
<1>16. ASSUME NEW x \in Runners, FailBeforeUpstream(x) PROVE Plain
    BY <1>16 DEF FailBeforeUpstream, Finish
<1>17. ASSUME NEW x \in Runners, Dispatch(x) PROVE Plain
    BY <1>17 DEF Dispatch, Finish
<1>18. ASSUME NEW o \in Operators, NEW t \in Tickets, NEW d \in Verdicts, StartDecide(o, t, d) PROVE Plain
    BY <1>18 DEF StartDecide
<1>19. ASSUME NEW o \in Operators, RecordVerdict(o) PROVE Plain
    BY <1>19 DEF RecordVerdict, Decide
<1>20. ASSUME NEW o \in Operators, Signal(o) PROVE Plain
    BY <1>20 DEF Signal
<1>21. ASSUME NEW o \in Operators, Audit(o) PROVE Plain
    BY <1>21 DEF Audit
<1>22. ASSUME NEW c \in Calls, Deadline(c) PROVE Plain
    BY <1>22 DEF Deadline
<1>23. ASSUME NEW x \in Runners, TakeClaim(x), ~ClaimWins(target[x]) PROVE Plain
    BY <1>23 DEF TakeClaim
<1>24. ASSUME NEW r \in Replicas, Crash(r) PROVE Plain
    BY <1>24 DEF Crash
<1>25. ASSUME NEW x \in Tasks, Abort(x) PROVE Plain
    BY <1>25 DEF Abort
<1>26. ASSUME NEW c \in Calls, PassUngated(c) PROVE Plain
    <2>1. pc[c] = "start" /\ ~Filed(c)
        BY <1>26 DEF PassUngated, OneOutcome, OneVerdict, OneRun, ClaimIsTheRun
    <2> QED BY <1>26, <2>1 DEF PassUngated, Gated
<1> QED BY <1>0, <1>1, <1>2, <1>3, <1>4, <1>5, <1>6, <1>7, <1>8, <1>9, <1>10, <1>11, <1>12, <1>13, <1>14,
           <1>15, <1>16, <1>17, <1>18, <1>19, <1>20, <1>21, <1>22, <1>23, <1>24, <1>25, <1>26
        DEF Next, Request, Work, Clock, Fault, CallStep, RunnerStep, OperatorStep

LEMMA OneOutcomeInit == Init => OneOutcome
<1> SUFFICES ASSUME Init PROVE OneOutcome
    OBVIOUS
<1>1. ClosedByOne
    BY TaskSets DEF Init, StoreInit, ClosedByOne, Executes, Say
<1>2. AnswersAgree
    BY TaskSets DEF Init, AnswersAgree, Say
<1> QED BY <1>1, <1>2, OneVerdictInit DEF OneOutcome

\* An answered outcome is a result, so the ticket behind it is closed.
LEMMA AnsweredIsClosed ==
    ASSUME OneOutcome, NEW y \in Runners, reply[y].kind \in Outcomes, Gated(y)
    PROVE  result[target[y]] = reply[y] /\ result[target[y]] # None
<1>1. reply[y] \in Replies /\ result[target[y]] = reply[y]
    BY TaskSets DEF OneOutcome, OneVerdict, OneRun, Typed, TypeOK, TaskTypeOK, AnswersAgree, Outcomes
<1>2. reply[y] \in Results
    BY <1>1 DEF Replies, Say, Outcomes
<1> QED BY <1>1, <1>2, NoneIsNoResult

LEMMA FileKeepsOutcome ==
    ASSUME OneOutcome, OneVerdict', NEW c \in Calls, FileTicket(c) PROVE OneOutcome'
<1> USE TaskSets
<1>1. /\ TaskTypeOK /\ StoreTypeOK /\ pc[c] = "start" /\ reply[c].kind = "none"
      /\ pc' = [pc EXCEPT ![c] = "filed"] /\ UNCHANGED <<claimed, stale, result, target, reply>>
    BY DEF OneOutcome, OneVerdict, OneRun, Typed, TypeOK, ClosedByOne, FileTicket, At, Goto, Create
<1>2. \A t \in Tickets \ {c} : Filed(t)' = Filed(t)
    BY <1>1 DEF FileTicket, Create, Filed, StoreTypeOK
<1>3. \A y \in Runners \ {c} : Gated(y)' = Gated(y) /\ pc'[y] = pc[y]
    BY <1>1, <1>2 DEF Gated, TaskTypeOK, Runners
<1>4. ClosedByOne'
    BY <1>1, <1>3 DEF OneOutcome, ClosedByOne, Executes, TaskTypeOK
<1>5. AnswersAgree'
    BY <1>1, <1>3 DEF OneOutcome, AnswersAgree
<1> QED BY <1>4, <1>5 DEF OneOutcome

\* Whoever wins the claim finds the ticket open and the claim young.
LEMMA ClaimKeepsOutcome ==
    ASSUME OneOutcome, OneVerdict', NEW x \in Runners, TakeClaim(x), ClaimWins(target[x]) PROVE OneOutcome'
<1> USE TaskSets
<1>1. /\ TaskTypeOK /\ pc' = [pc EXCEPT ![x] = "run"] /\ claimed' = claimed \cup {target[x]}
      /\ UNCHANGED <<call, stale, result, target, reply>>
      /\ target[x] \notin claimed /\ result[target[x]] = None
    BY DEF OneOutcome, OneVerdict, OneRun, Typed, TypeOK, TakeClaim, Goto, Claim, ClaimWins, locals
<1>2. \A y \in Runners : Gated(y)' = Gated(y)
    BY <1>1, SameGate
<1>3. ClosedByOne'
    BY <1>1, <1>2 DEF OneOutcome, ClosedByOne, Executes, TaskTypeOK
<1>4. AnswersAgree'
    BY <1>1, <1>2 DEF OneOutcome, AnswersAgree
<1> QED BY <1>3, <1>4 DEF OneOutcome

\* A ticket is closed: nobody executes it, or only the task that closes it.
LEMMA CloseKeepsOutcome ==
    ASSUME OneOutcome, OneVerdict', NEW x \in Runners, NEW r \in Results,
           Leave({x}, r), UNCHANGED <<call, claimed, stale>>,
           result' = [result EXCEPT ![target[x]] = r],
           target[x] \in Tickets, result[target[x]] = None,
           \A y \in Runners \ {x} : Executes(y) => target[y] # target[x]
    PROVE  OneOutcome'
<1> USE TaskSets DEF Leave
<1>1. TaskTypeOK /\ StoreTypeOK
    BY DEF OneOutcome, OneVerdict, OneRun, Typed, TypeOK
<1>2. \A y \in Runners : Gated(y)' = Gated(y)
    BY SameGate
<1>3. /\ result'[target[x]] = r
      /\ \A t : t # target[x] => result'[t] = result[t]
    BY <1>1 DEF StoreTypeOK
<1>4. \A y \in Runners : Executes(y)' => y # x /\ Executes(y)
    BY <1>2 DEF Executes
<1>5. ClosedByOne'
    BY <1>3, <1>4 DEF OneOutcome, ClosedByOne
<1>6. ASSUME NEW y \in Runners, reply'[y].kind \in Outcomes, Gated(y)' PROVE result'[target'[y]] = reply'[y]
    <2>1. CASE y = x
        BY <1>3, <2>1
    <2>2. CASE y # x
        BY <1>2, <1>3, <1>6, <2>2, AnsweredIsClosed
    <2> QED BY <2>1, <2>2
<1>7. AnswersAgree'
    BY <1>6 DEF AnswersAgree, Outcomes
<1> QED BY <1>5, <1>7 DEF OneOutcome

LEMMA StaleKeepsOutcome ==
    ASSUME OneOutcome, OneVerdict', NEW x \in Runners, CloseOrLeave(x), CloseStaleClaimWins(target[x]) PROVE OneOutcome'
<1>1. target[x] \in Tickets
    BY AtWorkIsFiled DEF OneOutcome, OneVerdict, CloseOrLeave, At
<1>2. \A y \in Runners : Executes(y) => target[y] # target[x]
    BY DEF OneOutcome, ClosedByOne, CloseStaleClaimWins
<1>3. /\ Leave({x}, Interrupted) /\ UNCHANGED <<call, claimed, stale>>
      /\ result' = [result EXCEPT ![target[x]] = Interrupted] /\ result[target[x]] = None
    BY DEF CloseOrLeave, CloseStaleClaim, CloseStaleClaimWins, End
<1> QED BY <1>1, <1>2, <1>3, ValueTypes, CloseKeepsOutcome

LEMMA ReportKeepsOutcome ==
    ASSUME OneOutcome, OneVerdict', NEW x \in Runners, Report(x) PROVE OneOutcome'
<1>1. /\ target[x] \in Tickets /\ Filed(target[x]) /\ ctx[x].outcome \in Results /\ pc[x] = "report"
    BY AtWorkIsFiled, RunnerAtWork DEF OneOutcome, OneVerdict, OneRun, Report, At, InFlight
<1>2. Executes(x)
    BY <1>1, TaskSets DEF Executes, Gated, Runners, OneOutcome, OneVerdict, OneRun, Typed, TypeOK, TaskTypeOK
<1>3. result[target[x]] = None /\ \A y \in Runners \ {x} : Executes(y) => target[y] # target[x]
    BY <1>2 DEF OneOutcome, ClosedByOne, OneVerdict, OneRun, ClaimIsTheRun
<1>4. /\ Leave({x}, ctx[x].outcome) /\ UNCHANGED <<call, claimed, stale>>
      /\ result' = [result EXCEPT ![target[x]] = ctx[x].outcome]
    BY DEF Report, Complete, End
<1> QED BY <1>1, <1>3, <1>4, CloseKeepsOutcome

\* A lease does not expire under its executor.
LEMMA LeaseKeepsOutcome ==
    ASSUME "slow" \notin Faults, OneOutcome, OneVerdict', NEW t \in Tickets, LeaseExpires(t) PROVE OneOutcome'
<1>1. /\ UNCHANGED <<call, claimed, result, pc, target, reply>> /\ t \in claimed /\ stale' = stale \cup {t}
      /\ \A x \in Runners : Executes(x) => target[x] # t
    BY DEF LeaseExpires, GrowStale, Executing, Executes, locals
<1>2. \A y \in Runners : Gated(y)' = Gated(y)
    BY <1>1, SameGate
<1>3. ClosedByOne'
    BY <1>1, <1>2 DEF OneOutcome, ClosedByOne, Executes
<1>4. AnswersAgree'
    BY <1>1, <1>2 DEF OneOutcome, AnswersAgree
<1> QED BY <1>3, <1>4 DEF OneOutcome

LEMMA OneOutcomeNext ==
    ASSUME "slow" \notin Faults PROVE OneOutcome /\ [Next]_vars => OneOutcome'
<1> SUFFICES ASSUME OneOutcome, [Next]_vars PROVE OneOutcome'
    OBVIOUS
<1>1. OneVerdict'
    BY OneVerdictNext DEF OneOutcome
<1> QED BY <1>1, PlainSteps, PlainKeeps, FileKeepsOutcome, ClaimKeepsOutcome, StaleKeepsOutcome, ReportKeepsOutcome, LeaseKeepsOutcome

\* The executor of a ticket finds it open, and whoever is answered is told what is
\* stored, in any execution whose leases outlast it.
THEOREM OutcomeInvariant == ASSUME "slow" \notin Faults PROVE Spec => []OneOutcome
BY OneOutcomeInit, OneOutcomeNext, PTL DEF Spec

\* Waiters, resumes and executors that were told an outcome of a ticket were told
\* the same one, which the ticket keeps (run_once).
THEOREM EveryoneIsToldTheSame == ASSUME "slow" \notin Faults PROVE Spec => []AnswersAgree
<1>1. OneOutcome => AnswersAgree
    BY DEF OneOutcome
<1> QED BY <1>1, OutcomeInvariant, PTL

--------------------------------------------------------------------------------
(* The gateway implements TicketLifecycle.                                  *)

LEMMA SameLife ==
    ASSUME UNCHANGED <<call, decision, result>>,
           \A t \in Tickets : Filed(t) => received'[t] = received[t]
    PROVE  UNCHANGED Life!vars
BY SameGate DEF Life!vars, Filed, TicketVerdict, TicketRuns, TicketsClosed

LEMMA FunctionUpdate ==
    ASSUME NEW S, NEW t \in S, NEW f, NEW g, NEW v,
           f = [s \in S |-> f[s]], g = [s \in S |-> g[s]],
           g[t] = v, \A s \in S \ {t} : g[s] = f[s]
    PROVE  g = [f EXCEPT ![t] = v]
OBVIOUS

LEMMA OneMoves ==
    ASSUME NEW t \in Tickets, NEW v
    PROVE  /\ TicketVerdict'[t] = v /\ (\A u \in Tickets \ {t} : TicketVerdict'[u] = TicketVerdict[u])
                => TicketVerdict' = [TicketVerdict EXCEPT ![t] = v]
           /\ TicketRuns'[t] = v /\ (\A u \in Tickets \ {t} : TicketRuns'[u] = TicketRuns[u])
                => TicketRuns' = [TicketRuns EXCEPT ![t] = v]
<1>1. /\ TicketVerdict = [u \in Tickets |-> TicketVerdict[u]]
      /\ TicketVerdict' = [u \in Tickets |-> TicketVerdict'[u]]
    BY DEF TicketVerdict
<1>2. /\ TicketRuns = [u \in Tickets |-> TicketRuns[u]]
      /\ TicketRuns' = [u \in Tickets |-> TicketRuns'[u]]
    BY DEF TicketRuns
<1> QED BY <1>1, <1>2, FunctionUpdate

LEMMA LifeFile ==
    ASSUME OneOutcome, NEW c \in Calls, FileTicket(c) PROVE Life!File(c)
<1> USE TaskSets
<1>1. /\ StoreTypeOK /\ ~Filed(c) /\ received[c] = <<>> /\ UNCHANGED <<result, received>>
    BY DEF OneOutcome, OneVerdict, OneRun, Typed, TypeOK, ClaimIsTheRun, FileTicket, At, Create, world
<1>2. /\ Filed(c)' /\ decision'[c] = Undecided
      /\ \A t \in Tickets \ {c} : Filed(t)' = Filed(t) /\ decision'[t] = decision[t]
    BY <1>1 DEF FileTicket, Create, Filed, StoreTypeOK
<1>3. Len(<<>>) = 0
    OBVIOUS
<1>4. TicketVerdict[c] = "none" /\ TicketVerdict' = [TicketVerdict EXCEPT ![c] = "pending"]
    <2>1. /\ TicketVerdict[c] = "none" /\ TicketVerdict'[c] = "pending"
          /\ \A t \in Tickets \ {c} : TicketVerdict'[t] = TicketVerdict[t]
        BY <1>1, <1>2 DEF TicketVerdict, Undecided
    <2> QED BY <2>1, OneMoves
<1>5. TicketRuns' = TicketRuns
    BY <1>1, <1>2, <1>3 DEF TicketRuns
<1>6. TicketsClosed' = TicketsClosed
    BY <1>1 DEF TicketsClosed
<1> QED BY <1>4, <1>5, <1>6 DEF Life!File

LEMMA LifeSettle ==
    ASSUME OneOutcome, NEW t \in Tickets, NEW d \in Decisions, d.status # "pending",
           Decide(t, d), UNCHANGED received
    PROVE  Life!Settle(t)
<1>1. /\ StoreTypeOK /\ Filed(t) /\ decision[t].status = "pending" /\ UNCHANGED <<call, result>>
      /\ decision' = [decision EXCEPT ![t] = d]
    BY DEF OneOutcome, OneVerdict, OneRun, Typed, TypeOK, Decide, DecideWins
<1>2. d.status \in {"approved", "rejected", "timeout"}
    BY DEF Decisions
<1>3. \A u \in Tickets : Filed(u)' = Filed(u)
    BY <1>1 DEF Filed
<1>4. decision'[t].status = d.status /\ \A u \in Tickets \ {t} : decision'[u] = decision[u]
    BY <1>1 DEF StoreTypeOK
<1>5. TicketVerdict[t] = "pending" /\ TicketVerdict' = [TicketVerdict EXCEPT ![t] = d.status]
    <2>1. /\ TicketVerdict[t] = "pending" /\ TicketVerdict'[t] = d.status
          /\ \A u \in Tickets \ {t} : TicketVerdict'[u] = TicketVerdict[u]
        BY <1>1, <1>3, <1>4 DEF TicketVerdict
    <2> QED BY <2>1, OneMoves
<1>6. UNCHANGED <<TicketRuns, TicketsClosed>>
    BY <1>1, <1>3 DEF TicketRuns, TicketsClosed
<1> QED BY <1>2, <1>5, <1>6 DEF Life!Settle

LEMMA LifeClose ==
    ASSUME OneOutcome, NEW t \in Tickets, Filed(t), decision[t].status = "approved", result[t] = None,
           NEW r \in Results, result' = [result EXCEPT ![t] = r], UNCHANGED <<call, decision, received>>
    PROVE  Life!Close(t)
<1>1. StoreTypeOK /\ \A u \in Tickets : Filed(u)' = Filed(u)
    BY DEF OneOutcome, OneVerdict, OneRun, Typed, TypeOK, Filed
<1>2. result'[t] # None /\ \A u \in Tickets \ {t} : result'[u] = result[u]
    BY <1>1, NoneIsNoResult DEF StoreTypeOK
<1>3. TicketVerdict[t] = "approved" /\ UNCHANGED <<TicketVerdict, TicketRuns>>
    BY <1>1 DEF TicketVerdict, TicketRuns
<1>4. t \notin TicketsClosed /\ TicketsClosed' = TicketsClosed \cup {t}
    BY <1>2 DEF TicketsClosed
<1> QED BY <1>3, <1>4 DEF Life!Close

LEMMA LifeRun ==
    ASSUME OneOutcome, NEW x \in Runners, Dispatch(x), NEW t \in Tickets, t = target[x], Gated(x)
    PROVE  Life!Run(t)
<1> USE TaskSets
<1>1. /\ WorldTypeOK /\ ActsOnVerdict(x) /\ ClaimIsTheRun /\ pc[x] = "run" /\ Executes(x)
      /\ UNCHANGED <<call, decision, result>>
    BY DEF OneOutcome, OneVerdict, OneRun, Typed, TypeOK, Dispatch, At, Executes, storeVars
<1>2. Filed(t) /\ ctx[x].args \in Args
    BY <1>1, AtWorkIsFiled, RunnerAtWork DEF InFlight, OneOutcome, OneVerdict, OneRun
<1>3. decision[t].status = "approved" /\ received[t] = <<>> /\ result[t] = None
    BY <1>1 DEF OneOutcome, ClosedByOne, ActsOnVerdict, Proceeds, ClaimIsTheRun
<1>4. /\ received'[t] = <<ctx[x].args>>
      /\ \A u \in Tickets \ {t} : received'[u] = received[u]
    BY <1>1, <1>2, <1>3 DEF Dispatch, WorldTypeOK
<1>5. Len(received[t]) = 0 /\ Len(received'[t]) = 1
    <2>1. Len(<<>>) = 0 /\ Len(<<ctx[x].args>>) = 1
        OBVIOUS
    <2> QED BY <1>3, <1>4, <2>1
<1>6. \A u \in Tickets : Filed(u)' = Filed(u)
    BY <1>1, SameGate
<1>7. TicketVerdict[t] = "approved" /\ t \notin TicketsClosed /\ UNCHANGED <<TicketVerdict, TicketsClosed>>
    BY <1>1, <1>2, <1>3, <1>6 DEF TicketVerdict, TicketsClosed
<1>8. TicketRuns[t] = 0 /\ TicketRuns' = [TicketRuns EXCEPT ![t] = 1]
    <2>1. /\ TicketRuns[t] = 0 /\ TicketRuns'[t] = 1
          /\ \A u \in Tickets \ {t} : TicketRuns'[u] = TicketRuns[u]
        BY <1>2, <1>4, <1>5, <1>6 DEF TicketRuns
    <2> QED BY <2>1, OneMoves
<1> QED BY <1>7, <1>8 DEF Life!Run

LEMMA LifeStep ==
    ASSUME OneOutcome, [Next]_vars PROVE [Life!Next]_(Life!vars)
<1> USE TaskSets DEF storeVars, locals, world
<1>t. Typed /\ TaskTypeOK
    BY DEF OneOutcome, OneVerdict, OneRun, Typed, TypeOK
<1>0. CASE UNCHANGED vars
    BY <1>0, SameLife DEF vars
<1>1. ASSUME NEW c \in Calls, FileTicket(c) PROVE Life!Next
    BY <1>1, LifeFile DEF Life!Next
<1>2. ASSUME NEW c \in Calls, Expire(c) PROVE Life!Next \/ UNCHANGED Life!vars
    <2>1. CASE DecideWins(c)
        BY <1>2, <2>1, LifeSettle, ValueTypes DEF Expire, Life!Next, TimedOut
    <2>2. CASE ~DecideWins(c)
        BY <1>2, <2>2, SameLife DEF Expire
    <2> QED BY <2>1, <2>2
<1>3. ASSUME NEW o \in Operators, RecordVerdict(o) PROVE Life!Next \/ UNCHANGED Life!vars
    <2>1. /\ target[o] \in Tickets /\ seen[o] \in Decisions /\ seen[o].status # "pending"
        BY <1>3, <1>t DEF RecordVerdict, At, Typed, WorkIsSound, InFlight, TaskTypeOK, OneOutcome, OneVerdict, StandsBy
    <2>2. CASE DecideWins(target[o])
        BY <1>3, <2>1, <2>2, LifeSettle DEF RecordVerdict, Life!Next
    <2>3. CASE ~DecideWins(target[o])
        BY <1>3, <2>3, SameLife DEF RecordVerdict
    <2> QED BY <2>2, <2>3
<1>4. ASSUME NEW x \in Runners, CloseOrLeave(x) PROVE Life!Next \/ UNCHANGED Life!vars
    <2>1. /\ target[x] \in Tickets /\ Filed(target[x]) /\ decision[target[x]].status = "approved"
        BY <1>4, AtWorkIsFiled DEF CloseOrLeave, At, OneOutcome, OneVerdict, ActsOnVerdict, Proceeds
    <2>2. CASE CloseStaleClaimWins(target[x])
        BY <1>4, <2>1, <2>2, LifeClose, ValueTypes DEF CloseOrLeave, CloseStaleClaim, CloseStaleClaimWins, Life!Next
    <2>3. CASE ~CloseStaleClaimWins(target[x])
        BY <1>4, <2>3, SameLife DEF CloseOrLeave
    <2> QED BY <2>2, <2>3
<1>5. ASSUME NEW x \in Runners, Report(x) PROVE Life!Next
    <2>1. /\ target[x] \in Tickets /\ Filed(target[x]) /\ ctx[x].outcome \in Results /\ pc[x] = "report"
        BY <1>5, <1>t, AtWorkIsFiled, RunnerAtWork DEF Report, At, InFlight, OneOutcome, OneVerdict
    <2>2. Executes(x)
        BY <1>t, <2>1 DEF Executes, Gated, Runners, TaskTypeOK
    <2>3. decision[target[x]].status = "approved" /\ result[target[x]] = None
        BY <2>2 DEF OneOutcome, ClosedByOne, OneVerdict, ActsOnVerdict, Proceeds
    <2> QED BY <1>5, <2>1, <2>3, LifeClose DEF Report, Complete, Life!Next
<1>6. ASSUME NEW x \in Runners, Dispatch(x) PROVE Life!Next \/ UNCHANGED Life!vars
    <2>1. PICK t \in Tickets : t = target[x]
        BY <1>6, <1>t, RunnerAtWork DEF Dispatch, At, InFlight
    <2>2. CASE Gated(x)
        BY <1>6, <2>1, <2>2, LifeRun DEF Life!Next
    <2>3. CASE ~Gated(x)
        <3>1. x = t /\ ~Filed(t)
            BY <1>t, <2>1, <2>3 DEF Gated, Runners, TaskTypeOK
        <3>2. \A u \in Tickets \ {t} : received'[u] = received[u]
            BY <1>6, <2>1 DEF Dispatch, OneOutcome, OneVerdict, OneRun, Typed, TypeOK, WorldTypeOK
        <3> QED BY <1>6, <3>1, <3>2, SameLife DEF Dispatch
    <2> QED BY <2>2, <2>3
<1>7. ASSUME NEW c \in Calls,
             TurnAway(c) \/ PassUngated(c) \/ HandBack(c) \/ Wait(c) \/ Reread(c) \/ Check(c) \/ WakeBySignal(c)
             \/ YieldToOperator(c) \/ WakeByTimer(c) \/ Deadline(c)
      PROVE  UNCHANGED Life!vars
    BY <1>7, SameLife
    DEF TurnAway, PassUngated, HandBack, Wait, Reread, Check, WakeBySignal, YieldToOperator, WakeByTimer, Deadline
<1>8. ASSUME NEW x \in Runners,
             Deny(x) \/ Adopt(x) \/ TakeClaim(x) \/ AnswerStored(x) \/ FailBeforeUpstream(x) \/ Regrant(x)
             \/ \E t \in Tickets : StartResume(x, t)
      PROVE  UNCHANGED Life!vars
    BY <1>8, SameLife DEF Deny, Adopt, TakeClaim, Claim, AnswerStored, FailBeforeUpstream, Regrant, StartResume
<1>9. ASSUME NEW o \in Operators,
             Signal(o) \/ Audit(o) \/ \E t \in Tickets, d \in Verdicts : StartDecide(o, t, d)
      PROVE  UNCHANGED Life!vars
    BY <1>9, SameLife DEF Signal, Audit, StartDecide
<1>10. ASSUME (\E t \in Tickets : LeaseExpires(t)) \/ Fault PROVE UNCHANGED Life!vars
    BY <1>10, SameLife DEF LeaseExpires, GrowStale, Fault, Crash, Abort
<1> QED BY <1>0, <1>1, <1>2, <1>3, <1>4, <1>5, <1>6, <1>7, <1>8, <1>9, <1>10
        DEF Next, Request, Work, Clock, CallStep, RunnerStep, OperatorStep

LEMMA LifeInit == Init => Life!Init
<1>1. Len(<<>>) = 0
    OBVIOUS
<1> QED BY <1>1, TaskSets DEF Init, StoreInit, Filed, Life!Init, TicketVerdict, TicketRuns, TicketsClosed

\* Without its replicas, waiters, claims and leases, the gateway is a ticket that gets
\* one verdict, runs at most once after an approval, and is closed for good.
THEOREM ImplementsLifecycle == ASSUME "slow" \notin Faults PROVE Spec => LifeSpec
BY LifeInit, LifeStep, OutcomeInvariant, PTL DEF Spec, LifeSpec, Life!Spec

\* Nothing replaces the result of a ticket.
THEOREM ResultStands == ASSUME "slow" \notin Faults PROVE Spec => ResultSetOnce
<1> DEFINE Stands == \A t \in Tickets : result[t] # None => result'[t] = result[t]
<1>1. ASSUME OneOutcome, [Next]_vars PROVE [Stands]_vars
    <2>1. Plain \/ UNCHANGED result => Stands
        BY DEF Plain
    <2>2. ASSUME NEW x \in Runners, CloseOrLeave(x), CloseStaleClaimWins(target[x]) PROVE Stands
        BY <1>1, <2>2 DEF CloseOrLeave, CloseStaleClaim, CloseStaleClaimWins, OneOutcome, OneVerdict, OneRun, Typed, TypeOK, StoreTypeOK
    <2>3. ASSUME NEW x \in Runners, Report(x) PROVE Stands
        <3>1. pc[x] = "report" /\ target[x] \in Tickets /\ Filed(target[x])
            BY <1>1, <2>3, AtWorkIsFiled DEF Report, At, OneOutcome, OneVerdict
        <3>2. Executes(x)
            BY <1>1, <3>1, TaskSets DEF Executes, Gated, Runners, OneOutcome, OneVerdict, OneRun, Typed, TypeOK, TaskTypeOK
        <3>3. result[target[x]] = None
            BY <1>1, <3>2 DEF OneOutcome, ClosedByOne
        <3> QED BY <1>1, <2>3, <3>3 DEF Report, Complete, OneOutcome, OneVerdict, OneRun, Typed, TypeOK, StoreTypeOK
    <2> QED BY <1>1, <2>1, <2>2, <2>3, PlainSteps DEF FileTicket, Create, TakeClaim, Claim, LeaseExpires, GrowStale
<1>2. ResultSetOnce <=> [][Stands]_vars
    BY DEF ResultSetOnce
<1> QED BY <1>1, <1>2, OutcomeInvariant, PTL DEF Spec

--------------------------------------------------------------------------------
(* The decision signal.                                                     *)

\* No signal is taken away, none is sent, and no waiter turns in.
Calm ==
    /\ \A c \in Calls : c \in events[Home[c]] => c \in events'[Home[c]]
    /\ \A c \in Calls : Drowsy(c)' => Drowsy(c)
    /\ \A o \in Operators : Signalled(o)' => Signalled(o) /\ target'[o] = target[o]

LEMMA CalmKeeps == ASSUME SignalKept, Calm PROVE SignalKept'
BY DEF SignalKept, Calm

LEMMA CalmSteps ==
    ASSUME OneVerdict, [Next]_vars
    PROVE  \/ Calm
           \/ \E c \in Calls : WakeBySignal(c) \/ Reread(c)
           \/ \E o \in Operators : Signal(o)
           \/ \E r \in Replicas : Crash(r)
<1> USE TaskSets DEF TaskTypeOK, WorldTypeOK, Calm, Drowsy, Signalled, Goto, At, End, Leave, Say, storeVars, locals, world
<1>t. TaskTypeOK /\ WorldTypeOK /\ StoreTypeOK
    BY DEF OneVerdict, OneRun, Typed, TypeOK
<1> USE <1>t
<1>0. CASE UNCHANGED vars
    BY <1>0 DEF vars
<1>1. ASSUME NEW c \in Calls, TurnAway(c) \/ PassUngated(c) \/ FileTicket(c) \/ HandBack(c) PROVE Calm
    BY <1>1 DEF TurnAway, PassUngated, FileTicket, HandBack
<1>2. ASSUME NEW c \in Calls, Wait(c) \/ WakeByTimer(c) \/ Expire(c) \/ YieldToOperator(c) \/ Deadline(c) PROVE Calm
    BY <1>2 DEF Wait, WakeByTimer, Expire, YieldToOperator, Deadline
<1>3. ASSUME NEW c \in Calls, Check(c) PROVE Calm
    BY <1>3 DEF Check
<1>4. ASSUME NEW x \in Resumes, NEW t \in Tickets, StartResume(x, t) PROVE Calm
    BY <1>4 DEF StartResume
<1>5. ASSUME NEW x \in Resumes, Regrant(x) PROVE Calm
    BY <1>5 DEF Regrant
<1>6. ASSUME NEW x \in Runners, Deny(x) \/ Adopt(x) \/ TakeClaim(x) \/ FailBeforeUpstream(x) \/ Dispatch(x) PROVE Calm
    BY <1>6 DEF Deny, Adopt, TakeClaim, FailBeforeUpstream, Dispatch, Finish
<1>7. ASSUME NEW x \in Runners, AnswerStored(x) \/ CloseOrLeave(x) \/ Report(x) PROVE Calm
    BY <1>7 DEF AnswerStored, CloseOrLeave, Report
<1>8. ASSUME NEW o \in Operators, NEW t \in Tickets, NEW d \in Verdicts, StartDecide(o, t, d) PROVE Calm
    BY <1>8 DEF StartDecide
<1>9. ASSUME NEW o \in Operators, RecordVerdict(o) \/ Audit(o) PROVE Calm
    BY <1>9 DEF RecordVerdict, Audit
<1>10. ASSUME NEW t \in Tickets, LeaseExpires(t) PROVE Calm
    BY <1>10 DEF LeaseExpires
<1>11. ASSUME NEW x \in Tasks, Abort(x) PROVE Calm
    BY <1>11 DEF Abort
<1> QED BY <1>0, <1>1, <1>2, <1>3, <1>4, <1>5, <1>6, <1>7, <1>8, <1>9, <1>10, <1>11
        DEF Next, Request, Work, Clock, Fault, CallStep, RunnerStep, OperatorStep

\* A waiter that reads after the signal reads the verdict; it takes its own event only.
LEMMA SignalKeptNext == OneVerdict /\ SignalKept /\ [Next]_vars => SignalKept'
<1> SUFFICES ASSUME OneVerdict, SignalKept, [Next]_vars PROVE SignalKept'
    OBVIOUS
<1> USE TaskSets
<1>t. TaskTypeOK /\ WorldTypeOK
    BY DEF OneVerdict, OneRun, Typed, TypeOK
<1>1. ASSUME NEW c \in Calls, WakeBySignal(c) PROVE SignalKept'
    <2>1. /\ UNCHANGED <<target, seen, reply>> /\ pc' = [pc EXCEPT ![c] = "await"]
          /\ \A d \in Calls \ {c} : d \in events[Home[d]] => d \in events'[Home[d]]
        BY <1>1, <1>t DEF WakeBySignal, Goto, locals, WorldTypeOK
    <2> QED BY <1>t, <2>1 DEF SignalKept, Drowsy, Signalled, TaskTypeOK
<1>2. ASSUME NEW c \in Calls, Reread(c) PROVE SignalKept'
    <2>1. /\ UNCHANGED <<target, reply, events>> /\ pc' = [pc EXCEPT ![c] = "check"]
          /\ seen' = [seen EXCEPT ![c] = decision[c]]
        BY <1>2 DEF Reread, Goto, world
    <2>2. \A o \in Operators : Signalled(o) /\ target[o] = c => decision[c].status # "pending"
        BY DEF OneVerdict, StandsBy, Signalled
    <2> QED BY <1>t, <2>1, <2>2 DEF SignalKept, Drowsy, Signalled, TaskTypeOK
<1>3. ASSUME NEW o \in Operators, Signal(o) PROVE SignalKept'
    <2>1. /\ UNCHANGED <<target, seen, reply>> /\ pc' = [pc EXCEPT ![o] = "audit"]
          /\ events' = [events EXCEPT ![Home[o]] = events[Home[o]] \cup {target[o]}]
        BY <1>3 DEF Signal, Goto, locals
    <2>2. target[o] \in events'[Home[o]] /\ \A r \in Replicas : events[r] \subseteq events'[r]
        BY <1>t, <2>1 DEF WorldTypeOK
    <2> QED BY <1>t, <2>1, <2>2 DEF SignalKept, Drowsy, Signalled, TaskTypeOK
<1>4. ASSUME NEW r \in Replicas, Crash(r) PROVE SignalKept'
    <2>1. \A c \in Calls : Home[c] = r => ~Drowsy(c)'
        BY <1>4 DEF Crash, Leave, Drowsy, InFlight
    <2>2. \A c \in Calls : Home[c] # r => Drowsy(c)' = Drowsy(c) /\ events'[Home[c]] = events[Home[c]]
        BY <1>4, <1>t DEF Crash, Leave, Drowsy, WorldTypeOK, TaskTypeOK
    <2>3. \A o \in Operators : Home[o] # r => Signalled(o)' = Signalled(o) /\ target'[o] = target[o]
        BY <1>4, <1>t DEF Crash, Leave, Signalled, TaskTypeOK
    <2> QED BY <2>1, <2>2, <2>3 DEF SignalKept
<1> QED BY <1>1, <1>2, <1>3, <1>4, CalmSteps, CalmKeeps

\* A waiter never sleeps through a verdict that an operator of its replica was told
\* is recorded, whatever else happens to it, to the operator and to the replica.
THEOREM NoSleepThroughVerdict == Spec => []NoLostWakeup
<1>1. Init => SignalKept
    BY TaskSets DEF Init, SignalKept, Drowsy
<1>2. SignalKept => NoLostWakeup
    BY DEF SignalKept, NoLostWakeup, Drowsy, Signalled
<1> QED BY <1>1, <1>2, SignalKeptNext, VerdictInvariant, PTL DEF Spec

--------------------------------------------------------------------------------
(* The audit of verdicts.                                                   *)

\* No verdict is recorded, and no operator ends.
Unjudged ==
    /\ UNCHANGED audited
    /\ \A t \in Tickets : decision'[t].status \in {"approved", "rejected"} => decision'[t] = decision[t]
    /\ \A o \in Operators : pc[o] \in {"signal", "audit"} => pc'[o] \in {"signal", "audit"} /\ target'[o] = target[o]

LEMMA UnjudgedSteps ==
    ASSUME OneVerdict, [Next]_vars
    PROVE  Unjudged \/ Fault \/ \E o \in Operators : RecordVerdict(o) \/ Audit(o)
<1> USE TaskSets DEF TaskTypeOK, Unjudged, Goto, At, End, Leave, storeVars, locals, world
<1>t. TaskTypeOK /\ StoreTypeOK
    BY DEF OneVerdict, OneRun, Typed, TypeOK
<1> USE <1>t
<1>0. CASE UNCHANGED vars
    BY <1>0 DEF vars
<1>1. ASSUME NEW c \in Calls, TurnAway(c) \/ PassUngated(c) \/ HandBack(c) \/ Wait(c) \/ WakeByTimer(c) PROVE Unjudged
    BY <1>1 DEF TurnAway, PassUngated, HandBack, Wait, WakeByTimer
<1>2. ASSUME NEW c \in Calls, FileTicket(c) PROVE Unjudged
    BY <1>2 DEF FileTicket, Create, StoreTypeOK, Undecided
<1>3. ASSUME NEW c \in Calls, Expire(c) PROVE Unjudged
    BY <1>3 DEF Expire, Decide, StoreTypeOK, TimedOut
<1>4. ASSUME NEW c \in Calls, Reread(c) \/ Check(c) \/ WakeBySignal(c) \/ YieldToOperator(c) \/ Deadline(c) PROVE Unjudged
    BY <1>4 DEF Reread, Check, WakeBySignal, YieldToOperator, Deadline
<1>5. ASSUME NEW x \in Resumes, NEW t \in Tickets, StartResume(x, t) PROVE Unjudged
    BY <1>5 DEF StartResume
<1>6. ASSUME NEW x \in Resumes, Regrant(x) PROVE Unjudged
    BY <1>6 DEF Regrant
<1>7. ASSUME NEW x \in Runners, Deny(x) \/ Adopt(x) \/ TakeClaim(x) \/ FailBeforeUpstream(x) \/ Dispatch(x) PROVE Unjudged
    BY <1>7 DEF Deny, Adopt, TakeClaim, Claim, FailBeforeUpstream, Dispatch, Finish
<1>8. ASSUME NEW x \in Runners, AnswerStored(x) \/ CloseOrLeave(x) \/ Report(x) PROVE Unjudged
    BY <1>8 DEF AnswerStored, CloseOrLeave, CloseStaleClaim, Report, Complete
<1>9. ASSUME NEW o \in Operators, NEW t \in Tickets, NEW d \in Verdicts, StartDecide(o, t, d) PROVE Unjudged
    BY <1>9 DEF StartDecide
<1>10. ASSUME NEW o \in Operators, Signal(o) PROVE Unjudged
    BY <1>10 DEF Signal
<1>11. ASSUME NEW t \in Tickets, LeaseExpires(t) PROVE Unjudged
    BY <1>11 DEF LeaseExpires, GrowStale
<1> QED BY <1>0, <1>1, <1>2, <1>3, <1>4, <1>5, <1>6, <1>7, <1>8, <1>9, <1>10, <1>11
        DEF Next, Request, Work, Clock, CallStep, RunnerStep, OperatorStep

LEMMA NothingIsForgotten ==
    ASSUME OneVerdict, [Next]_vars, NEW t \in Tickets,
           decision'[t].status \in {"approved", "rejected"}, ~Accounted(t)'
    PROVE  /\ decision'[t] = decision[t]
           /\ Accounted(t) => \E o \in Operators : Auditing(o, t) /\ reply'[o].kind = "lost"
<1> SUFFICES ASSUME \/ decision'[t] # decision[t]
                    \/ Accounted(t) /\ \A o \in Operators : Auditing(o, t) => reply'[o].kind # "lost"
             PROVE  FALSE
    OBVIOUS
<1>t. TaskTypeOK /\ StoreTypeOK
    BY DEF OneVerdict, OneRun, Typed, TypeOK
<1> USE TaskSets, <1>t DEF Auditing, Accounted
<1>1. ~Unjudged
    BY DEF Unjudged
<1>2. ASSUME NEW o \in Operators, RecordVerdict(o), DecideWins(target[o]) PROVE FALSE
    <2>1. /\ pc' = [pc EXCEPT ![o] = "signal"] /\ UNCHANGED <<target, audited>>
          /\ decision' = [decision EXCEPT ![target[o]] = seen[o]]
        BY <1>2 DEF RecordVerdict, Decide, Goto, locals, world
    <2>2. t = target[o] \/ decision'[t] = decision[t]
        BY <2>1 DEF StoreTypeOK
    <2>3. pc'[o] = "signal" /\ \A p \in Operators \ {o} : pc'[p] = pc[p]
        BY <2>1 DEF TaskTypeOK
    <2> QED BY <2>1, <2>2, <2>3
<1>3. ASSUME NEW o \in Operators, RecordVerdict(o), ~DecideWins(target[o]) PROVE FALSE
    BY <1>3 DEF RecordVerdict, At, End, Leave, storeVars, world
<1>4. ASSUME NEW o \in Operators, Audit(o) PROVE FALSE
    BY <1>4 DEF Audit, At, End, Leave, storeVars
<1>5. ASSUME NEW X \in SUBSET Tasks, Leave(X, Say("lost")), UNCHANGED <<decision, audited>> PROVE FALSE
    <2>1. PICK o \in Operators : Auditing(o, t)
        BY <1>5
    <2>2. reply'[o].kind # "lost" /\ ~Auditing(o, t)'
        BY <1>5, <2>1
    <2>3. o \in X
        BY <1>5, <2>1, <2>2 DEF Leave
    <2> QED BY <1>5, <2>2, <2>3 DEF Leave, Say
<1>6. CASE Fault
    <2>1. ASSUME NEW r \in Replicas, Crash(r) PROVE FALSE
        BY <1>5, <2>1 DEF Crash, storeVars
    <2>2. ASSUME NEW x \in Tasks, Abort(x) PROVE FALSE
        BY <1>5, <2>2 DEF Abort, End, storeVars
    <2> QED BY <1>6, <2>1, <2>2 DEF Fault
<1> QED BY <1>1, <1>2, <1>3, <1>4, <1>6, UnjudgedSteps

\* A verdict of an operator is missing in the audit log only when its decide
\* request was lost in between, by a crash or on its own, whatever else happens.
THEOREM VerdictsAreAudited == Spec => VerdictsReachTheLog
<1>1. OneVerdict /\ [Next]_vars =>
        [\A t \in Tickets :
            decision'[t].status \in {"approved", "rejected"} /\ ~Accounted(t)' =>
                /\ decision'[t] = decision[t]
                /\ Accounted(t) => \E o \in Operators : Auditing(o, t) /\ reply'[o].kind = "lost"]_vars
    BY NothingIsForgotten
<1> QED BY <1>1, VerdictInvariant, PTL DEF Spec, VerdictsReachTheLog
================================================================================
