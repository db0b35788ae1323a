----------------------------- MODULE GatewayProofs -----------------------------
(***************************************************************************)
(* Theorems about Gateway for every set of calls, resumes, operators and   *)
(* replicas, every placement, every policy and every combination of        *)
(* faults: its types, and run_once, by which a call reaches the upstream   *)
(* at most once, whatever the interleaving, the crashes, the cancellations *)
(* and the leases that expire under a slow executor.                       *)
(***************************************************************************)
EXTENDS GatewayProperties, TLAPS

LEMMA TaskSets ==
    /\ Calls \subseteq Tasks /\ Resumes \subseteq Tasks /\ Operators \subseteq Tasks
    /\ Runners \subseteq Tasks /\ Calls \subseteq Runners /\ Resumes \subseteq Runners
    /\ \A c \in Calls : c \notin Resumes /\ c \notin Operators
    /\ \A x \in Resumes : x \notin Calls /\ x \notin Operators
    /\ \A o \in Operators : o \notin Runners
    /\ None \notin Args /\ None \notin Tickets
    /\ Calls = Tickets
    /\ Home \in [Tasks -> Replicas]
BY NoneIsNoValue, TasksAreDistinct, HomeIsAReplica DEF Calls, Runners, Tasks

LEMMA ValueTypes ==
    /\ Undecided \in Decisions /\ TimedOut \in Decisions /\ Verdicts \subseteq Decisions
    /\ Interrupted \in Results /\ Results \subseteq Replies /\ Say("error") \in Results
    /\ \A n \in BOOLEAN : [kind |-> "ok", note |-> n] \in Results
    /\ \A k \in {"none", "refused", "pending", "denied", "recorded", "conflict", "lost"} : Say(k) \in Replies
    /\ NoCtx \in Ctxs
BY DEF Undecided, TimedOut, Verdicts, Decisions, Interrupted, Results, Replies, Say, NoCtx, Ctxs

\* Tasks that leave are typed, and none of them is at work afterwards.
LEMMA LeaveTyped ==
    ASSUME Typed, NEW X \in SUBSET Tasks, NEW r \in Replies, Leave(X, r),
           \A t \in Tickets : Filed(t) => Filed(t)'
    PROVE  TaskTypeOK' /\ WorkIsSound'
<1> USE TaskSets, ValueTypes DEF Typed, TypeOK, TaskTypeOK, Leave
<1>1. TaskTypeOK'
    BY DEF CallPcs, ResumePcs, OperatorPcs
<1>2. WorkIsSound'
    BY DEF WorkIsSound, InFlight
<1> QED BY <1>1, <1>2

LEMMA TypedInit == Init => Typed
<1> SUFFICES ASSUME Init PROVE Typed
    OBVIOUS
<1> USE TaskSets, ValueTypes DEF Init, StoreInit
<1>1. StoreTypeOK
    BY DEF StoreTypeOK
<1>2. TaskTypeOK
    BY DEF TaskTypeOK, CallPcs, ResumePcs, OperatorPcs
<1>3. WorldTypeOK
    BY FaultsAreKnown DEF WorldTypeOK
<1>4. WorkIsSound
    BY DEF WorkIsSound, InFlight
<1> QED BY <1>1, <1>2, <1>3, <1>4 DEF Typed, TypeOK

LEMMA NoteIsBoolean == \A k \in Ctxs : k.note \in BOOLEAN
BY DEF Ctxs

LEMMA RunnerAtWork ==
    ASSUME Typed, NEW x \in Runners, InFlight(x)
    PROVE  /\ target[x] \in Tickets
           /\ seen[x] \in Decisions /\ ctx[x] \in Ctxs /\ ctx[x].args \in Args
           /\ pc[x] = "report" => ctx[x].outcome \in Results
           /\ x \in Resumes => Filed(target[x])
BY TaskSets DEF Typed, TypeOK, TaskTypeOK, WorkIsSound, Runners

\* The end of an execution: on to the report, or out of the gateway.
LEMMA FinishTyped ==
    ASSUME Typed, NEW x \in Runners, pc[x] = "run", NEW r \in Results, Finish(x, r),
           \A t \in Tickets : Filed(t) => Filed(t)'
    PROVE  TaskTypeOK' /\ WorkIsSound'
<1> USE TaskSets, ValueTypes
<1>1. CASE Gated(x)
    <2>1. /\ pc' = [pc EXCEPT ![x] = "report"] /\ UNCHANGED <<target, seen, reply>>
          /\ ctx' = [ctx EXCEPT ![x] = [@ EXCEPT !.outcome = r]]
        BY <1>1 DEF Finish, Goto
    <2>2. ctx[x] \in Ctxs /\ ctx[x].args \in Args
        BY RunnerAtWork DEF InFlight
    <2>3. /\ ctx' \in [Tasks -> Ctxs] /\ ctx'[x].outcome = r /\ ctx'[x].args = ctx[x].args
          /\ \A y \in Tasks \ {x} : ctx'[y] = ctx[y]
        <3> DEFINE k == [ctx[x] EXCEPT !.outcome = r]
        <3>1. k \in Ctxs /\ k.outcome = r /\ k.args = ctx[x].args
            BY <2>2 DEF Ctxs
        <3>2. ctx' = [ctx EXCEPT ![x] = k]
            BY <2>1
        <3> HIDE DEF k
        <3> QED BY <3>1, <3>2 DEF Typed, TypeOK, TaskTypeOK
    <2>4. TaskTypeOK'
        BY <2>1, <2>3 DEF Typed, TypeOK, TaskTypeOK, CallPcs, ResumePcs, OperatorPcs, Runners
    <2>5. WorkIsSound'
        BY <2>1, <2>2, <2>3 DEF Typed, TypeOK, TaskTypeOK, WorkIsSound, InFlight
    <2> QED BY <2>4, <2>5
<1>2. CASE ~Gated(x)
    BY <1>2, LeaveTyped DEF Finish, End
<1> QED BY <1>1, <1>2

\* The state of the tickets, the tasks and the world is typed after every step of
\* ToolGateway.call, resume and decide, and after every clock tick and fault.
LEMMA TypedNext == Typed /\ [Next]_vars => Typed'
<1> SUFFICES ASSUME Typed, [Next]_vars PROVE Typed'
    OBVIOUS
<1> USE TaskSets, ValueTypes DEF storeVars, locals, world
<1> DEFINE Goal == StoreTypeOK' /\ TaskTypeOK' /\ WorldTypeOK' /\ WorkIsSound'
<1>t. StoreTypeOK /\ TaskTypeOK /\ WorldTypeOK /\ WorkIsSound
    BY DEF Typed, TypeOK
<1>0. ASSUME UNCHANGED vars PROVE Goal
    BY <1>t, <1>0 DEF vars, StoreTypeOK, TaskTypeOK, WorldTypeOK, WorkIsSound, InFlight, Filed
<1>1. ASSUME NEW c \in Calls, TurnAway(c) PROVE Goal
    <2>1. StoreTypeOK' /\ (\A t \in Tickets : Filed(t) => Filed(t)')
        BY <1>1, <1>t DEF TurnAway, StoreTypeOK, Filed
    <2>2. WorldTypeOK'
        BY <1>1, <1>t, FaultsAreKnown DEF TurnAway, WorldTypeOK
    <2>3. Leave({c}, Say("refused"))
        BY <1>1 DEF TurnAway, End
    <2>4. {c} \in SUBSET Tasks /\ Say("refused") \in Replies
        OBVIOUS
    <2>5. TaskTypeOK' /\ WorkIsSound'
        BY <2>1, <2>3, <2>4, LeaveTyped
    <2> QED BY <2>1, <2>2, <2>5
<1>2. ASSUME NEW c \in Calls, PassUngated(c) PROVE Goal
    <2>1. PICK a \in Args : ctx' = [ctx EXCEPT ![c] = [@ EXCEPT !.args = a]]
        BY <1>2 DEF PassUngated
    <2>2. /\ ctx' \in [Tasks -> Ctxs] /\ ctx'[c].args = a
          /\ \A y \in Tasks \ {c} : ctx'[y] = ctx[y]
        <3> DEFINE k == [ctx[c] EXCEPT !.args = a]
        <3>1. ctx[c] \in Ctxs
            BY <1>t DEF TaskTypeOK
        <3>2. k \in Ctxs /\ k.args = a
            BY <3>1 DEF Ctxs
        <3>3. ctx' = [ctx EXCEPT ![c] = k]
            BY <2>1
        <3> HIDE DEF k
        <3> QED BY <1>t, <3>2, <3>3 DEF TaskTypeOK
    <2>3. StoreTypeOK' /\ WorldTypeOK'
        BY <1>2, <1>t DEF PassUngated, StoreTypeOK, WorldTypeOK
    <2>4. TaskTypeOK'
        BY <1>2, <1>t, <2>2 DEF PassUngated, At, Goto, TaskTypeOK, CallPcs, ResumePcs, OperatorPcs
    <2>5. WorkIsSound'
        BY <1>2, <1>t, <2>2 DEF PassUngated, At, Goto, TaskTypeOK, WorkIsSound, InFlight, Filed
    <2> QED BY <2>3, <2>4, <2>5
<1>3. ASSUME NEW c \in Calls, FileTicket(c) PROVE Goal
    <2>1. PICK a \in Args : Create(c, a) /\ ctx' = [ctx EXCEPT ![c] = [@ EXCEPT !.args = a]]
        BY <1>3 DEF FileTicket
    <2>2. /\ ctx' \in [Tasks -> Ctxs] /\ ctx'[c].args = a
          /\ \A y \in Tasks \ {c} : ctx'[y] = ctx[y]
        <3> DEFINE k == [ctx[c] EXCEPT !.args = a]
        <3>1. ctx[c] \in Ctxs
            BY <1>t DEF TaskTypeOK
        <3>2. k \in Ctxs /\ k.args = a
            BY <3>1 DEF Ctxs
        <3>3. ctx' = [ctx EXCEPT ![c] = k]
            BY <2>1
        <3> HIDE DEF k
        <3> QED BY <1>t, <3>2, <3>3 DEF TaskTypeOK
    <2>3. StoreTypeOK' /\ (\A t \in Tickets : Filed(t) => Filed(t)')
        BY <1>t, <2>1 DEF Create, StoreTypeOK, Filed
    <2>4. WorldTypeOK'
        BY <1>3, <1>t DEF FileTicket, WorldTypeOK
    <2>5. TaskTypeOK'
        BY <1>3, <1>t, <2>2 DEF FileTicket, At, Goto, TaskTypeOK, CallPcs, ResumePcs, OperatorPcs
    <2>6. WorkIsSound'
        BY <1>3, <1>t, <2>2, <2>3 DEF FileTicket, At, Goto, TaskTypeOK, WorkIsSound, InFlight
    <2> QED BY <2>3, <2>4, <2>5, <2>6
<1>4. ASSUME NEW c \in Calls, HandBack(c) PROVE Goal
    <2>1. StoreTypeOK' /\ (\A t \in Tickets : Filed(t) => Filed(t)')
        BY <1>4, <1>t DEF HandBack, StoreTypeOK, Filed
    <2>2. WorldTypeOK'
        BY <1>4, <1>t, FaultsAreKnown DEF HandBack, WorldTypeOK
    <2>3. Leave({c}, Say("pending"))
        BY <1>4 DEF HandBack, End
    <2>4. {c} \in SUBSET Tasks /\ Say("pending") \in Replies
        OBVIOUS
    <2>5. TaskTypeOK' /\ WorkIsSound'
        BY <2>1, <2>3, <2>4, LeaveTyped
    <2> QED BY <2>1, <2>2, <2>5
<1>5. ASSUME NEW c \in Calls, Wait(c) PROVE Goal
    <2>1. StoreTypeOK'
        BY <1>5, <1>t DEF Wait, StoreTypeOK
    <2>2. WorldTypeOK'
        BY <1>5, <1>t DEF Wait, WorldTypeOK
    <2>3. TaskTypeOK'
        BY <1>5, <1>t DEF Wait, At, Goto, TaskTypeOK, CallPcs, ResumePcs, OperatorPcs
    <2>4. WorkIsSound'
        BY <1>5, <1>t DEF Wait, At, Goto, TaskTypeOK, WorkIsSound, InFlight, Filed
    <2> QED BY <2>1, <2>2, <2>3, <2>4
<1>6. ASSUME NEW c \in Calls, Reread(c) PROVE Goal
    <2>1. StoreTypeOK'
        BY <1>6, <1>t DEF Reread, StoreTypeOK, StoreTypeOK
    <2>2. WorldTypeOK'
        BY <1>6, <1>t DEF Reread, StoreTypeOK, WorldTypeOK
    <2>3. TaskTypeOK'
        BY <1>6, <1>t DEF Reread, StoreTypeOK, At, Goto, TaskTypeOK, CallPcs, ResumePcs, OperatorPcs
    <2>4. WorkIsSound'
        BY <1>6, <1>t DEF Reread, StoreTypeOK, At, Goto, TaskTypeOK, WorkIsSound, InFlight, Filed
    <2> QED BY <2>1, <2>2, <2>3, <2>4
<1>7. ASSUME NEW c \in Calls, Check(c) PROVE Goal
    <2>1. StoreTypeOK'
        BY <1>7, <1>t DEF Check, StoreTypeOK
    <2>2. WorldTypeOK'
        BY <1>7, <1>t DEF Check, WorldTypeOK
    <2>3. TaskTypeOK'
        BY <1>7, <1>t DEF Check, At, Goto, TaskTypeOK, CallPcs, ResumePcs, OperatorPcs
    <2>4. WorkIsSound'
        BY <1>7, <1>t DEF Check, At, Goto, TaskTypeOK, WorkIsSound, InFlight, Filed
    <2> QED BY <2>1, <2>2, <2>3, <2>4
<1>8. ASSUME NEW c \in Calls, WakeBySignal(c) PROVE Goal
    <2>1. StoreTypeOK'
        BY <1>8, <1>t DEF WakeBySignal, StoreTypeOK
    <2>2. WorldTypeOK'
        BY <1>8, <1>t DEF WakeBySignal, WorldTypeOK
    <2>3. TaskTypeOK'
        BY <1>8, <1>t DEF WakeBySignal, At, Goto, TaskTypeOK, CallPcs, ResumePcs, OperatorPcs
    <2>4. WorkIsSound'
        BY <1>8, <1>t DEF WakeBySignal, At, Goto, TaskTypeOK, WorkIsSound, InFlight, Filed
    <2> QED BY <2>1, <2>2, <2>3, <2>4
<1>9. ASSUME NEW c \in Calls, WakeByTimer(c) PROVE Goal
    <2>1. StoreTypeOK'
        BY <1>9, <1>t DEF WakeByTimer, StoreTypeOK
    <2>2. WorldTypeOK'
        BY <1>9, <1>t DEF WakeByTimer, WorldTypeOK
    <2>3. TaskTypeOK'
        BY <1>9, <1>t DEF WakeByTimer, At, Goto, TaskTypeOK, CallPcs, ResumePcs, OperatorPcs
    <2>4. WorkIsSound'
        BY <1>9, <1>t DEF WakeByTimer, At, Goto, TaskTypeOK, WorkIsSound, InFlight, Filed
    <2> QED BY <2>1, <2>2, <2>3, <2>4
<1>10. ASSUME NEW c \in Calls, Expire(c) PROVE Goal
    <2>1. StoreTypeOK'
        BY <1>10, <1>t DEF Expire, Decide, DecideWins, StoreTypeOK
    <2>2. WorldTypeOK'
        BY <1>10, <1>t DEF Expire, Decide, DecideWins, WorldTypeOK
    <2>3. TaskTypeOK'
        BY <1>10, <1>t DEF Expire, Decide, DecideWins, At, Goto, TaskTypeOK, CallPcs, ResumePcs, OperatorPcs
    <2>4. WorkIsSound'
        BY <1>10, <1>t DEF Expire, Decide, DecideWins, At, Goto, TaskTypeOK, WorkIsSound, InFlight, Filed
    <2> QED BY <2>1, <2>2, <2>3, <2>4
<1>11. ASSUME NEW c \in Calls, YieldToOperator(c) PROVE Goal
    <2>1. StoreTypeOK'
        BY <1>11, <1>t DEF YieldToOperator, StoreTypeOK, StoreTypeOK
    <2>2. WorldTypeOK'
        BY <1>11, <1>t DEF YieldToOperator, StoreTypeOK, WorldTypeOK
    <2>3. TaskTypeOK'
        BY <1>11, <1>t DEF YieldToOperator, StoreTypeOK, At, Goto, TaskTypeOK, CallPcs, ResumePcs, OperatorPcs
    <2>4. WorkIsSound'
        BY <1>11, <1>t DEF YieldToOperator, StoreTypeOK, At, Goto, TaskTypeOK, WorkIsSound, InFlight, Filed
    <2> QED BY <2>1, <2>2, <2>3, <2>4
<1>12. ASSUME NEW x \in Resumes, NEW t \in Tickets, StartResume(x, t) PROVE Goal
    <2>1. StoreTypeOK' /\ WorldTypeOK' /\ call[t] \in Args /\ decision[t] \in Decisions
        BY <1>12, <1>t DEF StartResume, StoreTypeOK, WorldTypeOK, Filed
    <2>2. CASE result[t] # None \/ decision[t].status = "pending"
        <3>1. reply' \in [Tasks -> Replies]
            BY <1>12, <1>t, <2>2 DEF StartResume, StoreTypeOK, TaskTypeOK
        <3>2. TaskTypeOK' /\ WorkIsSound'
            BY <1>12, <1>t, <2>2, <3>1 DEF StartResume, At, TaskTypeOK, WorkIsSound, InFlight, Filed
        <3> QED BY <2>1, <3>2
    <2>3. CASE ~(result[t] # None \/ decision[t].status = "pending")
        <3>1. /\ ctx' = [ctx EXCEPT ![x] = [@ EXCEPT !.args = call[t]]]
              /\ seen' = [seen EXCEPT ![x] = decision[t]]
              /\ reply' = [reply EXCEPT ![x] = Say("none")]
              /\ pc' = [pc EXCEPT ![x] = "regrant"]
            BY <1>12, <2>3 DEF StartResume, Goto
        <3>2. /\ ctx' \in [Tasks -> Ctxs] /\ ctx'[x].args = call[t]
              /\ \A y \in Tasks \ {x} : ctx'[y] = ctx[y]
            <4> DEFINE k == [ctx[x] EXCEPT !.args = call[t]]
            <4>1. ctx[x] \in Ctxs
                BY <1>t DEF TaskTypeOK
            <4>2. k \in Ctxs /\ k.args = call[t]
                BY <2>1, <4>1 DEF Ctxs
            <4>3. ctx' = [ctx EXCEPT ![x] = k]
                BY <3>1
            <4> HIDE DEF k
            <4> QED BY <1>t, <4>2, <4>3 DEF TaskTypeOK
        <3>3. TaskTypeOK'
            BY <1>12, <1>t, <2>1, <3>1, <3>2 DEF StartResume, TaskTypeOK, CallPcs, ResumePcs, OperatorPcs
        <3>4. WorkIsSound'
            BY <1>12, <1>t, <2>1, <3>1, <3>2 DEF StartResume, TaskTypeOK, WorkIsSound, InFlight, Filed
        <3> QED BY <2>1, <3>3, <3>4
    <2> QED BY <2>2, <2>3
<1>13. ASSUME NEW x \in Resumes, Regrant(x) PROVE Goal
    <2>1. StoreTypeOK' /\ WorldTypeOK' /\ (\A t \in Tickets : Filed(t) => Filed(t)')
        BY <1>13, <1>t DEF Regrant, StoreTypeOK, WorldTypeOK, Filed
    <2>2. CASE End(x, Say("refused"))
        BY <2>1, <2>2, LeaveTyped DEF End
    <2>3. CASE Goto(x, "enforce") /\ UNCHANGED locals
        <3>1. TaskTypeOK'
            BY <1>13, <1>t, <2>3 DEF Regrant, At, Goto, TaskTypeOK, CallPcs, ResumePcs, OperatorPcs
        <3>2. WorkIsSound'
            BY <1>13, <1>t, <2>1, <2>3 DEF Regrant, At, Goto, TaskTypeOK, WorkIsSound, InFlight
        <3> QED BY <2>1, <3>1, <3>2
    <2> QED BY <1>13, <2>2, <2>3 DEF Regrant
<1>14. ASSUME NEW x \in Runners, Deny(x) PROVE Goal
    <2>1. StoreTypeOK' /\ (\A t \in Tickets : Filed(t) => Filed(t)')
        BY <1>14, <1>t DEF Deny, StoreTypeOK, Filed
    <2>2. WorldTypeOK'
        BY <1>14, <1>t, FaultsAreKnown DEF Deny, WorldTypeOK
    <2>3. Leave({x}, Say("denied"))
        BY <1>14 DEF Deny, End
    <2>4. {x} \in SUBSET Tasks /\ Say("denied") \in Replies
        OBVIOUS
    <2>5. TaskTypeOK' /\ WorkIsSound'
        BY <2>1, <2>3, <2>4, LeaveTyped
    <2> QED BY <2>1, <2>2, <2>5
<1>15. ASSUME NEW x \in Runners, Adopt(x) PROVE Goal
    <2>1. seen[x] \in Decisions /\ ctx[x] \in Ctxs /\ ctx[x].args \in Args
        BY <1>15, RunnerAtWork DEF Adopt, At, InFlight
    <2>2. PICK k \in Ctxs : ctx' = [ctx EXCEPT ![x] = k] /\ k.args \in Args
        <3>1. CASE EditOf(ctx[x].args, seen[x])
            <4> DEFINE k == [ctx[x] EXCEPT !.args = seen[x].edit, !.note = TRUE]
            <4>1. seen[x].edit \in Args
                BY <2>1, <3>1 DEF EditOf, Decisions
            <4>2. k \in Ctxs /\ k.args \in Args
                BY <2>1, <4>1 DEF Ctxs
            <4>3. ctx' = [ctx EXCEPT ![x] = k]
                BY <1>15, <3>1 DEF Adopt
            <4> HIDE DEF k
            <4> QED BY <4>2, <4>3
        <3>2. CASE ~EditOf(ctx[x].args, seen[x])
            BY <1>15, <2>1, <3>2 DEF Adopt
        <3> QED BY <3>1, <3>2
    <2>3. StoreTypeOK' /\ WorldTypeOK'
        BY <1>15, <1>t DEF Adopt, StoreTypeOK, WorldTypeOK
    <2>4. TaskTypeOK'
        BY <1>15, <1>t, <2>2 DEF Adopt, At, Goto, TaskTypeOK, CallPcs, ResumePcs, OperatorPcs, Runners
    <2>5. WorkIsSound'
        BY <1>15, <1>t, <2>2 DEF Adopt, At, Goto, TaskTypeOK, WorkIsSound, InFlight, Filed
    <2> QED BY <2>3, <2>4, <2>5
<1>16. ASSUME NEW x \in Runners, TakeClaim(x) PROVE Goal
    <2>1. target[x] \in Tickets
        BY <1>16, RunnerAtWork DEF TakeClaim, At, InFlight
    <2>2. StoreTypeOK' /\ WorldTypeOK' /\ (\A t \in Tickets : Filed(t) => Filed(t)')
        BY <1>16, <1>t, <2>1 DEF TakeClaim, Claim, StoreTypeOK, WorldTypeOK, Filed
    <2>3. TaskTypeOK'
        BY <1>16, <1>t DEF TakeClaim, At, Goto, TaskTypeOK, CallPcs, ResumePcs, OperatorPcs, Runners
    <2>4. WorkIsSound'
        BY <1>16, <1>t, <2>2 DEF TakeClaim, At, Goto, TaskTypeOK, WorkIsSound, InFlight
    <2> QED BY <2>2, <2>3, <2>4
<1>17. ASSUME NEW x \in Runners, AnswerStored(x) PROVE Goal
    <2>1. StoreTypeOK' /\ WorldTypeOK' /\ (\A t \in Tickets : Filed(t) => Filed(t)')
        BY <1>17, <1>t DEF AnswerStored, StoreTypeOK, WorldTypeOK, Filed
    <2>2. CASE result[target[x]] # None
        <3>1. result[target[x]] \in Replies
            BY <1>17, <1>t, <2>2, RunnerAtWork DEF AnswerStored, At, InFlight, StoreTypeOK
        <3> QED BY <1>17, <2>1, <2>2, <3>1, LeaveTyped DEF AnswerStored, End
    <2>3. CASE result[target[x]] = None
        <3>1. TaskTypeOK'
            BY <1>17, <1>t, <2>3 DEF AnswerStored, At, Goto, TaskTypeOK, CallPcs, ResumePcs, OperatorPcs, Runners
        <3>2. WorkIsSound'
            BY <1>17, <1>t, <2>1, <2>3 DEF AnswerStored, At, Goto, TaskTypeOK, WorkIsSound, InFlight
        <3> QED BY <2>1, <3>1, <3>2
    <2> QED BY <2>2, <2>3
<1>18. ASSUME NEW x \in Runners, CloseOrLeave(x) PROVE Goal
    <2>1. StoreTypeOK' /\ (\A t \in Tickets : Filed(t) => Filed(t)')
        BY <1>18, <1>t DEF CloseOrLeave, CloseStaleClaim, StoreTypeOK, Filed
    <2>2. WorldTypeOK'
        BY <1>18, <1>t, FaultsAreKnown DEF CloseOrLeave, CloseStaleClaim, WorldTypeOK
    <2>3. PICK r \in Replies : Leave({x}, r)
        BY <1>18 DEF CloseOrLeave, End
    <2>4. {x} \in SUBSET Tasks
        OBVIOUS
    <2>5. TaskTypeOK' /\ WorkIsSound'
        BY <2>1, <2>3, <2>4, LeaveTyped
    <2> QED BY <2>1, <2>2, <2>5
<1>19. ASSUME NEW x \in Runners, FailBeforeUpstream(x) PROVE Goal
    <2>1. StoreTypeOK' /\ WorldTypeOK' /\ (\A t \in Tickets : Filed(t) => Filed(t)')
        BY <1>19, <1>t DEF FailBeforeUpstream, StoreTypeOK, WorldTypeOK, Filed
    <2> QED BY <1>19, <2>1, FinishTyped DEF FailBeforeUpstream, At
<1>20. ASSUME NEW x \in Runners, Dispatch(x) PROVE Goal
    <2>1. StoreTypeOK' /\ (\A t \in Tickets : Filed(t) => Filed(t)')
        BY <1>20, <1>t DEF Dispatch, StoreTypeOK, Filed
    <2>2. target[x] \in Calls /\ ctx[x].args \in Args /\ ctx[x].note \in BOOLEAN
        BY <1>20, RunnerAtWork, NoteIsBoolean DEF Dispatch, At, InFlight
    <2>3. WorldTypeOK'
        BY <1>20, <1>t, <2>2 DEF Dispatch, WorldTypeOK
    <2>4. PICK r \in Results : Finish(x, r)
        BY <1>20, <2>2 DEF Dispatch
    <2> QED BY <1>20, <2>1, <2>3, <2>4, FinishTyped DEF Dispatch, At
<1>21. ASSUME NEW x \in Runners, Report(x) PROVE Goal
    <2>1. target[x] \in Tickets /\ ctx[x].outcome \in Results
        BY <1>21, RunnerAtWork DEF Report, At, InFlight
    <2>2. StoreTypeOK' /\ WorldTypeOK' /\ (\A t \in Tickets : Filed(t) => Filed(t)')
        BY <1>21, <1>t, <2>1 DEF Report, Complete, StoreTypeOK, WorldTypeOK, Filed
    <2> QED BY <1>21, <2>1, <2>2, LeaveTyped DEF Report, End
<1>22. ASSUME NEW o \in Operators, NEW t \in Tickets, NEW d \in Verdicts, StartDecide(o, t, d) PROVE Goal
    <2>1. StoreTypeOK'
        BY <1>22, <1>t DEF StartDecide, StoreTypeOK
    <2>2. WorldTypeOK'
        BY <1>22, <1>t DEF StartDecide, WorldTypeOK
    <2>3. TaskTypeOK'
        BY <1>22, <1>t DEF StartDecide, At, Goto, TaskTypeOK, CallPcs, ResumePcs, OperatorPcs
    <2>4. WorkIsSound'
        BY <1>22, <1>t DEF StartDecide, At, Goto, TaskTypeOK, WorkIsSound, InFlight, Filed
    <2> QED BY <2>1, <2>2, <2>3, <2>4
<1>23. ASSUME NEW o \in Operators, RecordVerdict(o) PROVE Goal
    <2>1. target[o] \in Tickets /\ seen[o] \in Decisions
        BY <1>23, <1>t DEF RecordVerdict, At, InFlight, WorkIsSound, TaskTypeOK
    <2>2. StoreTypeOK' /\ WorldTypeOK' /\ (\A t \in Tickets : Filed(t) => Filed(t)')
        BY <1>23, <1>t, <2>1 DEF RecordVerdict, Decide, StoreTypeOK, WorldTypeOK, Filed
    <2>3. CASE DecideWins(target[o])
        <3>1. TaskTypeOK'
            BY <1>23, <1>t, <2>3 DEF RecordVerdict, At, Goto, TaskTypeOK, CallPcs, ResumePcs, OperatorPcs
        <3>2. WorkIsSound'
            BY <1>23, <1>t, <2>2, <2>3 DEF RecordVerdict, At, Goto, TaskTypeOK, WorkIsSound, InFlight
        <3> QED BY <2>2, <3>1, <3>2
    <2>4. CASE ~DecideWins(target[o])
        BY <1>23, <2>2, <2>4, LeaveTyped DEF RecordVerdict, End
    <2> QED BY <2>3, <2>4
<1>24. ASSUME NEW o \in Operators, Signal(o) PROVE Goal
    <2>1. StoreTypeOK'
        BY <1>24, <1>t DEF Signal, WorkIsSound, InFlight, At, StoreTypeOK
    <2>2. WorldTypeOK'
        BY <1>24, <1>t DEF Signal, WorkIsSound, InFlight, At, WorldTypeOK
    <2>3. TaskTypeOK'
        BY <1>24, <1>t DEF Signal, WorkIsSound, InFlight, At, At, Goto, TaskTypeOK, CallPcs, ResumePcs, OperatorPcs
    <2>4. WorkIsSound'
        BY <1>24, <1>t DEF Signal, WorkIsSound, InFlight, At, At, Goto, TaskTypeOK, WorkIsSound, InFlight, Filed
    <2> QED BY <2>1, <2>2, <2>3, <2>4
<1>25. ASSUME NEW o \in Operators, Audit(o) PROVE Goal
    <2>1. StoreTypeOK' /\ (\A t \in Tickets : Filed(t) => Filed(t)')
        BY <1>25, <1>t DEF Audit, At, InFlight, WorkIsSound, StoreTypeOK, Filed
    <2>2. WorldTypeOK'
        BY <1>25, <1>t, FaultsAreKnown DEF Audit, At, InFlight, WorkIsSound, WorldTypeOK
    <2>3. Leave({o}, Say("recorded"))
        BY <1>25 DEF Audit, End
    <2>4. {o} \in SUBSET Tasks /\ Say("recorded") \in Replies
        OBVIOUS
    <2>5. TaskTypeOK' /\ WorkIsSound'
        BY <2>1, <2>3, <2>4, LeaveTyped
    <2> QED BY <2>1, <2>2, <2>5
<1>26. ASSUME NEW c \in Calls, Deadline(c) PROVE Goal
    <2>1. StoreTypeOK'
        BY <1>26, <1>t DEF Deadline, StoreTypeOK
    <2>2. WorldTypeOK'
        BY <1>26, <1>t DEF Deadline, WorldTypeOK
    <2>3. TaskTypeOK'
        BY <1>26, <1>t DEF Deadline, At, Goto, TaskTypeOK, CallPcs, ResumePcs, OperatorPcs
    <2>4. WorkIsSound'
        BY <1>26, <1>t DEF Deadline, At, Goto, TaskTypeOK, WorkIsSound, InFlight, Filed
    <2> QED BY <2>1, <2>2, <2>3, <2>4
<1>27. ASSUME NEW t \in Tickets, LeaseExpires(t) PROVE Goal
    <2>1. StoreTypeOK'
        BY <1>27, <1>t DEF LeaseExpires, GrowStale, StoreTypeOK
    <2>2. WorldTypeOK'
        BY <1>27, <1>t DEF LeaseExpires, GrowStale, WorldTypeOK
    <2>3. TaskTypeOK'
        BY <1>27, <1>t DEF LeaseExpires, GrowStale, At, Goto, TaskTypeOK, CallPcs, ResumePcs, OperatorPcs
    <2>4. WorkIsSound'
        BY <1>27, <1>t DEF LeaseExpires, GrowStale, At, Goto, TaskTypeOK, WorkIsSound, InFlight, Filed
    <2> QED BY <2>1, <2>2, <2>3, <2>4
<1>28. ASSUME NEW r \in Replicas, Crash(r) PROVE Goal
    <2>1. StoreTypeOK' /\ (\A t \in Tickets : Filed(t) => Filed(t)')
        BY <1>28, <1>t DEF Crash, StoreTypeOK, Filed
    <2>2. WorldTypeOK'
        BY <1>28, <1>t, FaultsAreKnown DEF Crash, WorldTypeOK
    <2>3. Leave({x \in Tasks : Home[x] = r /\ InFlight(x)}, Say("lost"))
        BY <1>28 DEF Crash, End
    <2>4. {x \in Tasks : Home[x] = r /\ InFlight(x)} \in SUBSET Tasks /\ Say("lost") \in Replies
        OBVIOUS
    <2>5. TaskTypeOK' /\ WorkIsSound'
        BY <2>1, <2>3, <2>4, LeaveTyped
    <2> QED BY <2>1, <2>2, <2>5
<1>29. ASSUME NEW x \in Tasks, Abort(x) PROVE Goal
    <2>1. StoreTypeOK' /\ (\A t \in Tickets : Filed(t) => Filed(t)')
        BY <1>29, <1>t DEF Abort, StoreTypeOK, Filed
    <2>2. WorldTypeOK'
        BY <1>29, <1>t, FaultsAreKnown DEF Abort, WorldTypeOK
    <2>3. Leave({x}, Say("lost"))
        BY <1>29 DEF Abort, End
    <2>4. {x} \in SUBSET Tasks /\ Say("lost") \in Replies
        OBVIOUS
    <2>5. TaskTypeOK' /\ WorkIsSound'
        BY <2>1, <2>3, <2>4, LeaveTyped
    <2> QED BY <2>1, <2>2, <2>5
<1> QED BY <1>0, <1>1, <1>2, <1>3, <1>4, <1>5, <1>6, <1>7, <1>8, <1>9, <1>10, <1>11, <1>12, <1>13, <1>14,
           <1>15, <1>16, <1>17, <1>18, <1>19, <1>20, <1>21, <1>22, <1>23, <1>24, <1>25, <1>26, <1>27, <1>28,
           <1>29
        DEF Next, Request, Work, Clock, Fault, CallStep, RunnerStep, OperatorStep, Typed, TypeOK

\* Every variable keeps its type, and every task at work has a filed ticket and
\* arguments, in any execution.
THEOREM TypedInvariant == Spec => []Typed
<1>1. Init => Typed
    BY TypedInit
<1>2. Typed /\ [Next]_vars => Typed'
    BY TypedNext
<1> QED BY <1>1, <1>2, PTL DEF Spec

\* The type invariant of the runs: tickets, tasks, events and what the upstream
\* received are what the store and the gateway declare them to be.
THEOREM TypeCorrect == Spec => []TypeOK
<1>1. Typed => TypeOK
    BY DEF Typed
<1> QED BY <1>1, TypedInvariant, PTL

--------------------------------------------------------------------------------
(* run_once.  The invariant OneRun ties the claim of a ticket to its one    *)
(* execution; most steps leave what it talks about alone (Quiet), the       *)
(* others are filing, passing ungated, claiming, dispatching.               *)

\* The step files, claims and dispatches nothing, and no task starts to execute.
Quiet ==
    /\ UNCHANGED <<call, claimed, received>>
    /\ \A y \in Runners :
        \/ pc'[y] = pc[y] /\ target'[y] = target[y]
        \/ pc'[y] \notin {"start", "run", "report"} /\ (y \in Calls => pc'[y] = "done" \/ Filed(y))
        \/ pc[y] = "run" /\ pc'[y] = "report" /\ Gated(y) /\ target'[y] = target[y]

LEMMA QuietKeepsOneRun ==
    ASSUME OneRun, Typed', Quiet PROVE ClaimIsTheRun' /\ AtMostOnce'
<1> USE TaskSets DEF OneRun, Quiet
<1>1. (\A t \in Tickets : Filed(t)' = Filed(t)) /\ (\A y \in Runners : Gated(y)' = Gated(y))
    BY DEF Filed, Gated, Runners
<1>2. \A y \in Runners : Executes(y)' => Executes(y) /\ target'[y] = target[y]
    BY <1>1 DEF Executes
<1>3. \A y \in Runners : Executes(y)' /\ pc'[y] = "run" => pc[y] = "run"
    BY <1>1 DEF Executes
<1>4. \A c \in Calls : /\ pc'[c] = "start" => pc[c] = "start"
                       /\ pc'[c] \notin {"start", "run", "done"} => Filed(c)
                       /\ ~Filed(c) /\ pc'[c] = "run" => pc[c] = "run"
    BY DEF ClaimIsTheRun, Gated
<1>5. AtMostOnce'
    BY DEF AtMostOnce
<1>6. ClaimIsTheRun'
    BY <1>1, <1>2, <1>3, <1>4 DEF ClaimIsTheRun
<1> QED BY <1>5, <1>6

LEMMA QuietSteps ==
    ASSUME OneRun, [Next]_vars
    PROVE  \/ Quiet
           \/ \E c \in Calls : PassUngated(c) \/ FileTicket(c)
           \/ \E x \in Runners : TakeClaim(x) \/ Dispatch(x)
<1> USE TaskSets DEF OneRun, Typed, TypeOK, TaskTypeOK, Quiet, Runners, Goto, At, End, Leave, storeVars, locals, world
<1>0. CASE UNCHANGED vars
    BY <1>0 DEF vars
<1>1. ASSUME NEW c \in Calls, TurnAway(c) PROVE Quiet
    BY <1>1 DEF TurnAway
<1>2. ASSUME NEW c \in Calls, HandBack(c) PROVE Quiet
    BY <1>2 DEF ClaimIsTheRun, HandBack
<1>3. ASSUME NEW c \in Calls, Wait(c) PROVE Quiet
    BY <1>3 DEF ClaimIsTheRun, Wait
<1>4. ASSUME NEW c \in Calls, Reread(c) PROVE Quiet
    BY <1>4 DEF ClaimIsTheRun, Reread
<1>5. ASSUME NEW c \in Calls, Check(c) PROVE Quiet
    BY <1>5 DEF ClaimIsTheRun, Check
<1>6. ASSUME NEW c \in Calls, WakeBySignal(c) PROVE Quiet
    BY <1>6 DEF ClaimIsTheRun, WakeBySignal
<1>7. ASSUME NEW c \in Calls, WakeByTimer(c) PROVE Quiet
    BY <1>7 DEF ClaimIsTheRun, WakeByTimer
<1>8. ASSUME NEW c \in Calls, Expire(c) PROVE Quiet
    BY <1>8 DEF ClaimIsTheRun, Expire, Decide
<1>9. ASSUME NEW c \in Calls, YieldToOperator(c) PROVE Quiet
    BY <1>9 DEF ClaimIsTheRun, YieldToOperator
<1>10. ASSUME NEW x \in Resumes, NEW t \in Tickets, StartResume(x, t) PROVE Quiet
    BY <1>10 DEF StartResume
<1>11. ASSUME NEW x \in Resumes, Regrant(x) PROVE Quiet
    BY <1>11 DEF ClaimIsTheRun, Regrant
<1>12. ASSUME NEW x \in Runners, Deny(x) PROVE Quiet
    BY <1>12 DEF ClaimIsTheRun, Deny
<1>13. ASSUME NEW x \in Runners, Adopt(x) PROVE Quiet
    BY <1>13 DEF ClaimIsTheRun, Adopt
<1>14. ASSUME NEW x \in Runners, AnswerStored(x) PROVE Quiet
    BY <1>14 DEF ClaimIsTheRun, AnswerStored
<1>15. ASSUME NEW x \in Runners, CloseOrLeave(x) PROVE Quiet
    BY <1>15 DEF ClaimIsTheRun, CloseOrLeave, CloseStaleClaim
<1>16. ASSUME NEW x \in Runners, FailBeforeUpstream(x) PROVE Quiet
    BY <1>16 DEF FailBeforeUpstream, Finish, Gated
<1>17. ASSUME NEW x \in Runners, Report(x) PROVE Quiet
    BY <1>17 DEF Report, Complete
<1>18. ASSUME NEW o \in Operators, NEW t \in Tickets, NEW d \in Verdicts, StartDecide(o, t, d) PROVE Quiet
    BY <1>18 DEF StartDecide
<1>19. ASSUME NEW o \in Operators, RecordVerdict(o) PROVE Quiet
    BY <1>19 DEF RecordVerdict, Decide
<1>20. ASSUME NEW o \in Operators, Signal(o) PROVE Quiet
    BY <1>20 DEF Signal
<1>21. ASSUME NEW o \in Operators, Audit(o) PROVE Quiet
    BY <1>21 DEF Audit
<1>22. ASSUME NEW c \in Calls, Deadline(c) PROVE Quiet
    BY <1>22 DEF Deadline
<1>23. ASSUME NEW t \in Tickets, LeaseExpires(t) PROVE Quiet
    BY <1>23 DEF LeaseExpires, GrowStale
<1>24. ASSUME NEW r \in Replicas, Crash(r) PROVE Quiet
    BY <1>24 DEF Crash
<1>25. ASSUME NEW x \in Tasks, Abort(x) PROVE Quiet
    BY <1>25 DEF Abort
<1> QED BY <1>0, <1>1, <1>2, <1>3, <1>4, <1>5, <1>6, <1>7, <1>8, <1>9, <1>10, <1>11, <1>12, <1>13, <1>14,
           <1>15, <1>16, <1>17, <1>18, <1>19, <1>20, <1>21, <1>22, <1>23, <1>24, <1>25
        DEF Next, Request, Work, Clock, Fault, CallStep, RunnerStep, OperatorStep

LEMMA OneRunInit == Init => OneRun
<1> SUFFICES ASSUME Init PROVE OneRun
    OBVIOUS
<1>1. Typed
    BY TypedInit
<1>2. ClaimIsTheRun
    BY TaskSets DEF Init, StoreInit, ClaimIsTheRun, Filed, Executes, Gated, Runners
<1>3. AtMostOnce
    <2>1. \A c \in Calls : received[c] = <<>>
        BY DEF Init
    <2>2. Len(<<>>) = 0
        OBVIOUS
    <2> QED BY <2>1, <2>2 DEF AtMostOnce
<1> QED BY <1>1, <1>2, <1>3 DEF OneRun

\* Filing gives an unfiled, unclaimed call that has not run a ticket.
LEMMA FileKeepsOneRun ==
    ASSUME OneRun, NEW c \in Calls, FileTicket(c) PROVE ClaimIsTheRun' /\ AtMostOnce'
<1> USE TaskSets DEF OneRun, Typed, TypeOK
<1>1. /\ pc[c] = "start" /\ ~Filed(c) /\ received[c] = <<>>
      /\ pc' = [pc EXCEPT ![c] = "filed"] /\ UNCHANGED <<claimed, received, target>>
    BY DEF FileTicket, At, Goto, Create, world, ClaimIsTheRun
<1>2. Filed(c)' /\ \A t \in Tickets \ {c} : Filed(t)' = Filed(t)
    BY DEF FileTicket, Create, Filed, StoreTypeOK
<1>3. \A y \in Runners : Executes(y)' => y # c /\ Executes(y) /\ pc'[y] = pc[y]
    BY <1>1, <1>2 DEF Executes, Gated, TaskTypeOK, Runners
<1>4. ClaimIsTheRun'
    BY <1>1, <1>2, <1>3 DEF ClaimIsTheRun, TaskTypeOK
<1>5. AtMostOnce'
    BY <1>1 DEF AtMostOnce
<1> QED BY <1>4, <1>5

\* An ungated call starts to execute; it has no ticket and has not run.
LEMMA PassKeepsOneRun ==
    ASSUME OneRun, NEW c \in Calls, PassUngated(c) PROVE ClaimIsTheRun' /\ AtMostOnce'
<1> USE TaskSets DEF OneRun, Typed, TypeOK
<1>1. /\ pc[c] = "start" /\ ~Filed(c) /\ received[c] = <<>>
      /\ pc' = [pc EXCEPT ![c] = "run"] /\ UNCHANGED <<call, claimed, received, target>>
    BY DEF PassUngated, At, Goto, storeVars, world, ClaimIsTheRun
<1>2. (\A t \in Tickets : Filed(t)' = Filed(t)) /\ (\A y \in Runners : Gated(y)' = Gated(y))
    BY <1>1 DEF Filed, Gated, Runners
<1>3. \A y \in Runners : Executes(y)' => y # c /\ Executes(y) /\ pc'[y] = pc[y]
    BY <1>1, <1>2 DEF Executes, Gated, TaskTypeOK, Runners
<1>4. ClaimIsTheRun'
    BY <1>1, <1>2, <1>3 DEF ClaimIsTheRun, TaskTypeOK
<1>5. AtMostOnce'
    BY <1>1 DEF AtMostOnce
<1> QED BY <1>4, <1>5

\* The winner of the claim is alone: an earlier executor would hold the claim.
LEMMA ClaimKeepsOneRun ==
    ASSUME OneRun, Typed', NEW x \in Runners, TakeClaim(x) PROVE ClaimIsTheRun' /\ AtMostOnce'
<1> USE TaskSets DEF OneRun, Typed, TypeOK
<1> DEFINE t == target[x]
<1>0. t \in Tickets /\ pc[x] = "claim" /\ UNCHANGED <<call, received, target>>
    BY RunnerAtWork DEF TakeClaim, At, InFlight, Claim, storeVars, locals, world
<1>1. (\A u \in Tickets : Filed(u)' = Filed(u)) /\ (\A y \in Runners : Gated(y)' = Gated(y))
    BY <1>0 DEF Filed, Gated, Runners
<1>2. CASE ClaimWins(t)
    <2>1. /\ pc' = [pc EXCEPT ![x] = "run"] /\ claimed' = claimed \cup {t}
          /\ Filed(t) /\ t \notin claimed /\ received[t] = <<>>
        BY <1>0, <1>2 DEF TakeClaim, Goto, Claim, ClaimWins, ClaimIsTheRun
    <2>2. x \in Calls => t = x
        BY DEF TaskTypeOK
    <2>3. \A y \in Runners : Executes(y)' => y = x \/ (Executes(y) /\ target[y] # t /\ pc'[y] = pc[y])
        BY <1>1, <2>1 DEF Executes, ClaimIsTheRun, TaskTypeOK
    <2>4. ClaimIsTheRun'
        BY <1>0, <1>1, <2>1, <2>2, <2>3 DEF ClaimIsTheRun, TaskTypeOK, Executes
    <2>5. AtMostOnce'
        BY <1>0 DEF AtMostOnce
    <2> QED BY <2>4, <2>5
<1>3. CASE ~ClaimWins(t)
    <2>1. x \in Calls => Filed(x)
        BY <1>0 DEF ClaimIsTheRun
    <2>2. pc' = [pc EXCEPT ![x] = "lost"] /\ UNCHANGED claimed
        BY <1>3 DEF TakeClaim, Goto, storeVars
    <2>3. Quiet
        BY <1>0, <2>1, <2>2 DEF Quiet, TaskTypeOK, Runners
    <2> QED BY <2>3, QuietKeepsOneRun
<1> QED BY <1>2, <1>3

\* The one executor of a call that has not run makes it run for the first time.
LEMMA DispatchKeepsOneRun ==
    ASSUME OneRun, NEW x \in Runners, Dispatch(x) PROVE ClaimIsTheRun' /\ AtMostOnce'
<1> USE TaskSets DEF OneRun, Typed, TypeOK
<1> DEFINE t == target[x]
<1>1. /\ t \in Tickets /\ pc[x] = "run" /\ UNCHANGED <<call, claimed, target>> /\ ctx[x].args \in Args
      /\ (x \in Resumes => Filed(t))
    BY RunnerAtWork DEF Dispatch, At, InFlight, Finish, End, Leave, storeVars
<1>2. (\A u \in Tickets : Filed(u)' = Filed(u)) /\ (\A y \in Runners : Gated(y)' = Gated(y))
    BY <1>1 DEF Filed, Gated, Runners
<1>3. received[t] = <<>>
    BY <1>1 DEF ClaimIsTheRun, Executes, Gated, TaskTypeOK, Runners
<1>4. /\ Len(received'[t]) = 1
      /\ \A u \in Tickets \ {t} : received'[u] = received[u]
    BY <1>1, <1>3 DEF Dispatch, WorldTypeOK
<1>5. AtMostOnce'
    <2>1. SUFFICES ASSUME NEW c \in Calls PROVE Len(received'[c]) <= 1
        BY DEF AtMostOnce
    <2>2. CASE c = t
        <3>1. Len(received'[c]) = 1
            BY <1>4, <2>2
        <3> HIDE DEF OneRun
        <3> QED BY <3>1
    <2>3. CASE c # t
        <3>1. Len(received[c]) <= 1
            BY DEF AtMostOnce
        <3> QED BY <1>4, <2>3, <3>1
    <2> QED BY <2>2, <2>3
<1>6. /\ pc'[x] = IF Gated(x) THEN "report" ELSE IF x \in Calls THEN "done" ELSE "idle"
      /\ \A y \in Runners \ {x} : pc'[y] = pc[y]
    BY DEF Dispatch, Finish, End, Leave, Goto, TaskTypeOK, Runners
<1>7. \A y \in Runners : Executes(y)' => Executes(y)
    BY <1>1, <1>2, <1>6 DEF Executes
<1>8. \A y \in Runners : Executes(y)' /\ pc'[y] = "run" => y # x /\ pc[y] = "run" /\ target[y] # t
    BY <1>1, <1>2, <1>6, <1>7 DEF Executes, ClaimIsTheRun, Gated, TaskTypeOK, Runners
<1>9. Filed(t) => t \in claimed
    BY <1>1 DEF ClaimIsTheRun, Executes, Gated, TaskTypeOK, Runners
<1>10. \A c \in Calls : pc'[c] \in {"start", "run"} => c # t /\ pc'[c] = pc[c]
    <2>1. \A c \in Calls : c = t /\ pc'[c] \in {"start", "run"} => x \in Resumes /\ Filed(t) /\ c # x /\ pc[c] = pc'[c]
        BY <1>1, <1>6 DEF TaskTypeOK, Runners
    <2>2. \A c \in Calls : c = t /\ x \in Resumes => pc[c] \notin {"start", "run"}
        BY <1>1 DEF TaskTypeOK, ClaimIsTheRun, Executes, Gated
    <2>3. \A c \in Calls : c # t => c # x
        BY DEF TaskTypeOK
    <2> QED BY <1>6, <2>1, <2>2, <2>3
<1>11. ClaimIsTheRun'
    <2>1. \A c \in Calls : pc'[c] = "start" => ~Filed(c)' /\ received'[c] = <<>>
        BY <1>2, <1>4, <1>10 DEF ClaimIsTheRun
    <2>2. \A c \in Calls : pc'[c] \notin {"start", "run", "done"} => Filed(c)'
        BY <1>1, <1>2, <1>6 DEF ClaimIsTheRun, Gated
    <2>3. \A c \in Calls : ~Filed(c)' => c \notin claimed' /\ (pc'[c] = "run" => received'[c] = <<>>)
        BY <1>1, <1>2, <1>4, <1>10 DEF ClaimIsTheRun
    <2>4. \A u \in Tickets : Filed(u)' /\ u \notin claimed' => received'[u] = <<>>
        BY <1>1, <1>2, <1>4, <1>9 DEF ClaimIsTheRun
    <2>5. \A y \in Runners : Executes(y)' => target'[y] \in claimed'
        BY <1>1, <1>7 DEF ClaimIsTheRun
    <2>6. \A y \in Runners : Executes(y)' /\ pc'[y] = "run" => received'[target'[y]] = <<>>
        <3>1. \A y \in Runners : Executes(y) => target[y] \in Tickets
            BY RunnerAtWork DEF Executes, InFlight
        <3> QED BY <1>1, <1>4, <1>7, <1>8, <3>1 DEF ClaimIsTheRun
    <2>7. \A y, z \in Runners : Executes(y)' /\ Executes(z)' /\ target'[y] = target'[z] => y = z
        BY <1>1, <1>7 DEF ClaimIsTheRun
    <2> QED BY <2>1, <2>2, <2>3, <2>4, <2>5, <2>6, <2>7 DEF ClaimIsTheRun
<1> QED BY <1>5, <1>11

LEMMA OneRunNext == OneRun /\ [Next]_vars => OneRun'
<1> SUFFICES ASSUME OneRun, [Next]_vars PROVE OneRun'
    OBVIOUS
<1>1. Typed'
    BY TypedNext DEF OneRun
<1>2. ClaimIsTheRun' /\ AtMostOnce'
    BY <1>1, QuietSteps, QuietKeepsOneRun, FileKeepsOneRun, PassKeepsOneRun, ClaimKeepsOneRun, DispatchKeepsOneRun
<1> QED BY <1>1, <1>2 DEF OneRun

\* The claim of a ticket stands for its one execution, in any execution.
THEOREM ClaimInvariant == Spec => []OneRun
BY OneRunInit, OneRunNext, PTL DEF Spec

\* No call reaches the upstream twice (run_once): the run-once claim suffices,
\* with every fault considered and however short the lease.
THEOREM RunsAtMostOnce == Spec => []AtMostOnce
<1>1. OneRun => AtMostOnce
    BY DEF OneRun
<1> QED BY <1>1, ClaimInvariant, PTL
================================================================================
