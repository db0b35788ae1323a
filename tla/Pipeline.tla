------------------------------- MODULE Pipeline -------------------------------
(***************************************************************************)
(* One call and its ticket through the pipelines of one ToolGateway: the   *)
(* steps are put in order when the gateway is built, a call runs the full  *)
(* chain, a resume the part after the gate, and what a step returns or     *)
(* raises goes back out through the steps before it.  The policy may be    *)
(* replaced at any time.                                                   *)
(*                                                                         *)
(* One request runs at a time: Gateway has the races.  Of the text of an   *)
(* error only matters whether it repeats a secret; the audit events of the *)
(* steps are left out.                                                     *)
(***************************************************************************)
EXTENDS Policy, Integers, FiniteSets, SequencesExt

CONSTANTS
    Extras,         \* the extra steps a gateway may be built with, in sequences
    Requests,       \* the calls agents make
    Edits,          \* argument objects operators may put in their place
    Served          \* bound: the documents under which requests are followed

\* The steps every gateway has.
BuiltInNames == {"limit", "authorize", "gate", "validate", "materialize", "redact", "dispatch"}

\* The value of a secret is put in by the steps alone, and the argument an extra
\* step adds has a name of its own.
Plain(args) ==
    "tagged" \notin DOMAIN args /\ \A k \in DOMAIN args : "kind" \in DOMAIN args[k] /\ args[k].kind # "secret"

ASSUME ExtrasAreSteps == \A steps \in Extras :
    /\ steps \in Seq({steps[i] : i \in DOMAIN steps})
    /\ \A i \in DOMAIN steps : steps[i].name \notin BuiltInNames /\ steps[i].order \in Int
ASSUME RequestsArePlain == \A call \in Requests : "args" \in DOMAIN call /\ Plain(call.args)
ASSUME EditsArePlain == \A edit \in Edits : Plain(edit)
ASSUME ServedHaveRules == \A doc \in Served : HasRules(doc)

VARIABLES
    extra,          \* the extra steps of this gateway
    path, at, way,  \* the steps of the request, the one it is at, in or out
    ctx,            \* its CallContext
    out,            \* what it is about to answer
    ticket,         \* the ticket of the call, None before the gate files one
    seen            \* what each step of the request saw when its turn came

request == <<path, at, way, ctx, out, seen>>
allVars == <<vars, extra, ticket, request>>

--------------------------------------------------------------------------------
(* Assembly.                                                                *)

Before == "before_approval"
After  == "after_approval"
Step(name, stage, order) == [name |-> name, stage |-> stage, order |-> order]

\* FAULTY: the arguments are validated as soon as the grant is known.
ValidateEarly ==
    << Step("authorize", Before, 100), Step("validate", Before, 110),
       Step("materialize", After, 200), Step("redact", After, 300), Step("limit", Before, 50) >>

BuiltIn ==
    << Step("authorize", Before, 100), Step("validate", After, 100),
       Step("materialize", After, 200), Step("redact", After, 300), Step("limit", Before, 50) >>

\* sorted() is stable: at equal order a built-in runs before an extra step.
Precedes(chain, i, j) ==
    chain[i].order < chain[j].order \/ (chain[i].order = chain[j].order /\ i < j)

\* How many steps of the same stage run before the one at i.
Place(chain, i) ==
    Cardinality({j \in DOMAIN chain : chain[j].stage = chain[i].stage /\ Precedes(chain, j, i)})

InOrder(chain, stage) ==
    LET chosen == {i \in DOMAIN chain : chain[i].stage = stage}
    IN [k \in 1..Cardinality(chosen) |-> chain[CHOOSE i \in chosen : Place(chain, i) = k - 1].name]

PostApproval(steps) == InOrder(BuiltIn \o steps, After) \o <<"dispatch">>
Full(steps)         == InOrder(BuiltIn \o steps, Before) \o <<"gate">> \o PostApproval(steps)

--------------------------------------------------------------------------------
(* Arguments and answers.                                                   *)

\* The value a reference stands for is a secret; an unknown one has no value.
Resolved(args) ==
    [k \in DOMAIN args |-> IF args[k].kind = "reference" THEN [args[k] EXCEPT !.kind = "secret"] ELSE args[k]]
Has(args, kind) == \E k \in DOMAIN args : args[k].kind = kind

\* The argument an extra step adds.
Tag == [kind |-> "number", n |-> 1]
Tagged(args) == [k \in DOMAIN args \cup {"tagged"} |-> IF k = "tagged" THEN Tag ELSE args[k]]

Accepts(schema, args) == schema = None \/ args \in schema

Result(content, note) == [kind |-> "result", content |-> content, note |-> note]
Error(content) == [kind |-> "error", content |-> content, note |-> FALSE]
Failed  == Error("fine")
Waiting == [kind |-> "pending", content |-> None, note |-> FALSE]
Contents == {"fine", "secret"}
Answers == {Waiting} \cup {Error(content) : content \in Contents}
                     \cup {Result(content, note) : content \in Contents, note \in BOOLEAN}

\* A result, as opposed to an error, that repeats a secret.
Leaks(o) == o.kind = "result" /\ o.content = "secret"

\* What a ticket may keep: the call is as the agent sent it, or tagged before the gate.
Snapshots == UNION {{call, [call EXCEPT !.args = Tagged(@)]} : call \in Requests}
Tickets ==
    [call : Snapshots,
     verdict : {"pending", "approved", "rejected", "timeout"},
     edit : Edits \cup {None}, result : Answers \cup {None}]

ASSUME NoneIsNoData == None \notin Contents \cup Tickets

\* apply_decision, of an approval.
Adopt(c, edit) ==
    IF edit = None \/ edit = c.call.args THEN c
    ELSE [c EXCEPT !.call.args = edit, !.note = TRUE]

\* FAULTY: only a call that used secrets is looked at.
RedactedIfUsed(o) == IF Leaks(o) /\ Has(ctx.call.args, "secret") THEN Failed ELSE o

\* Whatever active secret a result repeats, it is rejected.  What was raised
\* goes by.
Redacted(o) == IF Leaks(o) THEN Failed ELSE o

--------------------------------------------------------------------------------
(* Moving along the path.                                                   *)

On(name) == way = "in" /\ path[at] = name

Sees == seen' = Append(seen, [step |-> path[at], args |-> ctx.call.args, grant |-> ctx.grant])

Proceed(c) == Sees /\ at' = at + 1 /\ ctx' = c /\ UNCHANGED <<path, way, out, extra, vars>>
Return(o)  == Sees /\ at' = at - 1 /\ way' = "out" /\ out' = o /\ UNCHANGED <<path, ctx, extra, vars>>

\* FAULTY: the ticket holds the very call of the request.
Shared(c) == IF ticket = None THEN None ELSE [ticket EXCEPT !.call = c.call]

\* The store keeps a copy and hands out copies: what the steps do to the call of
\* the request, c.call from now on, does not reach the ticket.
Unshared(c) == ticket

\* A step that replaces the arguments of the call.
Changes(c) == Proceed(c) /\ ticket' = Unshared(c)

Begin(steps, c) ==
    /\ path' = steps /\ at' = 1 /\ way' = "in"
    /\ ctx' = c
    /\ seen' = <<>>
    /\ UNCHANGED <<out, extra, vars>>

\* ToolGateway.call.  A behaviour follows one call.
Arrive(call, block) ==
    /\ way = "new" /\ policy \in {Compile(doc) : doc \in Served}
    /\ Begin(Full(extra), [call |-> call, grant |-> None, block |-> block, note |-> FALSE])
    /\ UNCHANGED ticket

\* ToolGateway.resume of an approved ticket without a result: the grant is
\* asked for again, before the edit.  Any other resume changes nothing.
Resume ==
    /\ way = "idle" /\ ticket # None
    /\ ticket.verdict = "approved" /\ ticket.result = None
    /\ LET grant == GrantFor(policy, ticket.call)
           c == Adopt([call |-> ticket.call, grant |-> grant, block |-> TRUE, note |-> FALSE], ticket.edit)
       IN grant # None /\ Begin(PostApproval(extra), c) /\ ticket' = Unshared(c)

--------------------------------------------------------------------------------
(* The steps, on the way in.                                                *)

Limit == On("limit") /\ (Proceed(ctx) \/ Return(Failed)) /\ UNCHANGED ticket

Authorize ==
    /\ On("authorize")
    /\ LET grant == GrantFor(policy, ctx.call)
       IN IF grant = None THEN Return(Failed) ELSE Proceed([ctx EXCEPT !.grant = grant])
    /\ UNCHANGED ticket

GatePasses == On("gate") /\ ctx.grant.mode = "auto" /\ Proceed(ctx) /\ UNCHANGED ticket

\* The ticket is a snapshot.  A caller that can block waits in the gate.
GateFiles ==
    /\ On("gate") /\ ctx.grant.mode # "auto" /\ ticket = None
    /\ ticket' = [call |-> ctx.call, verdict |-> "pending", edit |-> None, result |-> None]
    /\ IF ctx.grant.mode = "async" \/ ~ctx.block THEN Return(Waiting)
       ELSE UNCHANGED <<request, extra, vars>>

GateTimesOut ==
    /\ On("gate") /\ ticket # None /\ ticket.verdict = "pending"
    /\ ticket' = [ticket EXCEPT !.verdict = "timeout"]
    /\ Return(Failed)

GateResolves ==
    /\ On("gate") /\ ticket # None /\ ticket.verdict # "pending"
    /\ IF ticket.verdict = "approved" THEN Changes(Adopt(ctx, ticket.edit))
       ELSE Return(Failed) /\ UNCHANGED ticket

Validate ==
    /\ On("validate")
    /\ IF ctx.grant # None /\ ~Accepts(ctx.grant.schema, ctx.call.args) THEN Return(Failed) ELSE Proceed(ctx)
    /\ UNCHANGED ticket

Materialize ==
    /\ On("materialize")
    /\ IF Has(ctx.call.args, "unknown") THEN Return(Failed) /\ UNCHANGED ticket
       ELSE Changes([ctx EXCEPT !.call.args = Resolved(@)])

Redact == On("redact") /\ Proceed(ctx) /\ UNCHANGED ticket

\* Extra steps: one that lets the call pass or refuses it, one that adds to it.
Quota == On("quota") /\ (Proceed(ctx) \/ Return(Failed)) /\ UNCHANGED ticket
Tagger == On("tagger") /\ Changes([ctx EXCEPT !.call.args = Tagged(@)])

\* The upstream answers or fails, repeating a secret or not: the text of its
\* failure becomes the text of the error.
Dispatch ==
    /\ On("dispatch")
    /\ \E content \in Contents : Return(Result(content, ctx.note)) \/ Return(Error(content))
    /\ UNCHANGED ticket

--------------------------------------------------------------------------------
(* The way out.                                                             *)

Back(o) == at' = at - 1 /\ out' = o /\ UNCHANGED <<path, way, ctx, seen, extra, vars>>

\* run_once keeps what its execution returned or raised.
Completed == [ticket EXCEPT !.result = out]

PassOut ==
    /\ way = "out" /\ at > 0 /\ path[at] \notin {"gate", "redact"}
    /\ Back(out) /\ UNCHANGED ticket

RedactOut == way = "out" /\ at > 0 /\ path[at] = "redact" /\ Back(Redacted(out)) /\ UNCHANGED ticket

GateOut ==
    /\ way = "out" /\ at > 0 /\ path[at] = "gate"
    /\ Back(out)
    /\ ticket' = IF ticket = None THEN None ELSE Completed

\* The answer leaves; a resume completes the ticket first.
Answer ==
    /\ way = "out" /\ at = 0
    /\ way' = "idle"
    /\ ticket' = IF path = PostApproval(extra) THEN Completed ELSE ticket
    /\ UNCHANGED <<path, at, ctx, out, seen, extra, vars>>

\* ToolGateway.decide, of a pending ticket.
Decide(verdict, edit) ==
    /\ ticket # None /\ ticket.verdict = "pending"
    /\ ticket' = [ticket EXCEPT !.verdict = verdict, !.edit = edit]
    /\ UNCHANGED <<request, extra, vars>>

--------------------------------------------------------------------------------

\* A step without a stage is rejected when the gateway is built.
PipelineInit ==
    /\ Init
    /\ extra \in {steps \in Extras : \A i \in DOMAIN steps : steps[i].stage \in {Before, After}}
    /\ path = <<>> /\ at = 0 /\ way = "new"
    /\ ctx = None /\ out = None /\ ticket = None /\ seen = <<>>

Serve ==
    \/ \E call \in Requests, block \in BOOLEAN : Arrive(call, block)
    \/ Resume
    \/ Limit \/ Authorize \/ Validate \/ Materialize \/ Redact \/ Quota \/ Tagger \/ Dispatch
    \/ GatePasses \/ GateFiles \/ GateTimesOut \/ GateResolves
    \/ PassOut \/ RedactOut \/ GateOut \/ Answer
    \/ Decide("rejected", None)
    \/ \E edit \in Edits \cup {None} : Decide("approved", edit)

\* Only a document of Served replaces another.
Replace ==
    /\ \E doc \in IF version = 0 THEN Documents ELSE Served : Publish(doc)
    /\ UNCHANGED <<request, extra, ticket>>

PipelineNext == Replace \/ Serve

PipelineSpec == PipelineInit /\ [][PipelineNext]_allVars

--------------------------------------------------------------------------------

PipelineTypeOK ==
    /\ TypeOK
    /\ way \in {"new", "idle", "in", "out"}
    /\ at \in 0..Len(path) /\ (way = "in" => at > 0)
    /\ ticket \in Tickets \cup {None}

\* What a human approved, or the agent sent when nobody was asked.
Approved ==
    IF ticket = None THEN seen[1].args
    ELSE IF ticket.edit # None THEN ticket.edit ELSE ticket.call.args

\* Whatever base has, args has too, and the same.
Kept(base, args) == \A k \in DOMAIN base : k \in DOMAIN args /\ args[k] = base[k]

\* On both paths, with whatever steps an application adds, the upstream gets
\* the arguments that were approved, edit included, after they were validated
\* under the grant of the execution and with every reference resolved
\* (gateway.py: after-approval steps follow the gate so an edit is validated
\* too; the async path can never skip a step).  Steps may add to them.
UpstreamGetsWhatWasChecked ==
    LET n == Len(seen)
    IN n > 0 /\ seen[n].step = "dispatch" =>
          \E v \in 1..n :
             /\ seen[v].step = "validate"
             /\ seen[v].grant # None /\ Accepts(seen[v].grant.schema, seen[v].args)
             /\ Kept(Approved, seen[v].args) /\ Kept(Resolved(seen[v].args), seen[n].args)
             /\ ~Has(seen[n].args, "reference")

\* A ticket keeps references, never the value of a secret, although the steps
\* resolve them in the call it was filed from (TicketStore.create; README, "a
\* ticket keeps the call as the agent sent it").
TicketKeepsReferences == ticket # None => ~Has(ticket.call.args, "secret")

\* A result that repeats an active secret, one this call used or not, reaches
\* neither the caller nor the ticket, on a call or on a resume (Redact, "a leak
\* is rejected, never forwarded").  What an answer can still repeat is the text
\* of an upstream that failed: no refusal of another step tells a secret.
ResultsAreRedacted ==
    /\ way = "idle" => ~Leaks(out)
    /\ ticket # None /\ ticket.result # None => ~Leaks(ticket.result)
    /\ way = "idle" /\ out.content = "secret" => seen[Len(seen)].step = "dispatch"
================================================================================
