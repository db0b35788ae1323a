# pico-tool-gateway: TLA+ models and proofs

This directory models pico-tool-gateway in TLA+, checks it with TLC and proves
its safety properties with TLAPS. The gateway stands between agents and tools:
it authorizes a tool call, holds it for a human when the policy says so,
executes it at most once, and keeps the outcome on a ticket.

All source paths below are relative to the repository; `gateway.py` etc. are in
`src/tool_gateway/`.

## Inventory

| Component | State | Operations | Interacts with |
|---|---|---|---|
| **ToolGateway** (`gateway.py`) | none of its own; assembles the pipeline | `call`, `decide`, `resume`, `visible_tools` | store, signal, audit, grants |
| **Approval gate, run_once** (`approval.py`) | a coroutine per call: ticket, decision read, arguments, edit note | `handle_call`, `_await_decision`, `apply_decision`, `run_once` | store, signal, notifier, rest of the pipeline |
| **Ticket store** (`adapters/memory.py`, `tool_gateway_sql/store.py`) | per ticket: call, decision, claim and its time, result | `create`, `get`, `decide`, `claim`, `complete`, `close_stale_claim`, `pending` | shared by all replicas (SQL) |
| **Decision signal** (`MemoryDecisionSignal`) | one event per ticket and replica | `wait_for_decision`, `signal_decision` | gate waits, `decide` signals |
| **Pipeline, steps** (`pipeline.py`, `steps.py`) | context of a call | rate limit, authorize, validate, materialize secrets, redact, dispatch; `audited` wrappers | resolvers, upstream, audit |
| **Declarative policy** (`policy.py`) | compiled rules, version, time of last check, lock | `grant_for`, `may_call`, `publish`, `refresh` | policy source |
| **Policy sources** (`policy.py`, `store.py`) | versioned document | `load_policy`, `publish_policy` | file, database |
| **Upstream sessions** (`adapters/mcp_upstreams.py`) | a session, owner task and lock per upstream; cached listing | `client`, `discard`, `tools_for`, `call_tool` | MCP servers |
| **MCP edge** (`mcp.py`) | owner task of the session manager | `tools/list`, `tools/call`, `gateway.check` | gateway, catalog, store |
| **Operator REST API** (`http.py`) | none | pages of pending tickets, decide, resume, read and publish the policy | gateway, store, policy |
| **Webhook notifier** (`adapters/webhook.py`) | deliveries in flight | `notify_approvers`, `drain`, retries | audit |
| **Rate limiter** (`WindowRateLimiter`) | window and counts | `admit_call` | clock |
| **Audit log** | append-only events | `audit_event` | everything |
| Wiring, settings, domain, ports | configuration and types | | |

What is hard here:

* **Interleaving.** The waiter of a call, operators and any number of resumes on
  several replicas meet at one ticket, and each of them reads the ticket, awaits
  and then acts on what it read.
* **Failure.** A process can die, and a request can be cancelled, at every await:
  between the claim and the upstream, between the upstream and `complete`,
  between a verdict and its signal and audit event.
* **Time.** The approval timeout races the verdict, the periodic recheck backs up
  a signal that does not cross replicas, the execution lease tells a dead
  executor from a slow one only by age.
* **Replicated state.** Policies are refreshed by polling, sessions are shared
  and dropped, caches expire.

What makes each component correct:

* gate, store, gateway: one verdict, at most one execution, of what was
  approved; one outcome for all callers; callers are released; a dead execution
  is closed.
* signal: no wake-up is lost on a replica; the recheck makes up for the others.
* policy: a granted call is always listed, untrusted hints never widen a grant,
  replicas converge to the newest document and never go back.
* sessions: at most one live session per upstream is used, none is leaked.
* queue: an operator that pages through it sees every ticket that stays pending.
* pipeline: on both paths, with any extra steps, the upstream gets what was
  approved, validated and resolved, and a result that repeats a secret is neither
  returned nor stored.
* notifier, limiter, edge: retries that end and are told truly, the budget of a
  window, an edge that serves until it is shut down.

## Modules

| Module | Role |
|---|---|
| `TicketStore` | one operator per method of the store, atomic; a library that `Gateway` extends |
| `TicketLifecycle` | abstract specification of a ticket: verdict, runs, closed |
| `Gateway` | calls, resumes, operators, clocks and faults, one action per await |
| `GatewayProperties` | safety, liveness, inductive invariants, refinement mapping to `TicketLifecycle` |
| `Policy` | documents, their compilation, `grant_for`, `may_call`, `visible_tools` |
| `Pipeline` | extends `Policy`: assembly of the steps, one call and its resumes through them, in and out |
| `PolicySync` | versions of the policy on several replicas: publish, refresh, lock, restarts |
| `McpUpstreams` | shared sessions with their owner tasks, the kept listing |
| `ApprovalQueue` | filing, deciding and paging, both stores |
| `WebhookNotifier` | background deliveries, `drain`, a stop of the process |
| `RateLimiter` | the fixed window of one process |
| `McpEdge` | extends `RateLimiter`: the owner task of the session manager and the requests |
| `MCGateway`, `MCPipeline`, `MCPolicySync`, `MCMcpUpstreams`, `MCApprovalQueue`, `MCMcpEdge` | placements, documents and other constant values for TLC |
| `GatewayProofs`, `GatewayTicketProofs`, `PipelineProofs`, `PolicySyncProofs`, `McpUpstreamsProofs`, `ApprovalQueueProofs`, `WebhookNotifierProofs`, `McpEdgeProofs` | theorems (TLAPS) |

How they meet: `Gateway` sees the policy as any answer of `grant_for` at any
read, the steps as success, refusal or failure, and the limiter as a refusal;
`Pipeline` has the steps and the policy in detail and one request at a time;
`PolicySync` has the versions and no rules; `McpEdge` composes the edge with the
limiter behind it. What one of them abstracts is a choice that includes what
the detailed one does.

### State and code

* `Gateway`: `call`, `decision`, `claimed`, `stale`, `result` are the columns of a ticket.
  `stale` is the comparison of the claim's time with the cutoff, moved to the
  moment it becomes true. A store method is one atomic operator: the memory store
  does not await inside, the SQL store does one conditional UPDATE or one INSERT
  in a transaction. The models have a store that survives a crash, as the SQL store
  does; the memory store dies with its only process, tickets included.
* A *task* is a coroutine: a call, a resume (`POST resume` or `gateway.check`) or a
  `decide` request. `pc` says which await it is at; `seen` is the `Decision` it has
  read, `ctx` the arguments, note and outcome of its `CallContext`, `target` its
  ticket, `reply` its answer. A gated call has exactly one ticket (`tkt-<uuid>`,
  never derived from the request), so a call serves as its own ticket identifier.
* The read of a ticket and what the coroutine does with it are two steps wherever
  the code awaits in between (`Reread`/`Check`/sleep, `TakeClaim`/`AnswerStored`/
  `CloseOrLeave`, `RecordVerdict`/`Signal`/`Audit`, `Dispatch`/`Report`).
* The audit events `authorized`, `gated`, `decided`, `resumed`, `call` are left out:
  they change nothing other components read; that they can fail is an `Abort`.
* In `Gateway` a schema error, a missing secret and an extra step that refuses are
  one action, `FailBeforeUpstream`. `Dispatch` appends to what the upstream received
  and may still end in an error (an upstream failure after the effect, a leak).
* `Crash(r)` ends the tasks and events of replica `r`; `Abort(x)` ends one task at any
  await (cancellation, or an exception nobody catches). Both are counted by
  `MaxFaults`. With `"slow"` in `Faults` a lease may expire under a live executor;
  without it the lease is above the slowest tool, as the settings ask.
* `Policy`: a glob is the set of names it matches, a schema the set of argument
  objects it accepts, a value a number or a text `float()` refuses. The loops over
  the rules are stated by the rule they stop at.
* `Pipeline`: the stable sort of the steps is stated by the place each gets, the number
  of steps of its stage that run before it; `path` is the chain of steps, `at` the position, `way` in or out; an
  exception is an answer `Error(content)` that travels out; that of the upstream has any
  content, a secret as well, and `redact` sees results only. Where the code copies the call
  into the ticket or out of it, the model says so (`Unshared`): values of TLA+ are not
  shared, so what a missing copy would do is a definition of its own (`Shared`). `seen` records what each step
  saw on the way in and is read by the properties only. A `reference` among the
  arguments is a `secret://` string, a `secret` its value, an `unknown` one nobody
  defined.
* `PolicySync`: `age` counts ticks since the last check (`_checked`). Ids are given
  at the flush and seen at the commit, so versions may become visible out of order.
* `McpUpstreams`: `client` and `current` are `_client` and `_stop` of a `_Session`, a
  session is what one owner task holds. A caller whose session ends keeps waiting
  for its answer until the client reports the loss.
* `ApprovalQueue`: a ticket is its place among the random ids; `created_at` is taken
  when the row is built, the row is seen at the commit. The query's order and the loop
  over the dict are stated by places too (`Ordered`, `MemoryPage`). A tool name is a sequence
  of letters, a pattern one of parts: `*`, a letter, or a part special in a glob only (`?`, a
  class). `GlobLetters` says what a part takes in the memory store (`fnmatchcase`), `LikeLetters` in
  the SQL store, which translates only `*` and compares as LIKE does (`Fold`: without case in
  SQLite). A `[` that opens no class is a letter.
* `WebhookNotifier`: a 3xx counts as notified, as in the code (below 400, and no redirect
  is followed). What is no `httpx.HTTPError` ends a delivery without a word in the log, and so does
  a log that fails (`PostFails`, `TellFails`).
* `McpEdge`: `ready` is the future all requests await. In asyncio cancelling a task
  that awaits a future cancels that future, and setting a cancelled future raises.
  `ManagerFails` is the owner that ends by an exception, while the manager starts or later: it
  hands the exception to those who wait, if the future is not set yet.

Operators marked FAULTY in the modules are plausible mistakes in that place of the
code; each is used to see that a property notices it, and none is part of a
specification.

## Runs

| Run | Instance | Shows |
|---|---|---|
| `race` | 1 call, 2 resumes, 1 operator, 2 replicas, 1 argument object, all modes and no grant, 1 crash or abort | types, at most one execution, denials that hold, one outcome for all, no wake-up lost, a verdict not in the log only where its request was lost, refinement of `TicketLifecycle` |
| `operators` | 1 call, 1 resume, 2 operators, 2 argument objects, leases that expire at any time | an acknowledged verdict stands, the execution is of what was approved, edits are disclosed; `OneVerdict`, the inductive invariant of these proofs |
| `progress` | 1 call, 1 resume, 1 operator on the other replica, 2 crashes or aborts, fair | waiters are released, approved calls get a result |
| `pipeline` | every document of up to 2 rules out of 60, 2 defaults, trust or none; a call under 6 documents and 6 assemblies, edits, resumes | lists show what is granted, untrusted claims do nothing; checked, resolved arguments, what the operator sees stays what was filed, no result with a secret kept or returned |
| `sync` | 2 publishes on one replica, readers on both, an operator that refreshes, 1 fault, fair | convergence, no step back where nothing is published, refreshes that are current |
| `upstreams` | 1 call, 2 listings, 2 upstreams, 2 sessions at a time, fair | no session left behind, whole listings, every task ends |
| `queue` | 4 tickets, 3 of them selected, 1 to a page; 5 queries, by tool, by agent, by both | walks that miss nothing, in order; both stores alike on plain queries |
| `notifier` | 2 tickets, 3 attempts, 1 stop, fair | audit that tells the truth, drain that waits for all, deliveries that end |
| `edge` | 4 requests of 2 agents, limit 2, 3 minutes, a manager that may fail, fair | everyone gets an answer, what breaks a request is known, budgets hold |
| `result_once`, `revoked`, `edge_dead` | see findings | a statement of the documentation does not hold |

**Bounds.**

* `Gateway`: tickets do not share state except through tasks, and a task is about one
  ticket at a time, so one ticket is where the races are; the proofs cover any number.
  Two resumes next to the waiter are the winner, the loser and the one that comes
  back after a crash; one resume task can check any number of times. Two argument
  objects give an edit that changes the call and one that does not. One fault in
  `race` hits each task at each await; two in `progress` let the second executor or
  the operator fail as well. `SYMMETRY` over argument objects is used for safety only.
* `Pipeline`: two rules are what overlap, order and a default need; the rules have
  every operator kind of interest, conditions that overlap, that are empty and that
  cannot compile. `MaxVersions` is 2, so a document is replaced once, between the
  call and its resume too. Only the documents in `Served` are followed by a
  request: one per mode, none, and two whose rules depend on the arguments. The
  assemblies in `Extras` put a step before, between, after and at the order of the
  built-in ones, and one has no stage and is refused.
* `PolicySync`: two versions are an old and a new one, one reader per replica and a
  refresher give a queue on the lock; `MaxFaults` is 1.
* `McpUpstreams`: `MaxSessions` is 2 at a time, numbers are used again; so the
  old session of an upstream may be closing while the new one opens.
* `ApprovalQueue`: with one ticket to a page each ticket is once the cursor; times
  may tie. `StoresAgree` asks for every cursor and for pages of one and two; the names have a
  `_`, a pattern asks for one, and the patterns with `?` and with a capital are not plain.
* `WebhookNotifier`: the default number of attempts; counters stop one above it.
* `McpEdge`: `MaxMinute` is 2 (a minute, the next one, one that is skipped to),
  `MaxCount` 4 leaves the limit of 2 well behind.

Deadlock is checked in `sync` and `upstreams`, whose tasks begin again; elsewhere a
behaviour ends when the last call is answered, the queue walked or the delivery
over.

**Fairness.** `Gateway`: `WorkFairness` is weak fairness of each task: the event loop
runs every coroutine that is ready. `ClockFairness` is weak fairness of deadlines,
rechecks and leases: time goes by. `CheckFairness` is strong fairness of checking a
ticket: agents and operators keep polling, each on its own, while the model has few
resume tasks. Operators, crashes, cancellations and new calls are never fair.
`PolicySync`: tasks go on, time passes, and agents keep calling (`Again`). Faults
are not fair and bounded. `McpUpstreams`: a handshake ends in success or failure, a
request in an answer or an error (the SDK has its own timeouts), a discarded session
is closed; strong fairness of getting or opening a session is the order in which an
`asyncio.Lock` wakes its waiters. `WebhookNotifier`: a post ends, a backoff ends with its time. The
10 seconds of the client (`timeout=10`) are per read, so a channel that answers byte by byte
can hold a post for longer; `DeliveriesEnd` is for one that does not go on for ever. `McpEdge`: ready tasks run; nobody
has to send a request or to shut down.

## Findings

* **A late result replaces the interrupted one** (`result_once`). `complete`
  writes unconditionally; an executor slower than the lease overwrites a result that
  was already handed out, against "`result` is set once" (`domain.py:68`).
* **A revoked tool keeps its claim open** (`revoked`). `resume` asks for the grant before
  it reaches `close_stale_claim` (`README.md:105`).
* **A cancelled request ends the MCP edge** (`edge_dead`). Every request awaits the
  same future; cancelling one of them while the manager starts cancels the future,
  `set_result` raises, the exception is swallowed because the future is done, and the
  owner task ends. No later request is served: the loop is the same, so no new future
  is made (`mcp.py:91`). `asyncio.shield` around the await would do. `OnlyKnownReasonsBreak`
  says that apart from this only a failed manager or the shutdown breaks a request.

Seen while modelling, without a run of their own:

* Only `GatewayError` is stored as a failure: any other exception inside `run()`, a
  result that cannot be stored, or a cancellation leaves the ticket without a result
  until the lease closes it as interrupted (`approval.py:60`; "a failure is stored
  too", `approval.py:46`). `ApprovedGetsResult` holds all the same.
* A decide request that ends between the verdict and its audit event leaves a final
  decision that is never audited (`gateway.py:139`; `README.md:50`). `VerdictsReachTheLog`
  says that only such an end does.
* The text of an upstream's exception goes past `redact`: `Dispatch` puts it into
  `UpstreamUnavailable` (`steps.py:113`) and into the audit event `call_failed`, `run_once` stores it on
  the ticket (`approval.py:60`) and the caller gets it (`mcp.py:162`). An upstream that repeats
  a materialized argument in its error returns a secret; "a leak is rejected, never
  forwarded" (`steps.py:86`, `README.md:107`) and the test of it (`tests/test_gateway.py:159`) are
  about results, as `ResultsAreRedacted` is.
* The `tool` of the queue is a glob (`ports.py:92`, `README.md:157`), which only the
  memory store makes it (`memory.py:161`): the SQL store takes `?` and `[` for
  themselves and compares without case on SQLite (`store.py:132`; `tests/test_sql_store.py:166` is about `_`).
  `PlainQueries` are those the difference does not touch.
* A manager that fails breaks every later request until the process starts again, as the
  future that holds its exception is kept for the loop (`mcp.py:91`, `mcp.py:125`).
* A refresh that awaits the source when a publish on the same replica completes
  puts the older document back until the next check (`policy.py:299`). This is why
  `NeverGoesBack` and `RefreshIsCurrent` speak of replicas that only follow;
  `Converges` holds for all.
* Calls that reach a fresh replica while its first load is under way are denied
  (`policy.py:284`, `_checked` is set before the load ends).
* A ticket that is committed with an earlier `created_at` than the cursor is not in
  the rest of that walk (`store.py:142`); the next walk shows it.
* A call that fails late discards a newer session than the one it used
  (`mcp_upstreams.py:87`): others that use it fail, as `CallsEnd` allows, and nothing leaks.
* Both `Tell` of the notifier and `audited()` may fail with the audit log; nobody awaits
  the delivery, so its outcome is then lost.

## Proofs

The theorems hold for every set of tickets, arguments, resumes, operators and
replicas, every document and every limit, from the assumptions named in the modules
that declare the constants. Those of `Gateway`: `None` is neither a value nor a
result (`NoneIsNoValue`, `NoneIsNoResult`), the task sets are disjoint
(`TasksAreDistinct`), every task has a replica (`HomeIsAReplica`), the faults are
among crash, abort and slow, and their number is bounded by a natural number
(`FaultsAreKnown`). Where a theorem needs one kind of fault left out, it says so.

Two modules are about `Gateway`, the second builds on the first.

* `GatewayProofs`: `TypedInvariant`, and from it `TypeCorrect` (`TypeOK`). `TypeOK` alone is
  not inductive: that the upstream receives arguments and that a report writes a
  result needs to know that a task at work has a filed ticket, arguments and, once it
  executed, an outcome (`WorkIsSound`). `LeaveTyped` covers the steps that end tasks,
  `FinishTyped` the end of an execution; the others are one step per action.

  `ClaimInvariant` (`OneRun`), and from it `RunsAtMostOnce`. `AtMostOnce`
  says nothing about who may run next. `ClaimIsTheRun` adds it: a call not yet started
  has neither ticket nor execution; a filed ticket without a claim has not run;
  whoever executes a gated call holds its claim, alone, and until it dispatches the
  upstream has not seen the call. Most steps are `Quiet` and keep it by one lemma.
  The result and the lease do not occur in the invariant, which is why neither slow
  executors nor an overwritten result can cause a second execution.
* `GatewayTicketProofs`: `VerdictInvariant` (`OneVerdict`). The code reads a ticket, awaits, and
  acts on what it read. `ActsOnVerdict` says for each point of a task what that reading
  still tells of the ticket, `StandsBy` the same for an operator that was told its
  verdict is recorded, `OutcomeIsApproved` that a stored success is one of the approved
  call. All of it holds because a verdict is given once, so steps come in three
  kinds: one task moves and the tickets keep their verdict (`MoveKeeps`), a task moves and
  the store is untouched (`LocalKeeps`), or tasks leave (`LeaveKeeps`). From it follow
  `RunsWhatWasApproved`, `DeniedStaysDenied`, `VerdictStands` and `EditsDisclosed`.

  With `"slow" \notin Faults`, `OutcomeInvariant` (`OneOutcome`) adds
  `ClosedByOne`, that an executor finds its ticket open and its claim fresh, to
  `AnswersAgree`: only its executor or, once it is gone, one closer writes the result.
  From it `EveryoneIsToldTheSame`, `ResultStands` (`ResultSetOnce`, which `result_once` shows to fail
  without that assumption) and `ImplementsLifecycle`: `LifeStep` maps filing, the verdict, the
  dispatch and the closing to the four steps of `TicketLifecycle` and all else to a stutter.
  For all faults, `NoSleepThroughVerdict`: `NoLostWakeup` is not inductive, since a waiter about to
  sleep on an older reading, and an operator that has signalled and not yet answered,
  count as well (`SignalKept`). For all faults, too, `VerdictsAreAudited` (`VerdictsReachTheLog`): until it is
  audited, a verdict is with the request that gave it, and no other step forgets it (`NothingIsForgotten`).

And the other components. A component has one inductive invariant, named in brackets,
that TLC also finds to hold on the instance of its run; types are part of it, and every
invariant the run checks follows from it.

* `PipelineProofs`, the policy: `PolicyIsSound`, that only documents that compile are in
  force, for documents whose rules are a list and say whether they deny
  (`DocumentsHaveRules`). A loop over the rules stops at the least rule of a set
  (`StopsAtLeast`), so `grant_for` is the first match (`GrantIsFirstMatch`), and the rule `may_call`
  stops at, if it denies, would have stopped `grant_for` too (`GrantedMayCall`). Hence
  `ListedWhenGranted`, `ClaimsIgnored`, `PolicyTypeCorrect`. All four hold of `Spec` and of `PipelineSpec`.
* `PipelineProofs`, the steps (`PipelineInv`): for every set of extra steps with their stages and
  orders, every document and call. The paths come first: places of a stage are 0..n-1,
  each once (`PlacesAreAll`), so sorting loses and repeats no step (`InOrderLists`), and
  `FullPath` and `ResumePath` say that whatever is added, authorize is before the gate,
  the gate before validate, then materialize, redact, and dispatch last.
  `UpstreamGetsWhatWasChecked` speaks of the moment of the dispatch, so the invariant says what
  the call carries everywhere before (`Carries`: what was approved, then what was
  validated, then that without references), that the gate lets nothing pass that was not
  approved (`GateHolds`), where the request is (`Travels`), and that whatever repeats a
  secret still has redact to pass on the way out (`Guarded`). Hence `PipelineTypeCorrect`,
  `CheckedBeforeDispatch`, `TicketsAreWithoutSecrets`, and `LeakedResultsAreRejected` (`ResultsAreRedacted`), which is of results: the
  content of an error is not looked at. Assumed: extra steps
  have other names than the built-in ones and an integer order (`ExtrasAreSteps`),
  agents and operators write references, never the value of a secret, and no argument
  with the name the extra step adds (`RequestsArePlain`, `EditsArePlain`), and `None` is no
  content and no ticket (`NoneIsNoData`).
* `PolicySyncProofs` (`SyncInv`): the lock of a replica is held by the task that loads
  (`LockIsLoader`), so the version a load asked with is the version in force when it is
  applied (`LoadsFollow`), and every version served is committed (`TableIsSound`). Hence
  `PoliciesMoveOn` (`NeverGoesBack`), for replicas where nothing is published.
  `OperatorsSeeTheLatest` (`RefreshIsCurrent`) needs to follow the queue on the lock while nothing fails:
  a refresh that waits is behind a load that will bring what it asked for, or behind one
  that has not looked yet (`WillBeCurrent`). Assumed: the kinds of tasks are distinct and
  the publishers finitely many (`TasksAreDistinct`, `PublishersAreCounted`).
* `McpUpstreamsProofs` (`UpstreamsInv`): `NoneLeftBehind` (`NoSessionLeaks`) rests on `CurrentIsTheOne`, that a
  session nobody discarded is the current one of its upstream, where the next discard
  finds it, and that on the lock, which its opener holds until it shares the client or
  fails (`LockIsOpener`). `ListingsAreWhole` needs that a listing under way has the first upstreams
  in order. Assumed: a list of targets, distinct tasks, a bound on sessions
  (`TargetsAreListed`, `TasksAreDistinct`, `SessionsAreBounded`).
* `ApprovalQueueProofs` (`QueueInv`): a page is the first of what is behind the cursor, and what it
  leaves out is behind its last (`PageIsTheFirst`, from ranks in the order of the queue,
  `RanksAreAll`). What the walk has to show and has not shown is therefore behind the ticket
  it stands at (`NothingIsPassed`): `WalksAreComplete`, `PagesAreInOrder`. `StoresShowTheSame`: where tickets
  come to be seen as they are created, places in the dict are ranks in the query
  (`PlacesAreRanks`), and what the loop passes is what is behind the cursor (`LoopSelects`); of a
  plain query both filters select the same (`FiltersAgree`).
  Assumed: finitely many tickets (`TicketsAreCounted`), names of letters and patterns of known
  parts (`NamesAreText`, `QueriesAreKnown`).
* `WebhookNotifierProofs` (`NotifierInv`): what the log says is decided by the last post, so
  `DeliveryIsSound` says of each place of a delivery what its posts so far amount to (`Told`).
  Hence `AuditIsTrue` and, from what `drain` gathered, `DrainWaitsForAll`. That the
  counters are capped one above the attempts cuts nothing off (`CappedIsCounted`).
* `McpEdgeProofs` (`BudgetInv` for the limiter): `BudgetHolds` needs `CountsCover`: what was admitted in this
  minute is counted in a window of this minute, and nothing was admitted in a later one.
  The edge takes no step of the limiter that the limiter does not have
  (`EdgeUsesLimiter`), so its budget holds behind the edge (`ServedWithinBudget`); the future, the
  owner task and the manager stay together (`EdgeTypeCorrect`). `KnownReasonsBreak` rests on what the
  future and the owner still tell of why no manager runs (`ReasonsInv`).

Only model-checked: the liveness properties (`WaiterReleased`, `ApprovedGetsResult`, `Converges`, `CallsEnd`,
`DeliveriesEnd`, `EveryoneServed`), which depend on fairness and on ENABLED, out of the prover's
reach. What the provers cannot look into is stated by places and ranks
where a theorem needs it: sorting and selecting from a sequence (`SortSeq`,
`SelectSeq`).

## Not modelled

* Wiring, settings, packaging: no state that changes. The settings that matter are
  the clocks and bounds of the modules.
* The mapping of errors to HTTP status codes, the roles of the REST API, the shape of MCP
  answers, and whose ticket `gateway.check` may read: checks on one request, without state.
* `FilePolicySource`: its version is a hash of a file that other programs write as well;
  two publishes at once share one temporary file, see the hazards in `PROJECT.json`.
* A clock that is set back, and the limit 0 that admits every call, in the rate limiter.
* A change of event loop under the upstream sessions or the edge: it happens in tests
  and in reloads, where the objects of the old loop are dropped.
* Signatures and bodies of notifications, the contents of listings, JSON Schema beyond
  the set of objects a schema accepts.
* The audit events of the steps: nothing reads them, and a failing audit log is an abort.
