----------------------------- MODULE McpUpstreams -----------------------------
(***************************************************************************)
(* The MCP sessions of one process: per upstream one open client, shared   *)
(* by every call and every listing of the tools, opened by an owner task   *)
(* that closes it when it is discarded (_Session), and the listing that is *)
(* reused until it is too old (McpUpstreams).  One action per await.       *)
(*                                                                         *)
(* asyncio resumes who waits for a client before its owner can go on, and  *)
(* a task that is cancelled while it waits for a future cancels the future.*)
(* The change of event loop between test runs is left out.                 *)
(***************************************************************************)
EXTENDS Naturals, Sequences, FiniteSets, FiniteSetsExt, SequencesExt

CONSTANTS
    Targets,        \* the upstreams, in the order they are listed
    Callers,        \* tasks that call a tool
    Target,         \* Target[c]: the upstream of the tool c calls
    Listers,        \* tasks that list the tools
    MaxSessions,    \* bound on the sessions open or closing at a time
    Nobody          \* no task

Tasks     == Callers \cup Listers
Upstreams == ToSet(Targets)
Sessions  == 1..MaxSessions

ASSUME TargetsAreListed == Targets \in Seq(Upstreams) /\ Targets # <<>>
ASSUME TargetsAreDistinct == IsInjective(Targets)
ASSUME CallersHaveTargets == \A c \in Callers : Target[c] \in Upstreams
ASSUME TasksAreDistinct == Callers \cap Listers = {} /\ Nobody \notin Tasks
ASSUME SessionsAreBounded == MaxSessions \in Nat

VARIABLES
    client,         \* client[u]: the session calls get (_client), 0 for none
    current,        \* current[u]: the open or opening session whose event is _stop
    lock,           \* lock[u]: the task that opens a session
    owner,          \* owner[s]: opening, open or closed
    of,             \* of[s]: the upstream of the session s
    stopped,        \* sessions whose event is set
    pc,             \* where each task is
    using,          \* using[t]: the session t opens or uses, 0 once that is over
    got,            \* got[l]: what a listing under way has collected
    listing,        \* the listing that is kept
    fresh           \* whether it is younger than ttl_seconds

sessionVars == <<client, current, lock, owner, of, stopped>>
catalogVars == <<got, listing, fresh>>
vars == <<sessionVars, pc, using, catalogVars>>

Init ==
    /\ client = [u \in Upstreams |-> 0] /\ current = [u \in Upstreams |-> 0]
    /\ lock = [u \in Upstreams |-> Nobody]
    /\ owner = [s \in Sessions |-> "closed"]
    /\ of = [s \in Sessions |-> Targets[1]]
    /\ stopped = {}
    /\ pc = [t \in Tasks |-> "idle"] /\ using = [t \in Tasks |-> 0]
    /\ got = [l \in Listers |-> <<>>]
    /\ listing = <<>> /\ fresh = FALSE

\* The upstream a task is busy with.
Where(t) == IF t \in Callers THEN Target[t] ELSE Targets[Len(got[t]) + 1]

Goto(t, label, s) == pc' = [pc EXCEPT ![t] = label] /\ using' = [using EXCEPT ![t] = s]

\* Whether a task still waits for the client of s (the future ready).
Awaited(s) == \E t \in Tasks : pc[t] = "opens" /\ using[t] = s

--------------------------------------------------------------------------------
(* _Session.client.                                                         *)

\* FAULTY: nobody else opening is not looked at.
MayOpenAnyway(u) == client[u] = 0

MayOpen(u) == client[u] = 0 /\ lock[u] = Nobody

Share(t) ==
    /\ client[Where(t)] # 0
    /\ pc[t] = "asks" \/ (pc[t] = "queued" /\ lock[Where(t)] = Nobody)
    /\ Goto(t, "uses", client[Where(t)])
    /\ UNCHANGED <<sessionVars, catalogVars>>

Open(t) ==
    LET u == Where(t)  s == Min({i \in Sessions : owner[i] = "closed"}) IN
    /\ pc[t] \in {"asks", "queued"} /\ MayOpen(u)
    /\ \E i \in Sessions : owner[i] = "closed"
    /\ lock' = [lock EXCEPT ![u] = t]
    /\ current' = [current EXCEPT ![u] = s]
    /\ owner' = [owner EXCEPT ![s] = "opening"]
    /\ of' = [of EXCEPT ![s] = u]
    /\ Goto(t, "opens", s)
    /\ UNCHANGED <<client, stopped, catalogVars>>

Queue(t) ==
    /\ pc[t] = "asks"
    /\ client[Where(t)] = 0 /\ lock[Where(t)] # Nobody
    /\ Goto(t, "queued", 0)
    /\ UNCHANGED <<sessionVars, catalogVars>>

Unlocked(t) == [u \in Upstreams |-> IF lock[u] = t THEN Nobody ELSE lock[u]]

\* The owner has entered the client: the task that waits for it shares it.
TakeClient(t) ==
    /\ pc[t] = "opens" /\ using[t] # 0 /\ owner[using[t]] = "open"
    /\ client' = [client EXCEPT ![Where(t)] = using[t]]
    /\ lock' = Unlocked(t)
    /\ Goto(t, "uses", using[t])
    /\ UNCHANGED <<current, owner, of, stopped, catalogVars>>

--------------------------------------------------------------------------------
(* _Session._own.                                                           *)

Opened(s) ==
    /\ owner[s] = "opening" /\ Awaited(s)
    /\ owner' = [owner EXCEPT ![s] = "open"]
    /\ UNCHANGED <<client, current, lock, of, stopped, pc, using, catalogVars>>

\* FAULTY: an owner that ends clears the client, whoever opened it.
ClearsAny(s) == [client EXCEPT ![of[s]] = 0]

Clears(s) == IF current[of[s]] = s THEN [client EXCEPT ![of[s]] = 0] ELSE client

\* FAULTY: who waits for a client is not told that it cannot be opened.
TellsUsers(s) == [t \in Tasks |-> IF using[t] = s /\ pc[t] = "uses" THEN 0 ELSE using[t]]

\* Who waits for the client gets the exception, who uses it will.
Tells(s) == [t \in Tasks |-> IF using[t] = s THEN 0 ELSE using[t]]

\* The owner ends, and nothing of the session is left.
Over(s) ==
    /\ client' = Clears(s)
    /\ current' = [u \in Upstreams |-> IF current[u] = s THEN 0 ELSE current[u]]
    /\ owner' = [owner EXCEPT ![s] = "closed"]
    /\ of' = [of EXCEPT ![s] = Targets[1]]
    /\ stopped' = stopped \ {s}
    /\ using' = Tells(s)
    /\ UNCHANGED <<lock, pc, catalogVars>>

\* The handshake fails, or nobody waits for the client any more.
OpenFails(s) == owner[s] = "opening" /\ Over(s)

\* The session was discarded, or the upstream ended it.
Closes(s) == owner[s] = "open" /\ ~Awaited(s) /\ Over(s)

--------------------------------------------------------------------------------
(* _use, call_tool and tools_for.                                           *)

StartCall(c) ==
    /\ c \in Callers /\ pc[c] = "idle"
    /\ Goto(c, "asks", 0)
    /\ UNCHANGED <<sessionVars, catalogVars>>

\* A listing that is fresh is returned at once.
StartListing(l) ==
    /\ l \in Listers /\ pc[l] = "idle" /\ ~fresh
    /\ Goto(l, "asks", 0)
    /\ UNCHANGED <<sessionVars, catalogVars>>

CallAnswered(c) ==
    /\ c \in Callers /\ pc[c] = "uses" /\ using[c] # 0
    /\ Goto(c, "idle", 0)
    /\ UNCHANGED <<sessionVars, catalogVars>>

\* FAULTY: the listing that is kept is filled as the answers come in.
KeptPartly(tools) == tools

Kept(tools) == IF Len(tools) = Len(Targets) THEN tools ELSE listing

ToolsListed(l) ==
    LET tools == Append(got[l], Where(l))
        whole == Len(tools) = Len(Targets)
    IN
    /\ l \in Listers /\ pc[l] = "uses" /\ using[l] # 0
    /\ listing' = Kept(tools)
    /\ fresh' = (fresh \/ whole)
    /\ got' = [got EXCEPT ![l] = IF whole THEN <<>> ELSE tools]
    /\ Goto(l, IF whole THEN "idle" ELSE "asks", 0)
    /\ UNCHANGED sessionVars

Discard(u) ==
    /\ stopped' = stopped \cup ({current[u]} \ {0})
    /\ client' = [client EXCEPT ![u] = 0]

\* However a task fails, it discards the session of the moment (BaseException).
Gives(t) ==
    /\ Discard(Where(t))
    /\ lock' = Unlocked(t)
    /\ got' = [l \in Listers |-> IF l = t THEN <<>> ELSE got[l]]
    /\ Goto(t, "idle", 0)
    /\ UNCHANGED <<current, owner, of, listing, fresh>>

\* The client cannot be opened, or the upstream or its session fails the request.
Fails(t) == (pc[t] = "uses" \/ (pc[t] = "opens" /\ using[t] = 0)) /\ Gives(t)

Cancel(t) == pc[t] \in {"opens", "uses", "queued"} /\ Gives(t)

\* close(): every session winds down.
Close ==
    /\ \E u \in Upstreams : current[u] # 0
    /\ stopped' = stopped \cup ({current[u] : u \in Upstreams} \ {0})
    /\ client' = [u \in Upstreams |-> 0]
    /\ UNCHANGED <<current, lock, owner, of, pc, using, catalogVars>>

GetsOld ==
    /\ fresh /\ fresh' = FALSE
    /\ UNCHANGED <<sessionVars, pc, using, got, listing>>

--------------------------------------------------------------------------------

Request(t) == StartCall(t) \/ StartListing(t)

Progress(t) ==
    \/ Share(t) \/ Open(t) \/ Queue(t) \/ TakeClient(t)
    \/ CallAnswered(t) \/ ToolsListed(t) \/ Fails(t)

Own(s) == Opened(s) \/ OpenFails(s) \/ Closes(s)

Next ==
    \/ \E t \in Tasks : Request(t) \/ Progress(t) \/ Cancel(t)
    \/ \E s \in Sessions : Own(s)
    \/ Close \/ GetsOld

\* A handshake and a request end, one way or the other, a discarded session is
\* closed, and the lock is handed on in the order it was asked for.
Fairness ==
    /\ \A t \in Tasks : WF_vars(Progress(t)) /\ SF_vars(Share(t) \/ Open(t))
    /\ \A s \in Sessions :
          WF_vars(Opened(s) \/ OpenFails(s)) /\ WF_vars(s \in stopped /\ Closes(s))

Spec == Init /\ [][Next]_vars /\ Fairness

--------------------------------------------------------------------------------

\* The lock of an upstream is held by the one task that opens its session.
TypeOK ==
    /\ client \in [Upstreams -> {0} \cup Sessions] /\ current \in [Upstreams -> {0} \cup Sessions]
    /\ owner \in [Sessions -> {"opening", "open", "closed"}]
    /\ of \in [Sessions -> Upstreams] /\ stopped \subseteq Sessions
    /\ pc \in [Tasks -> {"idle", "asks", "queued", "opens", "uses"}]
    /\ using \in [Tasks -> {0} \cup Sessions]
    /\ \A l \in Listers : Len(got[l]) < Len(Targets)
    /\ \A u \in Upstreams : {t \in Tasks : pc[t] = "opens" /\ Where(t) = u} = {lock[u]} \ {Nobody}

\* No session is left behind: one that nobody discarded is the one calls of its
\* upstream get, or is about to be, and the one a discard or close() stops,
\* however openings, failures and cancellations overlap.
NoSessionLeaks ==
    \A s \in Sessions : owner[s] \in {"opening", "open"} /\ s \notin stopped =>
        /\ current[of[s]] = s
        /\ client[of[s]] = s \/ Awaited(s)

\* The tools an agent is shown are those of every upstream, once: an upstream
\* that does not answer fails the listing, and a listing under way shows to
\* nobody (tools_for, "fail loud").
WholeListing == fresh => listing = Targets

\* Every call and every listing ends, whoever opens the session it waits for.
CallsEnd == \A t \in Tasks : pc[t] # "idle" ~> pc[t] = "idle"
================================================================================
