-------------------------- MODULE McpUpstreamsProofs --------------------------
(***************************************************************************)
(* No session of an upstream is left behind and no listing is kept that is *)
(* not whole, for any number of upstreams, tasks and sessions.  A session  *)
(* that nobody discarded is found by the next discard because it is the    *)
(* current one of its upstream; that it stays so rests on the lock, which  *)
(* its opener holds until it shares the client or fails.                   *)
(***************************************************************************)
EXTENDS McpUpstreams, WellFoundedInduction, TLAPS

SessionsTyped ==
    /\ client \in [Upstreams -> {0} \cup Sessions] /\ current \in [Upstreams -> {0} \cup Sessions]
    /\ lock \in [Upstreams -> Tasks \cup {Nobody}]
    /\ owner \in [Sessions -> {"opening", "open", "closed"}]
    /\ of \in [Sessions -> Upstreams] /\ stopped \subseteq Sessions

TasksTyped ==
    /\ pc \in [Tasks -> {"idle", "asks", "queued", "opens", "uses"}]
    /\ using \in [Tasks -> {0} \cup Sessions]

\* A listing under way has the first upstreams, in order; the one kept has all.
ListingsInOrder ==
    /\ got \in [Listers -> Seq(Upstreams)]
    /\ \A l \in Listers :
          Len(got[l]) < Len(Targets) /\ \A i \in 1..Len(got[l]) : got[l][i] = Targets[i]
    /\ WholeListing

\* The lock of an upstream is held by who opens its session.
LockIsOpener ==
    /\ \A t \in Tasks : pc[t] = "opens" => lock[Where(t)] = t
    /\ \A u \in Upstreams : lock[u] # Nobody => pc[lock[u]] = "opens" /\ Where(lock[u]) = u

\* The current session of an upstream is one of its own that is not over, and it is the
\* one that is shared, and the one that is being opened.
CurrentIsTheOne ==
    /\ \A u \in Upstreams : current[u] # 0 => of[current[u]] = u /\ owner[current[u]] # "closed"
    /\ \A u \in Upstreams : client[u] # 0 => client[u] = current[u]
    /\ \A t \in Tasks : pc[t] = "opens" /\ using[t] # 0 => using[t] = current[Where(t)]

UpstreamsInv ==
    /\ SessionsTyped /\ TasksTyped /\ ListingsInOrder
    /\ LockIsOpener /\ CurrentIsTheOne /\ NoSessionLeaks

--------------------------------------------------------------------------------

\* A session that is not in use is found when there is one.
LEMMA LeastIsMember ==
    ASSUME NEW S \in SUBSET Nat, S # {}
    PROVE  Min(S) \in S
<1>1. PICK i \in S : \A j \in S : <<j, i>> \notin OpToRel(<, Nat)
    BY NatLessThanWellFounded, WFMin
<1>2. \A j \in S : i =< j
    <2> SUFFICES ASSUME NEW j \in S PROVE i =< j
        OBVIOUS
    <2>1. ~(j < i)
        BY <1>1 DEF OpToRel
    <2> QED BY <2>1
<1> QED BY <1>2 DEF Min

\* Every task is about an upstream of the gateway.
LEMMA WhereIsUpstream ==
    ASSUME ListingsInOrder, NEW t \in Tasks
    PROVE  Where(t) \in Upstreams
<1>1. CASE t \in Callers
    BY <1>1, CallersHaveTargets DEF Where
<1>2. CASE t \in Listers
    <2>1. Len(got[t]) + 1 \in DOMAIN Targets
        BY <1>2, TargetsAreListed DEF ListingsInOrder
    <2> QED BY <1>2, <2>1, TasksAreDistinct DEF Where, Upstreams, ToSet
<1> QED BY <1>1, <1>2 DEF Tasks

LEMMA UpstreamsInit == Init => UpstreamsInv
<1> SUFFICES ASSUME Init PROVE UpstreamsInv
    OBVIOUS
<1> USE DEF Init
<1>1. Targets[1] \in Upstreams
    BY TargetsAreListed DEF Upstreams, ToSet
<1>2. SessionsTyped /\ TasksTyped
    BY <1>1 DEF SessionsTyped, TasksTyped
<1>3. ListingsInOrder
    BY TargetsAreListed DEF ListingsInOrder, WholeListing
<1>4. LockIsOpener /\ CurrentIsTheOne /\ NoSessionLeaks
    BY DEF LockIsOpener, CurrentIsTheOne, NoSessionLeaks
<1> QED BY <1>2, <1>3, <1>4 DEF UpstreamsInv

\* A step that leaves the sessions alone, and only moves tasks that neither open
\* a session nor begin to.
Quiet ==
    /\ UNCHANGED <<client, current, lock, owner, of, stopped, got>>
    /\ TasksTyped'
    /\ \A t \in Tasks : (pc'[t] = "opens" <=> pc[t] = "opens") /\ (pc[t] = "opens" => using'[t] = using[t])

LEMMA QuietKeeps ==
    ASSUME UpstreamsInv, Quiet, WholeListing' PROVE UpstreamsInv'
<1> USE DEF UpstreamsInv, Quiet
<1>1. SessionsTyped' /\ ListingsInOrder'
    BY DEF SessionsTyped, ListingsInOrder
<1>2. \A t : Where(t)' = Where(t)
    BY DEF Where
<1>3. LockIsOpener' /\ CurrentIsTheOne'
    BY <1>2 DEF LockIsOpener, CurrentIsTheOne, SessionsTyped
<1>4. \A s : Awaited(s) => Awaited(s)'
    BY DEF Awaited
<1>5. NoSessionLeaks'
    BY <1>4 DEF NoSessionLeaks
<1> QED BY <1>1, <1>3, <1>5

LEMMA QuietSteps ==
    ASSUME UpstreamsInv, NEW t \in Tasks,
           Share(t) \/ Queue(t) \/ StartCall(t) \/ StartListing(t) \/ CallAnswered(t)
    PROVE  Quiet /\ WholeListing'
<1> USE DEF UpstreamsInv, TasksTyped, Goto, sessionVars, catalogVars
<1>1. Where(t) \in Upstreams
    BY WhereIsUpstream
<1>2. WholeListing'
    BY DEF Share, Queue, StartCall, StartListing, CallAnswered, ListingsInOrder, WholeListing
<1>3. /\ pc[t] # "opens" /\ UNCHANGED <<client, current, lock, owner, of, stopped, got>>
      /\ \E label \in {"idle", "asks", "queued", "uses"}, s \in {0} \cup Sessions :
            pc' = [pc EXCEPT ![t] = label] /\ using' = [using EXCEPT ![t] = s]
    BY <1>1 DEF Share, Queue, StartCall, StartListing, CallAnswered, SessionsTyped
<1>4. Quiet
    BY <1>3 DEF Quiet
<1> QED BY <1>2, <1>4

--------------------------------------------------------------------------------
(* Opening a session.                                                       *)

LEMMA OpenKeeps ==
    ASSUME UpstreamsInv, NEW t \in Tasks, Open(t) PROVE UpstreamsInv'
<1> USE DEF UpstreamsInv, SessionsTyped, TasksTyped
<1> DEFINE u == Where(t)
           s == Min({i \in Sessions : owner[i] = "closed"})
<1>1. u \in Upstreams
    BY WhereIsUpstream
<1>2. s \in Sessions /\ owner[s] = "closed"
    <2> DEFINE free == {i \in Sessions : owner[i] = "closed"}
    <2>1. free \in SUBSET Nat
        BY SessionsAreBounded DEF Sessions
    <2>2. \E i \in Sessions : owner[i] = "closed"
        BY DEF Open
    <2>3. Min(free) \in free
        BY <2>1, <2>2, LeastIsMember
    <2> QED BY <2>3
<1>3. s # 0 /\ Nobody # t
    BY <1>2, SessionsAreBounded, TasksAreDistinct DEF Sessions
<1> HIDE DEF s, u
<1>4. /\ pc[t] # "opens" /\ client[u] = 0 /\ lock[u] = Nobody
      /\ lock' = [lock EXCEPT ![u] = t] /\ current' = [current EXCEPT ![u] = s]
      /\ owner' = [owner EXCEPT ![s] = "opening"] /\ of' = [of EXCEPT ![s] = u]
      /\ pc' = [pc EXCEPT ![t] = "opens"] /\ using' = [using EXCEPT ![t] = s]
      /\ UNCHANGED <<client, stopped, got, listing, fresh>>
    BY DEF Open, MayOpen, Goto, catalogVars, s, u
<1>5. \A x : Where(x)' = Where(x)
    BY <1>4 DEF Where
<1>6. SessionsTyped' /\ TasksTyped' /\ ListingsInOrder'
    BY <1>1, <1>2, <1>4 DEF ListingsInOrder, WholeListing
<1>7. \A x \in Tasks : pc[x] = "opens" => Where(x) # u /\ Where(x) \in Upstreams
    BY <1>1, <1>4, TasksAreDistinct, WhereIsUpstream DEF LockIsOpener
<1>8. LockIsOpener'
    BY <1>1, <1>3, <1>4, <1>5, <1>7 DEF LockIsOpener, u
<1>9. CurrentIsTheOne'
    <2>1. \A v \in Upstreams : current[v] # s
        BY <1>2, <1>3 DEF CurrentIsTheOne
    <2> QED BY <1>1, <1>2, <1>3, <1>4, <1>5, <1>7, <2>1 DEF CurrentIsTheOne, u
<1>10. NoSessionLeaks'
    <2> SUFFICES ASSUME NEW x \in Sessions, owner'[x] \in {"opening", "open"}, x \notin stopped'
                 PROVE  current'[of'[x]] = x /\ (client'[of'[x]] = x \/ Awaited(x)')
        BY DEF NoSessionLeaks
    <2>1. CASE x = s
        BY <1>1, <1>2, <1>4, <2>1 DEF Awaited
    <2>2. CASE x # s
        <3>1. current[of[x]] = x /\ (client[of[x]] = x \/ Awaited(x))
            BY <1>2, <1>4, <2>2 DEF NoSessionLeaks
        <3>2. of[x] # u
            BY <1>3, <1>4, <1>7, <3>1, SessionsAreBounded DEF Awaited, CurrentIsTheOne, Sessions
        <3> QED BY <1>2, <1>4, <2>2, <3>1, <3>2 DEF Awaited
    <2> QED BY <2>1, <2>2
<1> QED BY <1>6, <1>8, <1>9, <1>10

LEMMA TakeClientKeeps ==
    ASSUME UpstreamsInv, NEW t \in Tasks, TakeClient(t) PROVE UpstreamsInv'
<1> USE DEF UpstreamsInv, SessionsTyped, TasksTyped
<1> DEFINE u == Where(t)
           s == using[t]
<1>1. u \in Upstreams /\ s \in Sessions /\ s # 0
    BY WhereIsUpstream, SessionsAreBounded DEF TakeClient, Sessions
<1>2. /\ pc[t] = "opens" /\ s = current[u] /\ owner[s] = "open" /\ lock[u] = t
      /\ client' = [client EXCEPT ![u] = s]
      /\ lock' = [v \in Upstreams |-> IF lock[v] = t THEN Nobody ELSE lock[v]]
      /\ pc' = [pc EXCEPT ![t] = "uses"] /\ using' = using
      /\ UNCHANGED <<current, owner, of, stopped, got, listing, fresh>>
    BY <1>1 DEF TakeClient, Unlocked, Goto, catalogVars, CurrentIsTheOne, LockIsOpener
<1>3. \A x : Where(x)' = Where(x)
    BY <1>2 DEF Where
<1>4. SessionsTyped' /\ TasksTyped' /\ ListingsInOrder'
    BY <1>1, <1>2 DEF ListingsInOrder, WholeListing
<1>5. \A x \in Tasks : pc[x] = "opens" => Where(x) \in Upstreams
    BY WhereIsUpstream
<1>6. LockIsOpener'
    BY <1>1, <1>2, <1>3, <1>5, TasksAreDistinct DEF LockIsOpener
<1>7. CurrentIsTheOne'
    BY <1>1, <1>2, <1>3 DEF CurrentIsTheOne
<1>8. NoSessionLeaks'
    <2> SUFFICES ASSUME NEW x \in Sessions, owner[x] \in {"opening", "open"}, x \notin stopped
                 PROVE  current[of[x]] = x /\ (client'[of[x]] = x \/ Awaited(x)')
        BY <1>2 DEF NoSessionLeaks
    <2>1. current[of[x]] = x /\ (client[of[x]] = x \/ Awaited(x))
        BY DEF NoSessionLeaks
    <2>2. CASE x = s
        BY <1>1, <1>2, <2>1, <2>2 DEF CurrentIsTheOne
    <2>3. CASE x # s
        <3>1. of[x] # u /\ (Awaited(x) => Awaited(x)')
            BY <1>2, <2>1, <2>3 DEF Awaited
        <3> QED BY <1>2, <2>1, <3>1
    <2> QED BY <2>1, <2>2, <2>3
<1> QED BY <1>4, <1>6, <1>7, <1>8

\* The handshake succeeds: nothing changes but that the session is open.
LEMMA OpenedKeeps ==
    ASSUME UpstreamsInv, NEW s \in Sessions, Opened(s) PROVE UpstreamsInv'
<1> USE DEF UpstreamsInv, SessionsTyped, TasksTyped, Opened, catalogVars
<1>1. \A x : Where(x)' = Where(x) /\ (Awaited(x)' <=> Awaited(x))
    BY DEF Where, Awaited
<1>2. SessionsTyped' /\ TasksTyped' /\ ListingsInOrder'
    BY DEF ListingsInOrder, WholeListing
<1>3. LockIsOpener' /\ CurrentIsTheOne'
    BY <1>1 DEF LockIsOpener, CurrentIsTheOne
<1>4. NoSessionLeaks'
    BY <1>1 DEF NoSessionLeaks
<1> QED BY <1>2, <1>3, <1>4

--------------------------------------------------------------------------------
(* The end of a session.                                                    *)

\* An owner that ends leaves nothing of its session and touches no other.
LEMMA OverKeeps ==
    ASSUME UpstreamsInv, NEW s \in Sessions, Over(s) PROVE UpstreamsInv'
<1> USE DEF UpstreamsInv, SessionsTyped, TasksTyped
<1>1. Targets[1] \in Upstreams
    BY TargetsAreListed DEF Upstreams, ToSet
<1>2. s # 0
    BY SessionsAreBounded DEF Sessions
<1>3. \A u \in Upstreams :
          /\ client'[u] = IF client[u] = s THEN 0 ELSE client[u]
          /\ current'[u] = IF current[u] = s THEN 0 ELSE current[u]
    BY <1>2 DEF Over, Clears, CurrentIsTheOne
<1>4. \A t \in Tasks : using'[t] = IF using[t] = s THEN 0 ELSE using[t]
    BY DEF Over, Tells
<1>5. \A x : Where(x)' = Where(x)
    BY DEF Where, Over, catalogVars
<1>6. SessionsTyped' /\ TasksTyped' /\ ListingsInOrder'
    BY <1>1 DEF Over, Clears, Tells, catalogVars, ListingsInOrder, WholeListing
<1>7. LockIsOpener'
    BY <1>5 DEF Over, LockIsOpener
<1>8. \A t \in Tasks : Where(t) \in Upstreams
    BY WhereIsUpstream
<1>9. CurrentIsTheOne'
    BY <1>2, <1>3, <1>4, <1>5, <1>8 DEF Over, CurrentIsTheOne
<1>10. NoSessionLeaks'
    <2> SUFFICES ASSUME NEW x \in Sessions, owner'[x] \in {"opening", "open"}, x \notin stopped'
                 PROVE  current'[of'[x]] = x /\ (client'[of'[x]] = x \/ Awaited(x)')
        BY DEF NoSessionLeaks
    <2>1. x # s /\ owner'[x] = owner[x] /\ of'[x] = of[x] /\ x \notin stopped
        BY DEF Over
    <2>2. current[of[x]] = x /\ (client[of[x]] = x \/ Awaited(x))
        BY <2>1 DEF NoSessionLeaks
    <2>3. Awaited(x) => Awaited(x)'
        BY <1>4, <2>1 DEF Over, Awaited
    <2> QED BY <1>3, <2>1, <2>2, <2>3
<1> QED BY <1>6, <1>7, <1>9, <1>10

--------------------------------------------------------------------------------
(* Listings, failures and the shutdown.                                     *)

LEMMA ToolsListedKeeps ==
    ASSUME UpstreamsInv, NEW l \in Tasks, ToolsListed(l) PROVE UpstreamsInv'
<1> USE DEF UpstreamsInv, SessionsTyped, TasksTyped
<1> DEFINE tools == Append(got[l], Where(l))
           whole == Len(tools) = Len(Targets)
<1>1. l \in Listers /\ pc[l] = "uses" /\ Where(l) \in Upstreams
    BY WhereIsUpstream DEF ToolsListed
<1>2. Where(l) = Targets[Len(got[l]) + 1]
    BY <1>1, TasksAreDistinct DEF Where
<1>3. /\ tools \in Seq(Upstreams) /\ Len(tools) <= Len(Targets)
      /\ \A i \in 1..Len(tools) : tools[i] = Targets[i]
    BY <1>1, <1>2, TargetsAreListed DEF ListingsInOrder
<1>4. whole => tools = Targets
    BY <1>3, TargetsAreListed
<1> HIDE DEF tools
<1>5. /\ got' = [got EXCEPT ![l] = IF whole THEN <<>> ELSE tools]
      /\ listing' = (IF whole THEN tools ELSE listing) /\ fresh' = (fresh \/ whole)
    BY DEF ToolsListed, Kept, tools
<1>6. /\ pc' = [pc EXCEPT ![l] = IF whole THEN "idle" ELSE "asks"] /\ using' = [using EXCEPT ![l] = 0]
      /\ UNCHANGED <<client, current, lock, owner, of, stopped>>
    BY DEF ToolsListed, Goto, sessionVars, tools
<1>7. ListingsInOrder'
    <2>1. WholeListing'
        BY <1>4, <1>5 DEF ListingsInOrder, WholeListing
    <2>2. got' \in [Listers -> Seq(Upstreams)]
        <3>1. <<>> \in Seq(Upstreams)
            OBVIOUS
        <3> QED BY <1>3, <1>5, <3>1 DEF ListingsInOrder
    <2>3. \A k \in Listers : Len(got'[k]) < Len(Targets) /\ \A i \in 1..Len(got'[k]) : got'[k][i] = Targets[i]
        <3>1. Len(<<>>) = 0 /\ 0 < Len(Targets)
            BY TargetsAreListed
        <3> QED BY <1>1, <1>3, <1>5, <3>1, TargetsAreListed DEF ListingsInOrder
    <2> QED BY <2>1, <2>2, <2>3 DEF ListingsInOrder
<1>8. SessionsTyped' /\ TasksTyped'
    BY <1>6
<1>9. \A x \in Tasks \ {l} : Where(x)' = Where(x)
    BY <1>5 DEF Where, Tasks, ListingsInOrder
<1>10. LockIsOpener' /\ CurrentIsTheOne'
    BY <1>1, <1>6, <1>9, TasksAreDistinct DEF LockIsOpener, CurrentIsTheOne
<1>11. NoSessionLeaks'
    <2>1. \A x : Awaited(x) => Awaited(x)'
        BY <1>1, <1>6 DEF Awaited
    <2> QED BY <1>6, <2>1 DEF NoSessionLeaks
<1> QED BY <1>7, <1>8, <1>10, <1>11

\* Whoever fails, with the lock or without, leaves no session that is not stopped.
LEMMA GivesKeeps ==
    ASSUME UpstreamsInv, NEW t \in Tasks, Gives(t) PROVE UpstreamsInv'
<1> USE DEF UpstreamsInv, SessionsTyped, TasksTyped
<1> DEFINE u == Where(t)
<1>1. u \in Upstreams
    BY WhereIsUpstream
<1> HIDE DEF u
<1>2. /\ stopped' = stopped \cup ({current[u]} \ {0}) /\ client' = [client EXCEPT ![u] = 0]
      /\ lock' = [v \in Upstreams |-> IF lock[v] = t THEN Nobody ELSE lock[v]]
      /\ got' = [l \in Listers |-> IF l = t THEN <<>> ELSE got[l]]
      /\ pc' = [pc EXCEPT ![t] = "idle"] /\ using' = [using EXCEPT ![t] = 0]
      /\ UNCHANGED <<current, owner, of, listing, fresh>>
    BY DEF Gives, Discard, Unlocked, Goto, u
<1>3. \A x \in Tasks \ {t} : Where(x)' = Where(x)
    BY <1>2 DEF Where, Tasks, ListingsInOrder
<1>4. SessionsTyped' /\ TasksTyped'
    BY <1>1, <1>2
<1>5. ListingsInOrder'
    <2>1. Len(<<>>) = 0 /\ 0 < Len(Targets) /\ <<>> \in Seq(Upstreams)
        BY TargetsAreListed
    <2> QED BY <1>2, <2>1 DEF ListingsInOrder, WholeListing
<1>6. \A x \in Tasks : Where(x) \in Upstreams
    BY WhereIsUpstream
<1>7. LockIsOpener' /\ CurrentIsTheOne'
    BY <1>1, <1>2, <1>3, <1>6, TasksAreDistinct DEF LockIsOpener, CurrentIsTheOne
<1>8. NoSessionLeaks'
    <2> SUFFICES ASSUME NEW x \in Sessions, owner[x] \in {"opening", "open"}, x \notin stopped'
                 PROVE  current[of[x]] = x /\ (client'[of[x]] = x \/ Awaited(x)')
        BY <1>2 DEF NoSessionLeaks
    <2>1. x # 0
        BY SessionsAreBounded DEF Sessions
    <2>2. current[of[x]] = x /\ (client[of[x]] = x \/ Awaited(x)) /\ x # current[u]
        BY <1>2, <2>1 DEF NoSessionLeaks
    <2>3. Awaited(x) => Awaited(x)'
        BY <1>2, <2>1, <2>2 DEF Awaited, CurrentIsTheOne, u
    <2> QED BY <1>2, <2>2, <2>3
<1> QED BY <1>4, <1>5, <1>7, <1>8

LEMMA CloseKeeps ==
    ASSUME UpstreamsInv, Close PROVE UpstreamsInv'
<1> USE DEF UpstreamsInv, SessionsTyped, TasksTyped, Close, catalogVars
<1>1. \A x : Where(x)' = Where(x)
    BY DEF Where
<1>2. SessionsTyped' /\ TasksTyped' /\ ListingsInOrder'
    BY DEF ListingsInOrder, WholeListing
<1>3. LockIsOpener' /\ CurrentIsTheOne'
    BY <1>1 DEF LockIsOpener, CurrentIsTheOne
<1>4. NoSessionLeaks'
    BY SessionsAreBounded DEF NoSessionLeaks, Sessions
<1> QED BY <1>2, <1>3, <1>4

LEMMA UpstreamsNext == UpstreamsInv /\ [Next]_vars => UpstreamsInv'
<1> SUFFICES ASSUME UpstreamsInv, [Next]_vars PROVE UpstreamsInv'
    OBVIOUS
<1>1. ASSUME NEW t \in Tasks, Request(t) \/ Progress(t) \/ Cancel(t) PROVE UpstreamsInv'
    BY <1>1, QuietSteps, QuietKeeps, OpenKeeps, TakeClientKeeps, ToolsListedKeeps, GivesKeeps
       DEF Request, Progress, Fails, Cancel
<1>2. ASSUME NEW s \in Sessions, Own(s) PROVE UpstreamsInv'
    BY <1>2, OpenedKeeps, OverKeeps DEF Own, OpenFails, Closes
<1>3. CASE GetsOld \/ UNCHANGED vars
    <2>1. Quiet /\ WholeListing'
        BY <1>3 DEF UpstreamsInv, TasksTyped, GetsOld, vars, sessionVars, catalogVars, Quiet, ListingsInOrder, WholeListing
    <2> QED BY <2>1, QuietKeeps
<1> QED BY <1>1, <1>2, <1>3, CloseKeeps DEF Next

THEOREM UpstreamsInvariant == Spec => []UpstreamsInv
BY UpstreamsInit, UpstreamsNext, PTL DEF Spec

--------------------------------------------------------------------------------

\* The lock of an upstream is held by the one task that opens its session.
THEOREM UpstreamsTypeCorrect == Spec => []TypeOK
<1>1. ASSUME UpstreamsInv, NEW u \in Upstreams
      PROVE  {t \in Tasks : pc[t] = "opens" /\ Where(t) = u} = {lock[u]} \ {Nobody}
    BY <1>1, TasksAreDistinct DEF UpstreamsInv, SessionsTyped, LockIsOpener
<1>2. UpstreamsInv => TypeOK
    BY <1>1 DEF UpstreamsInv, SessionsTyped, TasksTyped, ListingsInOrder, TypeOK
<1> QED BY <1>2, UpstreamsInvariant, PTL

\* However openings, failures, cancellations and the shutdown overlap, a session
\* that nobody discarded is the one of its upstream, and shared or awaited.
THEOREM NoneLeftBehind == Spec => []NoSessionLeaks
<1>1. UpstreamsInv => NoSessionLeaks
    BY DEF UpstreamsInv
<1> QED BY <1>1, UpstreamsInvariant, PTL

\* A listing that agents are shown is that of every upstream.
THEOREM ListingsAreWhole == Spec => []WholeListing
<1>1. UpstreamsInv => WholeListing
    BY DEF UpstreamsInv, ListingsInOrder
<1> QED BY <1>1, UpstreamsInvariant, PTL
================================================================================
