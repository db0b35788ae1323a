--------------------------- MODULE PolicySyncProofs ---------------------------
(***************************************************************************)
(* A replica that only follows never goes back to an older policy, and an  *)
(* operator who asks for the policy gets a current one, for any number of  *)
(* replicas, agents, operators and publishes.  Both rest on the lock: what *)
(* its holder loaded is applied to the version it asked with.              *)
(***************************************************************************)
EXTENDS PolicySync, FiniteSetTheorems, WellFoundedInduction, TLAPS

Loading(t) == pc[t] \in {"loading", "loaded"}

\* What a replica serves once the load of t is applied.
Outcome(t) == IF doc[t] = 0 THEN version[Home[t]] ELSE doc[t]

\* Ids are given out one per publish, and committed ones are among them.
TableIsSound ==
    /\ committed \subseteq 0..lastId /\ 0 \in committed
    /\ lastId \in Nat /\ lastId = Cardinality({p \in Publishers : pc[p] # "ready"})

SyncTyped ==
    /\ version \in [Replicas -> committed]
    /\ age \in [Replicas -> 0..Interval]
    /\ lock \in [Replicas -> Tasks \cup {Nobody}]
    /\ pc \in [Tasks -> {"ready", "waiting", "loading", "loaded", "inserted", "committed", "done", "gone"}]
    /\ doc \in [Tasks -> 0..lastId] /\ floor \in [Refreshers -> committed]
    /\ faults \in 0..MaxFaults

\* What a task carries: a publisher its own version, a refresh one of the table.
CarriesVersion(t) ==
    /\ pc[t] \in {"inserted", "committed"} => t \in Publishers
    /\ pc[t] \in {"waiting", "loading", "loaded"} => t \notin Publishers
    /\ Loading(t) \/ pc[t] = "committed" => doc[t] \in committed

LockIsLoader ==
    /\ \A t \in Tasks : Loading(t) => lock[Home[t]] = t
    /\ \A r \in Replicas : lock[r] # Nobody => Home[lock[r]] = r /\ Loading(lock[r])

\* On a replica that only follows, a load starts from the version in force and
\* what it brings is no older.
LoadsFollow(t) ==
    Home[t] \in Followers =>
        /\ pc[t] = "loading" => doc[t] = version[Home[t]]
        /\ pc[t] = "loaded" => Outcome(t) >= version[Home[t]]

\* While nothing fails, a refresh that waits is followed by a load, waits for one that
\* brings what it asked for, or finds it in force.
WillBeCurrent(t) ==
    LET r == Home[t] IN
    /\ pc[t] = "loaded" => Outcome(t) >= floor[t]
    /\ pc[t] = "waiting" =>
          \/ Due(r)
          \/ lock[r] = Nobody /\ version[r] >= floor[t]
          \/ lock[r] # Nobody /\ (pc[lock[r]] = "loading" \/ Outcome(lock[r]) >= floor[t])

RefreshesAreCurrent ==
    faults = 0 => \A t \in Refreshers : Home[t] \in Followers => WillBeCurrent(t)

SyncInv ==
    /\ TableIsSound /\ SyncTyped /\ LockIsLoader
    /\ \A t \in Tasks : CarriesVersion(t) /\ LoadsFollow(t)
    /\ RefreshesAreCurrent

--------------------------------------------------------------------------------

\* The latest version of the table is in the table, and no version is later.
LEMMA LatestIsGreatest ==
    ASSUME TableIsSound
    PROVE  Latest \in committed /\ \A v \in committed : v <= Latest
<1> DEFINE gaps == {lastId - v : v \in committed}
<1>1. gaps \in SUBSET Nat /\ gaps # {}
    <2>1. \A v \in committed : lastId - v \in Nat
        BY DEF TableIsSound
    <2>2. 0 \in committed
        BY DEF TableIsSound
    <2> QED BY <2>1, <2>2
<1>2. PICK i \in gaps : \A j \in gaps : <<j, i>> \notin OpToRel(<, Nat)
    BY <1>1, NatLessThanWellFounded, WFMin
<1>3. PICK x \in committed : i = lastId - x
    BY <1>2
<1>4. \A v \in committed : x >= v
    <2> SUFFICES ASSUME NEW v \in committed PROVE x >= v
        OBVIOUS
    <2>1. lastId - v \in gaps /\ lastId - v \in Nat /\ i \in Nat
        BY <1>1
    <2>2. ~(lastId - v < i)
        BY <1>2, <2>1 DEF OpToRel
    <2> QED BY <1>3, <2>1, <2>2 DEF TableIsSound
<1>5. Latest \in committed /\ \A v \in committed : Latest >= v
    BY <1>4 DEF Latest, Max
<1> QED BY <1>5 DEF TableIsSound

LEMMA SyncInit == Init => SyncInv
<1> SUFFICES ASSUME Init PROVE SyncInv
    OBVIOUS
<1> USE IntervalIsPositive, FaultsAreBounded DEF Init
<1>1. {p \in Publishers : pc[p] # "ready"} = {}
    BY DEF Tasks
<1>2. TableIsSound
    BY <1>1, FS_EmptySet DEF TableIsSound
<1>3. SyncTyped
    BY DEF SyncTyped
<1>4. LockIsLoader /\ \A t \in Tasks : CarriesVersion(t) /\ LoadsFollow(t)
    BY DEF LockIsLoader, CarriesVersion, LoadsFollow, Loading
<1>5. RefreshesAreCurrent
    BY DEF RefreshesAreCurrent, WillBeCurrent, Tasks
<1> QED BY <1>2, <1>3, <1>4, <1>5 DEF SyncInv

\* As long as the publishers that have begun are the same.
LEMMA SameTable ==
    ASSUME SyncInv, UNCHANGED <<committed, lastId>>,
           \A p \in Publishers : pc'[p] = "ready" <=> pc[p] = "ready"
    PROVE  TableIsSound'
<1>1. {p \in Publishers : pc'[p] # "ready"} = {p \in Publishers : pc[p] # "ready"}
    OBVIOUS
<1> QED BY <1>1 DEF SyncInv, TableIsSound

\* Versions are numbers, so a comparison of them is one.
LEMMA VersionsAreNumbers ==
    ASSUME SyncInv
    PROVE  /\ committed \subseteq Nat
           /\ \A r \in Replicas : version[r] \in Nat
           /\ \A t \in Tasks : doc[t] \in Nat /\ Home[t] \in Replicas /\ Outcome(t) \in Nat
           /\ \A t \in Refreshers : floor[t] \in committed /\ floor[t] \in Nat
<1> USE HomesAreReplicas DEF SyncInv, TableIsSound, SyncTyped
<1>1. committed \subseteq Nat
    OBVIOUS
<1>2. \A r \in Replicas : version[r] \in Nat
    BY <1>1
<1>3. \A t \in Tasks : doc[t] \in Nat /\ Home[t] \in Replicas
    OBVIOUS
<1>4. \A t \in Tasks : Outcome(t) \in Nat
    BY <1>2, <1>3 DEF Outcome
<1> QED BY <1>1, <1>2, <1>3, <1>4

--------------------------------------------------------------------------------
(* Refreshes.                                                               *)

\* Neither lock nor table moves when a task is served, queues, comes back, or is
\* over; what the others wait for is as it was.
LEMMA ServeKeeps ==
    ASSUME SyncInv, NEW t \in Tasks, Serve(t) \/ Queue(t) \/ Again(t) PROVE SyncInv'
<1> USE DEF SyncInv
<1>1. /\ UNCHANGED <<committed, lastId, version, age, lock, floor, faults>>
      /\ ~Loading(t) /\ t \notin Publishers
      /\ \E label \in {"ready", "waiting", "done"} :
            pc' = [pc EXCEPT ![t] = label] /\ (label = "waiting" => t \in Readers)
      /\ doc' = [doc EXCEPT ![t] = 0] \/ doc' = doc
    BY TasksAreDistinct DEF Serve, Queue, Again, End, Goto, Loading, CarriesVersion
<1>2. TableIsSound'
    BY <1>1, SameTable DEF SyncTyped, Tasks
<1>3. SyncTyped'
    BY <1>1 DEF SyncTyped, TableIsSound
<1>4. \A x \in Tasks : (pc'[x] = pc[x] /\ doc'[x] = doc[x]) \/ (x = t /\ ~Loading(t)')
    BY <1>1 DEF SyncTyped, Loading
<1>5. LockIsLoader'
    BY <1>1, <1>4 DEF LockIsLoader, Loading, SyncTyped
<1>6. \A x \in Tasks : CarriesVersion(x)' /\ LoadsFollow(x)'
    BY <1>1, <1>4 DEF CarriesVersion, LoadsFollow, Loading, Outcome, SyncTyped
<1>7. RefreshesAreCurrent'
    <2> SUFFICES ASSUME faults = 0, NEW x \in Refreshers, Home[x] \in Followers PROVE WillBeCurrent(x)'
        BY <1>1 DEF RefreshesAreCurrent
    <2>1. WillBeCurrent(x) /\ Home[x] \in Replicas
        BY HomesAreReplicas DEF RefreshesAreCurrent, Tasks
    <2>2. lock[Home[x]] # Nobody => lock[Home[x]] \in Tasks /\ lock[Home[x]] # t
        BY <1>1, <2>1 DEF LockIsLoader, SyncTyped
    <2>3. pc'[x] \in {"loaded", "waiting"} => pc'[x] = pc[x] /\ doc'[x] = doc[x]
        BY <1>1, TasksAreDistinct DEF SyncTyped, Tasks
    <2>4. Home[x] \in Replicas => (Due(Home[x])' <=> Due(Home[x]))
        BY <1>1 DEF Due
    <2> QED BY <1>1, <1>4, <2>1, <2>2, <2>3, <2>4 DEF WillBeCurrent, Outcome
<1> QED BY <1>2, <1>3, <1>5, <1>6, <1>7

\* A task that gets the lock asks with the version in force.
LEMMA AcquireKeeps ==
    ASSUME SyncInv, NEW t \in Tasks, t \notin Publishers, pc[t] \in {"ready", "waiting"},
           MayLoad(t), Acquire(t), UNCHANGED <<committed, lastId, version, faults>>,
           floor' = floor \/ (t \in Refreshers /\ floor' = [floor EXCEPT ![t] = Latest])
    PROVE  SyncInv'
<1> USE DEF SyncInv
<1> DEFINE r == Home[t]
<1>1. /\ lock[r] = Nobody /\ r \in Replicas /\ version[r] \in committed
      /\ lock' = [lock EXCEPT ![r] = t] /\ age' = [age EXCEPT ![r] = 0]
      /\ doc' = [doc EXCEPT ![t] = version[r]] /\ pc' = [pc EXCEPT ![t] = "loading"]
    BY HomesAreReplicas DEF MayLoad, Acquire, Goto, SyncTyped
<1>2. TableIsSound'
    BY <1>1, SameTable DEF SyncTyped, Tasks
<1>3. SyncTyped'
    <2>1. version[r] \in 0..lastId
        BY <1>1 DEF TableIsSound
    <2>2. doc' \in [Tasks -> 0..lastId]
        BY <1>1, <2>1 DEF SyncTyped
    <2>3. age' \in [Replicas -> 0..Interval]
        <3>1. 0 \in 0..Interval
            BY IntervalIsPositive
        <3> QED BY <1>1, <3>1 DEF SyncTyped
    <2>4. floor' \in [Refreshers -> committed]
        BY LatestIsGreatest DEF SyncTyped
    <2> QED BY <1>1, <2>2, <2>3, <2>4 DEF SyncTyped
<1>4. LockIsLoader'
    BY <1>1, NobodyIsNoTask DEF LockIsLoader, Loading, SyncTyped
<1>5. \A x \in Tasks : CarriesVersion(x)' /\ LoadsFollow(x)'
    BY <1>1 DEF CarriesVersion, LoadsFollow, Loading, Outcome, SyncTyped
<1>6. RefreshesAreCurrent'
    <2> SUFFICES ASSUME faults = 0, NEW x \in Refreshers, Home[x] \in Followers, x # t PROVE WillBeCurrent(x)'
        BY <1>1 DEF RefreshesAreCurrent, WillBeCurrent, SyncTyped, Tasks
    <2>1. WillBeCurrent(x) /\ Home[x] \in Replicas /\ x \in Tasks
        BY HomesAreReplicas DEF RefreshesAreCurrent, Tasks
    <2>2. pc'[x] = pc[x] /\ doc'[x] = doc[x] /\ floor'[x] = floor[x]
        BY <1>1, <2>1 DEF SyncTyped
    <2>3. CASE Home[x] = r
        BY <1>1, <2>1, <2>2, <2>3, NobodyIsNoTask DEF WillBeCurrent, Outcome, SyncTyped
    <2>4. CASE Home[x] # r
        <3>1. lock'[Home[x]] = lock[Home[x]] /\ (Due(Home[x])' <=> Due(Home[x]))
            BY <1>1, <2>1, <2>4 DEF Due, SyncTyped
        <3>2. lock[Home[x]] # Nobody => lock[Home[x]] \in Tasks /\ lock[Home[x]] # t
            BY <2>1, <2>4 DEF LockIsLoader, SyncTyped
        <3> QED BY <1>1, <2>1, <2>2, <3>1, <3>2 DEF WillBeCurrent, Outcome, SyncTyped
    <2> QED BY <2>3, <2>4
<1> QED BY <1>2, <1>3, <1>4, <1>5, <1>6

LEMMA LoadKeeps ==
    ASSUME SyncInv, NEW t \in Tasks, Load(t) PROVE SyncInv'
<1> USE DEF SyncInv
<1> DEFINE r == Home[t]
<1>1. /\ pc[t] = "loading" /\ t \notin Publishers /\ r \in Replicas /\ lock[r] = t
      /\ doc' = [doc EXCEPT ![t] = IF Latest = doc[t] THEN 0 ELSE Latest]
      /\ pc' = [pc EXCEPT ![t] = "loaded"]
      /\ UNCHANGED <<committed, lastId, version, age, lock, floor, faults>>
    BY HomesAreReplicas DEF Load, Goto, CarriesVersion, LockIsLoader, Loading
<1>2. Latest \in committed /\ \A v \in committed : v <= Latest
    BY LatestIsGreatest
<1>3. r \in Followers => Outcome(t)' = Latest
    BY <1>1, VersionsAreNumbers, <1>2 DEF Outcome, LoadsFollow, SyncTyped
<1>4. TableIsSound'
    BY <1>1, SameTable DEF SyncTyped, Tasks
<1>5. SyncTyped'
    BY <1>1, <1>2 DEF SyncTyped, TableIsSound
<1>6. LockIsLoader'
    BY <1>1 DEF LockIsLoader, Loading, SyncTyped
<1>7. \A x \in Tasks \ {t} : pc'[x] = pc[x] /\ doc'[x] = doc[x] /\ Outcome(x)' = Outcome(x)
    BY <1>1 DEF Outcome, SyncTyped
<1>8. \A x \in Tasks : CarriesVersion(x)' /\ LoadsFollow(x)'
    <2>1. CarriesVersion(t)'
        BY <1>1, <1>2 DEF CarriesVersion, Loading, SyncTyped, TableIsSound
    <2>2. LoadsFollow(t)'
        BY <1>1, <1>2, <1>3 DEF LoadsFollow, SyncTyped
    <2> QED BY <1>1, <1>7, <2>1, <2>2 DEF CarriesVersion, LoadsFollow, Loading
<1>9. RefreshesAreCurrent'
    <2> SUFFICES ASSUME faults = 0, NEW x \in Refreshers, Home[x] \in Followers PROVE WillBeCurrent(x)'
        BY <1>1 DEF RefreshesAreCurrent
    <2>1. WillBeCurrent(x) /\ Home[x] \in Replicas /\ x \in Tasks /\ floor[x] <= Latest
        BY <1>2, VersionsAreNumbers, HomesAreReplicas DEF RefreshesAreCurrent, Tasks
    <2>2. Latest \in Nat /\ floor[x] \in Nat /\ (Due(Home[x])' <=> Due(Home[x]))
        BY <1>1, <1>2, VersionsAreNumbers DEF Due
    <2>3. lock[Home[x]] # Nobody => lock[Home[x]] \in Tasks /\ (lock[Home[x]] = t => Home[x] = r)
        BY <2>1 DEF LockIsLoader, SyncTyped
    <2>4. x = t => pc'[x] = "loaded"
        BY <1>1 DEF SyncTyped
    <2> QED BY <1>1, <1>3, <1>7, <2>1, <2>2, <2>3, <2>4 DEF WillBeCurrent
<1> QED BY <1>4, <1>5, <1>6, <1>8, <1>9

\* What a holder brings is put in force, and who waits may be content with it.
LEMMA ApplyKeeps ==
    ASSUME SyncInv, NEW t \in Tasks, Apply(t) PROVE SyncInv'
<1> USE DEF SyncInv
<1> DEFINE r == Home[t]
<1>1. /\ pc[t] = "loaded" /\ t \notin Publishers /\ r \in Replicas /\ lock[r] = t /\ doc[t] \in committed
      /\ version' = [version EXCEPT ![r] = Outcome(t)]
      /\ lock' = [q \in Replicas |-> IF lock[q] = t THEN Nobody ELSE lock[q]]
      /\ doc' = [doc EXCEPT ![t] = 0] /\ pc' = [pc EXCEPT ![t] = "done"]
      /\ UNCHANGED <<committed, lastId, age, floor, faults>>
    BY HomesAreReplicas DEF Apply, Released, End, Goto, Outcome, CarriesVersion, LockIsLoader, Loading, SyncTyped
<1>2. Outcome(t) \in committed /\ Outcome(t) \in Nat
    BY <1>1, VersionsAreNumbers DEF Outcome, SyncTyped
<1>3. \A q \in Replicas : q # r => lock'[q] = lock[q] /\ version'[q] = version[q]
    BY <1>1 DEF LockIsLoader, SyncTyped
<1>4. lock'[r] = Nobody /\ version'[r] = Outcome(t)
    BY <1>1 DEF SyncTyped
<1>5. TableIsSound'
    BY <1>1, SameTable DEF SyncTyped, Tasks
<1>6. SyncTyped'
    BY <1>1, <1>2 DEF SyncTyped, TableIsSound
<1>7. LockIsLoader'
    BY <1>1, <1>3, <1>4, HomesAreReplicas DEF LockIsLoader, Loading, SyncTyped
<1>8. \A x \in Tasks \ {t} : pc'[x] = pc[x] /\ doc'[x] = doc[x] /\ (Loading(x) => Home[x] # r)
    BY <1>1 DEF LockIsLoader, SyncTyped
<1>9. \A x \in Tasks : CarriesVersion(x)' /\ LoadsFollow(x)'
    <2>1. CarriesVersion(t)' /\ LoadsFollow(t)'
        BY <1>1 DEF CarriesVersion, LoadsFollow, Loading, SyncTyped
    <2> QED BY <1>1, <1>3, <1>8, <2>1, HomesAreReplicas DEF CarriesVersion, LoadsFollow, Loading, Outcome
<1>10. RefreshesAreCurrent'
    <2> SUFFICES ASSUME faults = 0, NEW x \in Refreshers, Home[x] \in Followers, x # t PROVE WillBeCurrent(x)'
        BY <1>1 DEF RefreshesAreCurrent, WillBeCurrent, SyncTyped, Tasks
    <2>1. WillBeCurrent(x) /\ Home[x] \in Replicas /\ x \in Tasks /\ (Due(Home[x])' <=> Due(Home[x]))
        BY <1>1, HomesAreReplicas DEF RefreshesAreCurrent, Tasks, Due
    <2>2. CASE Home[x] = r
        <3>1. pc'[x] = pc[x] /\ pc[x] # "loaded" /\ floor'[x] = floor[x] /\ t # Nobody
            BY <1>1, <1>8, <2>1, <2>2, NobodyIsNoTask DEF Loading
        <3>2. pc[x] = "waiting" => Due(Home[x]) \/ Outcome(t) >= floor[x]
            BY <1>1, <2>1, <2>2, <3>1 DEF WillBeCurrent
        <3> QED BY <1>4, <2>1, <2>2, <3>1, <3>2 DEF WillBeCurrent
    <2>3. CASE Home[x] # r
        <3>1. lock[Home[x]] # Nobody => lock[Home[x]] \in Tasks \ {t} /\ Home[lock[Home[x]]] = Home[x]
            BY <1>1, <2>1, <2>3 DEF LockIsLoader, SyncTyped
        <3> QED BY <1>1, <1>3, <1>8, <2>1, <2>3, <3>1 DEF WillBeCurrent, Outcome
    <2> QED BY <2>2, <2>3
<1> QED BY <1>5, <1>6, <1>7, <1>9, <1>10

\* Tasks that end early give back their locks, and count as a fault.
LEMMA EndsKeep ==
    ASSUME SyncInv, NEW X \in SUBSET Tasks, NEW label \in {"done", "gone"},
           faults' = faults + 1, faults < MaxFaults,
           pc' = [x \in Tasks |-> IF x \in X THEN label ELSE pc[x]],
           \A x \in Tasks : doc'[x] = doc[x] \/ ((x \in X \/ Idle(x)) /\ doc'[x] = 0), DOMAIN doc' = Tasks,
           doc' = [x \in Tasks |-> doc'[x]],
           \A x \in X : pc[x] # "ready",
           \A r \in Replicas : lock'[r] = IF lock[r] \in X THEN Nobody ELSE lock[r],
           lock' = [r \in Replicas |-> lock'[r]],
           \A r \in Replicas : version'[r] = version[r] \/ (version'[r] = 0 /\ \A x \in Tasks : Home[x] = r => x \in X \/ Idle(x)),
           version' = [r \in Replicas |-> version'[r]],
           age' \in [Replicas -> 0..Interval],
           UNCHANGED <<committed, lastId, floor>>
    PROVE  SyncInv'
<1> USE FaultsAreBounded DEF SyncInv
<1>1. TableIsSound'
    BY SameTable DEF SyncTyped, Tasks
<1>2. SyncTyped'
    <2>1. version' \in [Replicas -> committed]
        BY DEF SyncTyped, TableIsSound
    <2>2. lock' \in [Replicas -> Tasks \cup {Nobody}]
        BY DEF SyncTyped
    <2>3. doc' \in [Tasks -> 0..lastId]
        BY DEF SyncTyped, TableIsSound
    <2> QED BY <2>1, <2>2, <2>3 DEF SyncTyped
<1>3. \A x \in Tasks : Loading(x)' \/ pc'[x] = "committed" =>
          /\ x \notin X /\ pc'[x] = pc[x] /\ doc'[x] = doc[x] /\ version'[Home[x]] = version[Home[x]]
    BY HomesAreReplicas DEF Loading, Idle, SyncTyped
<1>4. LockIsLoader'
    BY <1>3, HomesAreReplicas, NobodyIsNoTask DEF LockIsLoader, Loading, SyncTyped
<1>5. \A x \in Tasks : CarriesVersion(x)' /\ LoadsFollow(x)'
    BY <1>3 DEF CarriesVersion, LoadsFollow, Loading, Outcome, SyncTyped
<1>6. faults' # 0
    BY DEF SyncTyped
<1> QED BY <1>1, <1>2, <1>4, <1>5, <1>6 DEF RefreshesAreCurrent

\* A refresh that is asked for waits for one under way, and makes the next due.
LEMMA AskKeeps ==
    ASSUME SyncInv, NEW t \in Tasks, AskRefresh(t) PROVE SyncInv'
<1> USE DEF SyncInv
<1> DEFINE r == Home[t]
<1>1. t \in Refreshers /\ t \notin Publishers /\ pc[t] = "ready" /\ r \in Replicas
    BY TasksAreDistinct, HomesAreReplicas DEF AskRefresh
<1>2. CASE MayLoad(t) /\ Acquire(t)
    BY <1>1, <1>2, AcquireKeeps DEF AskRefresh
<1>3. CASE ~MayLoad(t)
    <2>1. /\ lock[r] # Nobody
          /\ floor' = [floor EXCEPT ![t] = Latest] /\ age' = [age EXCEPT ![r] = Interval]
          /\ pc' = [pc EXCEPT ![t] = "waiting"]
          /\ UNCHANGED <<committed, lastId, version, lock, doc, faults>>
        BY <1>3 DEF AskRefresh, MayLoad, ForgetCheck, Goto
    <2>2. TableIsSound'
        BY <1>1, <2>1, SameTable DEF SyncTyped, Tasks
    <2>3. SyncTyped'
        <3>1. Latest \in committed
            BY LatestIsGreatest
        <3>2. Interval \in 0..Interval
            BY IntervalIsPositive
        <3> QED BY <2>1, <3>1, <3>2 DEF SyncTyped
    <2>4. \A x \in Tasks \ {t} : pc'[x] = pc[x]
        BY <2>1 DEF SyncTyped
    <2>5. pc'[t] = "waiting"
        BY <2>1 DEF SyncTyped
    <2>6. LockIsLoader'
        BY <1>1, <2>1, <2>4, <2>5 DEF LockIsLoader, Loading, SyncTyped
    <2>7. \A x \in Tasks : CarriesVersion(x)' /\ LoadsFollow(x)'
        BY <1>1, <2>1, <2>4, <2>5 DEF CarriesVersion, LoadsFollow, Loading, Outcome
    <2>8. RefreshesAreCurrent'
        <3> SUFFICES ASSUME faults = 0, NEW x \in Refreshers, Home[x] \in Followers PROVE WillBeCurrent(x)'
            BY <2>1 DEF RefreshesAreCurrent
        <3>1. WillBeCurrent(x) /\ Home[x] \in Replicas /\ x \in Tasks
            BY <2>1, HomesAreReplicas DEF RefreshesAreCurrent, Tasks
        <3>2. Due(r)' /\ (Due(Home[x]) => Due(Home[x])')
            BY <1>1, <2>1, <3>1 DEF Due, SyncTyped
        <3>3. lock[Home[x]] # Nobody => lock[Home[x]] \in Tasks \ {t}
            BY <1>1, <3>1 DEF LockIsLoader, Loading, SyncTyped
        <3>4. CASE x = t
            BY <2>5, <3>2, <3>4 DEF WillBeCurrent
        <3>5. CASE x # t
            <4>1. pc'[x] = pc[x] /\ floor'[x] = floor[x]
                BY <2>1, <2>4, <3>1, <3>5 DEF SyncTyped
            <4> QED BY <2>1, <2>4, <3>1, <3>2, <3>3, <4>1 DEF WillBeCurrent, Outcome
        <3> QED BY <3>4, <3>5
    <2> QED BY <2>2, <2>3, <2>6, <2>7, <2>8
<1> QED BY <1>2, <1>3 DEF AskRefresh

--------------------------------------------------------------------------------
(* Publishes, time and faults.                                              *)

\* A publisher is neither a refresh nor the holder of a lock.
LEMMA PublishersHoldNothing ==
    ASSUME SyncInv, NEW p \in Publishers
    PROVE  /\ p \in Tasks /\ Home[p] \in Replicas /\ Home[p] \notin Followers
           /\ ~Loading(p) /\ p \notin Refreshers /\ \A r \in Replicas : lock[r] # p
<1>1. p \in Tasks
    BY DEF Tasks
<1>2. ~Loading(p)
    BY <1>1 DEF SyncInv, CarriesVersion, Loading
<1>3. \A r \in Replicas : lock[r] # p
    BY <1>1, <1>2, NobodyIsNoTask DEF SyncInv, LockIsLoader
<1> QED BY <1>1, <1>2, <1>3, HomesAreReplicas, TasksAreDistinct DEF Followers

\* A version is given out and, later, in the table: no refresh sees a difference.
LEMMA PublishKeeps ==
    ASSUME SyncInv, NEW p \in Tasks, Insert(p) \/ Commit(p) PROVE SyncInv'
<1> USE DEF SyncInv
<1>1. p \in Publishers /\ UNCHANGED <<version, age, lock, floor, faults>>
    BY DEF Insert, Commit, CarriesVersion
<1>2. /\ p \in Tasks /\ p \notin Refreshers /\ ~Loading(p)
      /\ \A r \in Replicas : lock[r] # p
    BY <1>1, PublishersHoldNothing
<1>3. TableIsSound' /\ committed \subseteq committed'
    <2>1. CASE Insert(p)
        <3> DEFINE begun == {q \in Publishers : pc[q] # "ready"}
        <3>1. {q \in Publishers : pc'[q] # "ready"} = begun \cup {p} /\ p \notin begun
            BY <1>1, <1>2, <2>1 DEF Insert, Goto, SyncTyped, Tasks
        <3>2. IsFiniteSet(begun)
            BY PublishersAreCounted, FS_Subset
        <3>3. Cardinality(begun \cup {p}) = Cardinality(begun) + 1
            BY <3>1, <3>2, FS_AddElement
        <3>4. lastId' = lastId + 1 /\ committed' = committed
            BY <2>1 DEF Insert
        <3>5. lastId' = Cardinality({q \in Publishers : pc'[q] # "ready"})
            BY <3>1, <3>3, <3>4 DEF TableIsSound
        <3>6. committed' \subseteq 0..lastId' /\ 0 \in committed' /\ lastId' \in Nat
            BY <3>4 DEF TableIsSound
        <3> QED BY <3>4, <3>5, <3>6 DEF TableIsSound
    <2>2. CASE Commit(p)
        <3>1. {q \in Publishers : pc'[q] # "ready"} = {q \in Publishers : pc[q] # "ready"}
            BY <1>1, <1>2, <2>2 DEF Commit, Goto, SyncTyped, Tasks
        <3> QED BY <1>2, <2>2, <3>1 DEF TableIsSound, Commit, SyncTyped
    <2> QED BY <2>1, <2>2
<1>4. lastId <= lastId' /\ lastId' \in Nat /\ lastId \in Nat
    BY <1>3 DEF Insert, Commit, TableIsSound
<1>5. \A x \in Tasks \ {p} : pc'[x] = pc[x] /\ doc'[x] = doc[x]
    BY DEF Insert, Commit, Goto, SyncTyped
<1>6. pc'[p] \in {"inserted", "committed"} /\ (pc'[p] = "committed" => doc'[p] \in committed')
    BY <1>2 DEF Insert, Commit, Goto, SyncTyped
<1>7. SyncTyped'
    <2>1. version' \in [Replicas -> committed'] /\ floor' \in [Refreshers -> committed']
        BY <1>1, <1>3 DEF SyncTyped
    <2>2. doc' \in [Tasks -> 0..lastId']
        <3>1. CASE Insert(p)
            <4>1. lastId + 1 \in 0..(lastId + 1) /\ 0..lastId \subseteq 0..(lastId + 1)
                BY <1>4
            <4>2. doc' = [doc EXCEPT ![p] = lastId + 1] /\ lastId' = lastId + 1
                BY <3>1 DEF Insert
            <4> QED BY <4>1, <4>2 DEF SyncTyped
        <3>2. CASE Commit(p)
            BY <3>2 DEF Commit, SyncTyped
        <3> QED BY <3>1, <3>2
    <2>3. pc' \in [Tasks -> {"ready", "waiting", "loading", "loaded", "inserted", "committed", "done", "gone"}]
        BY DEF Insert, Commit, Goto, SyncTyped
    <2> QED BY <1>1, <2>1, <2>2, <2>3 DEF SyncTyped
<1>8. LockIsLoader'
    BY <1>1, <1>2, <1>5, <1>6 DEF LockIsLoader, Loading, SyncTyped
<1>9. \A x \in Tasks : CarriesVersion(x)' /\ LoadsFollow(x)'
    <2>1. CarriesVersion(p)' /\ LoadsFollow(p)'
        BY <1>1, <1>2, <1>6 DEF CarriesVersion, LoadsFollow, Loading
    <2> QED BY <1>1, <1>3, <1>5, <2>1 DEF CarriesVersion, LoadsFollow, Loading, Outcome
<1>10. RefreshesAreCurrent'
    <2> SUFFICES ASSUME faults = 0, NEW x \in Refreshers, Home[x] \in Followers PROVE WillBeCurrent(x)'
        BY <1>1 DEF RefreshesAreCurrent
    <2>1. WillBeCurrent(x) /\ Home[x] \in Replicas /\ x \in Tasks \ {p}
        BY <1>1, <1>2, HomesAreReplicas DEF RefreshesAreCurrent, Tasks
    <2>2. lock[Home[x]] # Nobody => lock[Home[x]] \in Tasks \ {p}
        BY <1>2, <2>1 DEF SyncTyped
    <2> QED BY <1>1, <1>5, <2>1, <2>2 DEF WillBeCurrent, Outcome, Due
<1> QED BY <1>3, <1>7, <1>8, <1>9, <1>10

\* A publish puts its version in force on its own replica, which is no follower.
LEMMA ApplyHereKeeps ==
    ASSUME SyncInv, NEW p \in Tasks, ApplyHere(p) PROVE SyncInv'
<1> USE DEF SyncInv
<1> DEFINE r == Home[p]
<1>1. /\ p \in Publishers /\ doc[p] \in committed /\ pc[p] = "committed"
      /\ version' = [version EXCEPT ![r] = doc[p]] /\ age' = [age EXCEPT ![r] = 0]
      /\ doc' = [doc EXCEPT ![p] = 0] /\ pc' = [pc EXCEPT ![p] = "done"]
      /\ UNCHANGED <<committed, lastId, lock, floor, faults>>
    BY DEF ApplyHere, CarriesVersion, End, Goto
<1>2. /\ r \in Replicas \ Followers /\ p \notin Refreshers
      /\ \A q \in Replicas : lock[q] # p
    BY <1>1, PublishersHoldNothing
<1>3. \A x \in Tasks \ {p} : pc'[x] = pc[x] /\ doc'[x] = doc[x]
    BY <1>1 DEF SyncTyped
<1>4. pc'[p] = "done"
    BY <1>1 DEF SyncTyped
<1>5. \A q \in Followers : version'[q] = version[q] /\ age'[q] = age[q]
    BY <1>1, <1>2 DEF Followers, SyncTyped
<1>6. TableIsSound'
    BY <1>1, SameTable DEF SyncTyped, Tasks
<1>7. SyncTyped'
    <2>1. 0 \in 0..lastId /\ 0 \in 0..Interval
        BY IntervalIsPositive DEF TableIsSound
    <2> QED BY <1>1, <2>1 DEF SyncTyped
<1>8. LockIsLoader'
    BY <1>1, <1>2, <1>3, <1>4 DEF LockIsLoader, Loading, SyncTyped
<1>9. \A x \in Tasks : CarriesVersion(x)' /\ LoadsFollow(x)'
    <2>1. CarriesVersion(p)' /\ LoadsFollow(p)'
        BY <1>4 DEF CarriesVersion, LoadsFollow, Loading
    <2> QED BY <1>1, <1>3, <1>5, <2>1 DEF CarriesVersion, LoadsFollow, Loading, Outcome, Followers
<1>10. RefreshesAreCurrent'
    <2> SUFFICES ASSUME faults = 0, NEW x \in Refreshers, Home[x] \in Followers PROVE WillBeCurrent(x)'
        BY <1>1 DEF RefreshesAreCurrent, Followers
    <2>1. WillBeCurrent(x) /\ Home[x] \in Replicas /\ x \in Tasks \ {p}
        BY <1>1, <1>2, HomesAreReplicas DEF RefreshesAreCurrent, Tasks
    <2>2. lock[Home[x]] # Nobody => lock[Home[x]] \in Tasks \ {p} /\ Home[lock[Home[x]]] = Home[x]
        BY <1>2, <2>1 DEF LockIsLoader, SyncTyped
    <2> QED BY <1>1, <1>3, <1>5, <2>1, <2>2 DEF WillBeCurrent, Outcome, Due
<1> QED BY <1>6, <1>7, <1>8, <1>9, <1>10

\* What was due stays due.
LEMMA TickKeeps ==
    ASSUME SyncInv, Tick PROVE SyncInv'
<1> USE DEF SyncInv
<1>1. \A n \in 0..Interval :
          /\ Min({n + 1, Interval}) \in 0..Interval
          /\ n = Interval => Min({n + 1, Interval}) = Interval
    BY IntervalIsPositive DEF Min
<1>2. age' = [r \in Replicas |-> Min({age[r] + 1, Interval})]
      /\ UNCHANGED <<committed, lastId, version, lock, pc, doc, floor, faults>>
    BY DEF Tick
<1>3. \A r \in Replicas : age'[r] \in 0..Interval /\ (Due(r) => Due(r)')
    BY <1>1, <1>2 DEF Due, SyncTyped
<1>4. TableIsSound'
    BY <1>2, SameTable
<1>5. SyncTyped'
    BY <1>2, <1>3 DEF SyncTyped
<1>6. LockIsLoader' /\ \A x \in Tasks : CarriesVersion(x)' /\ LoadsFollow(x)'
    BY <1>2 DEF LockIsLoader, CarriesVersion, LoadsFollow, Loading, Outcome
<1>7. RefreshesAreCurrent'
    <2> SUFFICES ASSUME faults = 0, NEW x \in Refreshers, Home[x] \in Followers PROVE WillBeCurrent(x)'
        BY <1>2 DEF RefreshesAreCurrent
    <2>1. WillBeCurrent(x) /\ Home[x] \in Replicas
        BY <1>2, HomesAreReplicas DEF RefreshesAreCurrent, Tasks
    <2> QED BY <1>2, <1>3, <2>1 DEF WillBeCurrent, Outcome
<1> QED BY <1>4, <1>5, <1>6, <1>7

\* A failed load, a cancelled task and a restart end tasks early.
LEMMA FaultKeeps ==
    ASSUME SyncInv, Fault PROVE SyncInv'
<1> USE DEF SyncInv
<1>1. ASSUME NEW t \in Tasks, FailLoad(t) \/ Cancel(t) PROVE SyncInv'
    <2>1. PICK label \in {"done", "gone"} : pc' = [pc EXCEPT ![t] = label]
        BY <1>1 DEF FailLoad, Cancel, End, Goto
    <2>2. /\ pc[t] # "ready" /\ doc' = [doc EXCEPT ![t] = 0]
          /\ lock' = [r \in Replicas |-> IF lock[r] = t THEN Nobody ELSE lock[r]]
          /\ faults < MaxFaults /\ faults' = faults + 1
          /\ UNCHANGED <<committed, lastId, version, age, floor>>
        BY <1>1 DEF FailLoad, Cancel, End, Released, Fails, Idle
    <2>3. pc' = [x \in Tasks |-> IF x \in {t} THEN label ELSE pc[x]]
        BY <2>1 DEF SyncTyped
    <2>4. /\ DOMAIN doc' = Tasks /\ doc' = [x \in Tasks |-> doc'[x]]
          /\ \A x \in Tasks : doc'[x] = doc[x] \/ ((x \in {t} \/ Idle(x)) /\ doc'[x] = 0)
        BY <2>2 DEF SyncTyped
    <2>5. /\ lock' = [r \in Replicas |-> lock'[r]]
          /\ \A r \in Replicas : lock'[r] = IF lock[r] \in {t} THEN Nobody ELSE lock[r]
        BY <2>2
    <2>6. /\ version' = [r \in Replicas |-> version'[r]] /\ age' \in [Replicas -> 0..Interval]
          /\ \A r \in Replicas : version'[r] = version[r]
        BY <2>2 DEF SyncTyped
    <2> HIDE DEF SyncInv
    <2> QED BY <2>2, <2>3, <2>4, <2>5, <2>6, EndsKeep
<1>2. ASSUME NEW r \in Replicas, Restart(r) PROVE SyncInv'
    <2> DEFINE X == {t \in Tasks : Home[t] = r /\ ~Idle(t)}
    <2>1. /\ version' = [version EXCEPT ![r] = 0] /\ age' = [age EXCEPT ![r] = Interval]
          /\ lock' = [lock EXCEPT ![r] = Nobody]
          /\ pc' = [t \in Tasks |-> IF t \in X THEN "gone" ELSE pc[t]]
          /\ doc' = [t \in Tasks |-> IF Home[t] = r THEN 0 ELSE doc[t]]
          /\ faults < MaxFaults /\ faults' = faults + 1
          /\ UNCHANGED <<committed, lastId, floor>>
        BY <1>2 DEF Restart, Fails
    <2>2. /\ DOMAIN doc' = Tasks /\ doc' = [x \in Tasks |-> doc'[x]]
          /\ \A x \in Tasks : doc'[x] = doc[x] \/ ((x \in X \/ Idle(x)) /\ doc'[x] = 0)
        BY <2>1 DEF SyncTyped
    <2>3. \A q \in Replicas : lock[q] \in X <=> (q = r /\ lock[q] # Nobody)
        BY NobodyIsNoTask DEF LockIsLoader, Loading, Idle, SyncTyped
    <2>4. /\ lock' = [q \in Replicas |-> lock'[q]]
          /\ \A q \in Replicas : lock'[q] = IF lock[q] \in X THEN Nobody ELSE lock[q]
        BY <2>1, <2>3 DEF SyncTyped
    <2>5. /\ version' = [q \in Replicas |-> version'[q]]
          /\ \A q \in Replicas :
                version'[q] = version[q] \/ (version'[q] = 0 /\ \A x \in Tasks : Home[x] = q => x \in X \/ Idle(x))
        BY <2>1 DEF SyncTyped
    <2>6. age' \in [Replicas -> 0..Interval]
        <3>1. Interval \in 0..Interval
            BY IntervalIsPositive
        <3> QED BY <2>1, <3>1 DEF SyncTyped
    <2>7. X \in SUBSET Tasks /\ \A x \in X : pc[x] # "ready"
        BY DEF Idle
    <2> HIDE DEF SyncInv, X
    <2> QED BY <2>1, <2>2, <2>4, <2>5, <2>6, <2>7, EndsKeep
<1> QED BY <1>1, <1>2 DEF Fault

LEMMA SyncNext == SyncInv /\ [Next]_vars => SyncInv'
<1> SUFFICES ASSUME SyncInv, [Next]_vars PROVE SyncInv'
    OBVIOUS
<1>1. ASSUME NEW t \in Tasks, StartLoad(t) PROVE SyncInv'
    <2>1. t \notin Publishers /\ pc[t] \in {"ready", "waiting"} /\ MayLoad(t) /\ Acquire(t)
        BY <1>1, TasksAreDistinct DEF StartLoad, SyncInv, CarriesVersion
    <2>2. UNCHANGED <<committed, lastId, version, floor, faults>>
        BY <1>1 DEF StartLoad
    <2> QED BY <2>1, <2>2, AcquireKeeps
<1>2. ASSUME NEW t \in Tasks, Refreshing(t) PROVE SyncInv'
    BY <1>1, <1>2, ServeKeeps, LoadKeeps, ApplyKeeps, AskKeeps DEF Refreshing
<1>3. ASSUME NEW p \in Tasks, Publishing(p) PROVE SyncInv'
    BY <1>3, PublishKeeps, ApplyHereKeeps DEF Publishing
<1>4. CASE UNCHANGED vars
    BY <1>4 DEF vars, SyncInv, TableIsSound, SyncTyped, LockIsLoader, Loading, CarriesVersion, LoadsFollow,
                Outcome, RefreshesAreCurrent, WillBeCurrent, Due
<1> QED BY <1>2, <1>3, <1>4, TickKeeps, FaultKeeps DEF Next

\* Loads are applied by the holder of the lock, to the version they started from,
\* and refreshes that wait are followed by one that is current.
THEOREM SyncInvariant == Spec => []SyncInv
<1> QED BY SyncInit, SyncNext, PTL DEF Spec

--------------------------------------------------------------------------------
(* What the replicas promise.                                               *)

\* Replicas serve versions that were committed, and a lock is held exactly by
\* the task that is loading on that replica.
THEOREM SyncTypeCorrect == Spec => []TypeOK
<1>1. SyncInv => TypeOK
    <2> SUFFICES ASSUME SyncInv PROVE TypeOK
        OBVIOUS
    <2> USE DEF SyncInv
    <2>1. 0..lastId \subseteq Versions /\ lastId \in Versions
        <3> DEFINE begun == {p \in Publishers : pc[p] # "ready"}
        <3>1. IsFiniteSet(begun) /\ Cardinality(begun) <= Cardinality(Publishers) /\ lastId = Cardinality(begun)
            BY PublishersAreCounted, FS_Subset DEF TableIsSound
        <3>2. Cardinality(Publishers) \in Nat /\ lastId \in Nat
            BY PublishersAreCounted, FS_CardinalityType DEF TableIsSound
        <3> HIDE DEF begun
        <3> QED BY <3>1, <3>2 DEF Versions
    <2>2. Latest <= lastId
        <3>1. Latest \in committed
            BY LatestIsGreatest
        <3> QED BY <3>1 DEF TableIsSound
    <2>3. ASSUME NEW r \in Replicas
          PROVE  {t \in Tasks : Home[t] = r /\ pc[t] \in {"loading", "loaded"}} = {lock[r]} \ {Nobody}
        BY NobodyIsNoTask DEF LockIsLoader, Loading, SyncTyped
    <2>4. committed \subseteq Versions
        BY <2>1 DEF TableIsSound
    <2>5. doc \in [Tasks -> Versions] /\ floor \in [Refreshers -> Versions]
        BY <2>1, <2>4 DEF SyncTyped
    <2> QED BY <2>1, <2>2, <2>3, <2>4, <2>5 DEF TypeOK, SyncTyped
<1> QED BY <1>1, SyncInvariant, PTL

\* A step that puts another version in force: a restart forgets it, a publish
\* changes its own replica, and a load applies what it brought.
LEMMA VersionMoves ==
    ASSUME SyncInv, [Next]_vars, NEW r \in Replicas, r \in Followers, version'[r] # version[r]
    PROVE  version'[r] = 0 \/ \E t \in Tasks : Apply(t) /\ Home[t] = r /\ version'[r] = Outcome(t)
<1>1. CASE \E t \in Tasks : Refreshing(t)
    <2>1. PICK t \in Tasks : Refreshing(t)
        BY <1>1
    <2>2. Apply(t)
        BY <2>1 DEF Refreshing, Serve, StartLoad, Queue, Load, Again, AskRefresh
    <2> QED BY <2>2 DEF Apply, Outcome, SyncInv, SyncTyped
<1>2. CASE \E p \in Tasks : Publishing(p)
    <2>1. PICK p \in Tasks : ApplyHere(p)
        BY <1>2 DEF Publishing, Insert, Commit
    <2>2. p \in Publishers
        BY <2>1 DEF ApplyHere, SyncInv, CarriesVersion
    <2> QED BY <2>1, <2>2 DEF ApplyHere, Followers, SyncInv, SyncTyped
<1>3. CASE Tick \/ UNCHANGED vars
    BY <1>3 DEF Tick, vars
<1>4. CASE Fault
    BY <1>4 DEF Fault, FailLoad, Cancel, Restart, SyncInv, SyncTyped
<1> QED BY <1>1, <1>2, <1>3, <1>4 DEF Next

\* Where nothing is published, a replica that lives never goes back to an older
\* policy (_refresh_if_due): what the holder of the lock brings is no older than
\* the version it asked with, which is still the one in force.
THEOREM PoliciesMoveOn == Spec => NeverGoesBack
<1>1. SyncInv /\ [Next]_vars => [\A r \in Followers : version'[r] < version[r] => version'[r] = 0]_vars
    <2> SUFFICES ASSUME SyncInv, [Next]_vars, NEW r \in Followers, version'[r] < version[r], version'[r] # 0
                 PROVE  FALSE
        OBVIOUS
    <2>1. r \in Replicas /\ version[r] \in Nat
        BY VersionsAreNumbers DEF Followers
    <2>2. PICK t \in Tasks : Apply(t) /\ Home[t] = r /\ version'[r] = Outcome(t)
        BY <2>1, VersionMoves
    <2>3. Outcome(t) >= version[r] /\ Outcome(t) \in Nat
        BY <2>2, VersionsAreNumbers DEF Apply, SyncInv, LoadsFollow
    <2> QED BY <2>1, <2>2, <2>3
<1> QED BY <1>1, SyncInvariant, PTL DEF Spec, NeverGoesBack

\* An operator who asks for the policy sees every version that was committed
\* before, on a replica that nobody publishes on and while no load is cancelled
\* or fails (refresh, PolicyController.current).
THEOREM OperatorsSeeTheLatest == Spec => RefreshIsCurrent
<1>1. SyncInv /\ [Next]_vars =>
          [\A t \in Refreshers :
              /\ pc[t] # "done" /\ pc'[t] = "done"
              /\ Home[t] \in Followers /\ faults' = 0
              => version'[Home[t]] >= floor[t]]_vars
    <2> SUFFICES ASSUME SyncInv, [Next]_vars, NEW t \in Refreshers, pc[t] # "done", pc'[t] = "done",
                        Home[t] \in Followers, faults' = 0
                 PROVE  version'[Home[t]] >= floor[t]
        OBVIOUS
    <2>1. t \in Tasks /\ t \notin Readers /\ t \notin Publishers /\ Home[t] \in Replicas /\ faults \in Nat
        BY TasksAreDistinct, HomesAreReplicas, FaultsAreBounded DEF Tasks, SyncInv, SyncTyped
    <2>2. CASE \E x \in Tasks : Refreshing(x)
        <3>1. PICK x \in Tasks : Refreshing(x)
            BY <2>2
        <3>2. faults = 0
            BY <3>1 DEF Refreshing, Serve, StartLoad, Queue, Load, Apply, Again, AskRefresh
        <3>3. WillBeCurrent(t)
            BY <3>2 DEF SyncInv, RefreshesAreCurrent
        <3>4. x = t /\ (Serve(t) \/ Apply(t))
            BY <2>1, <3>1 DEF Refreshing, Serve, StartLoad, Queue, Load, Apply, Again, AskRefresh, Acquire, End, Goto,
                              SyncInv, SyncTyped
        <3>5. CASE Serve(t)
            BY <2>1, <3>3, <3>5 DEF Serve, MayLoad, WillBeCurrent
        <3>6. CASE Apply(t)
            BY <2>1, <3>3, <3>6 DEF Apply, Outcome, WillBeCurrent, SyncInv, SyncTyped
        <3> QED BY <3>4, <3>5, <3>6
    <2>3. CASE \E p \in Tasks : Publishing(p)
        <3>1. PICK p \in Tasks : Publishing(p)
            BY <2>3
        <3>2. p \in Publishers
            BY <3>1 DEF Publishing, Insert, Commit, ApplyHere, SyncInv, CarriesVersion
        <3> QED BY <2>1, <3>1, <3>2 DEF Publishing, Insert, Commit, ApplyHere, End, Goto, SyncInv, SyncTyped
    <2>4. CASE Tick \/ UNCHANGED vars
        BY <2>4 DEF Tick, vars
    <2>5. CASE Fault
        <3>1. faults' = faults + 1
            BY <2>5 DEF Fault, FailLoad, Cancel, Restart, Fails
        <3> QED BY <2>1, <3>1
    <2> QED BY <2>2, <2>3, <2>4, <2>5 DEF Next
<1> QED BY <1>1, SyncInvariant, PTL DEF Spec, RefreshIsCurrent
================================================================================
