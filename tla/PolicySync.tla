------------------------------ MODULE PolicySync ------------------------------
(***************************************************************************)
(* How a published policy reaches the replicas: the table of versions that *)
(* all replicas share (SqlPolicySource), and on each replica the version   *)
(* in force, the time of the last check and the lock around a refresh      *)
(* (DeclarativePolicy).  One action per await; what the code does between  *)
(* two awaits is one step.                                                 *)
(*                                                                         *)
(* Time is the number of ticks since a replica checked, Interval once it   *)
(* is due.  A load that fails stands for a document that does not compile  *)
(* too: both keep the policy in force.                                     *)
(***************************************************************************)
EXTENDS Naturals, FiniteSets, FiniteSetsExt

CONSTANTS
    Replicas,       \* processes
    Readers,        \* agents' calls, one after the other (grant_for, may_call)
    Refreshers,     \* operators that look at the policy (refresh, current)
    Publishers,     \* operators that publish one document each
    Home,           \* Home[t]: the replica that serves the task t
    Interval,       \* refresh_seconds, in ticks
    MaxFaults,      \* bound on failed loads, cancellations and restarts
    Nobody          \* holder of a free lock

Tasks == Readers \cup Refreshers \cup Publishers

ASSUME HomesAreReplicas == \A t \in Tasks : Home[t] \in Replicas
ASSUME IntervalIsPositive == Interval \in Nat \ {0}
ASSUME FaultsAreBounded == MaxFaults \in Nat
ASSUME NobodyIsNoTask == Nobody \notin Tasks
ASSUME TasksAreDistinct ==
    Readers \cap Refreshers = {} /\ Publishers \cap (Readers \cup Refreshers) = {}
ASSUME PublishersAreCounted == IsFiniteSet(Publishers)

VARIABLES
    committed,      \* versions in the table; 0 stands for an empty one
    lastId,         \* last id the table gave out
    version,        \* version[r]: what r serves, 0 before the first
    age,            \* age[r]: ticks since r checked (_checked)
    lock,           \* lock[r]: the task that refreshes r
    pc,             \* where each task is
    doc,            \* doc[t]: the version t asked with, loaded or writes
    floor,          \* floor[t]: the latest version when a refresh was asked
    faults          \* faults so far

vars == <<committed, lastId, version, age, lock, pc, doc, floor, faults>>

Versions == 0..Cardinality(Publishers)
Latest == Max(committed)
Due(r) == age[r] = Interval
Idle(t) == pc[t] \in {"ready", "done", "gone"}

Init ==
    /\ committed = {0} /\ lastId = 0
    /\ version = [r \in Replicas |-> 0]
    /\ age = [r \in Replicas |-> Interval]
    /\ lock = [r \in Replicas |-> Nobody]
    /\ pc = [t \in Tasks |-> "ready"]
    /\ doc = [t \in Tasks |-> 0]
    /\ floor = [t \in Refreshers |-> 0]
    /\ faults = 0

Goto(t, label) == pc' = [pc EXCEPT ![t] = label]

\* The task t is over and forgets what it carried.
End(t, label) == Goto(t, label) /\ doc' = [doc EXCEPT ![t] = 0]

Fails == faults < MaxFaults /\ faults' = faults + 1

--------------------------------------------------------------------------------
(* A refresh that is due.                                                   *)

\* FAULTY: every caller that finds the policy due loads it.
MayLoadAtOnce(t) == TRUE

\* A new caller may overtake one that queues, which asyncio would not let it.
MayLoad(t) == lock[Home[t]] = Nobody

Acquire(t) ==
    /\ lock' = [lock EXCEPT ![Home[t]] = t]
    /\ age' = [age EXCEPT ![Home[t]] = 0]
    /\ doc' = [doc EXCEPT ![t] = version[Home[t]]]
    /\ Goto(t, "loading")

\* Checked a moment ago, possibly while this task waited for the lock.
Serve(t) ==
    /\ \/ pc[t] = "ready" /\ t \in Readers
       \/ pc[t] = "waiting" /\ MayLoad(t)
    /\ ~Due(Home[t])
    /\ End(t, "done")
    /\ UNCHANGED <<committed, lastId, version, age, lock, floor, faults>>

StartLoad(t) ==
    /\ pc[t] = "waiting" \/ (pc[t] = "ready" /\ t \in Readers)
    /\ Due(Home[t]) /\ MayLoad(t)
    /\ Acquire(t)
    /\ UNCHANGED <<committed, lastId, version, floor, faults>>

Queue(t) ==
    /\ pc[t] = "ready" /\ t \in Readers
    /\ Due(Home[t]) /\ ~MayLoad(t)
    /\ Goto(t, "waiting")
    /\ UNCHANGED <<committed, lastId, version, age, lock, doc, floor, faults>>

\* The latest id, unless it is the one the replica asked with.
Load(t) ==
    /\ pc[t] = "loading"
    /\ doc' = [doc EXCEPT ![t] = IF Latest = @ THEN 0 ELSE Latest]
    /\ Goto(t, "loaded")
    /\ UNCHANGED <<committed, lastId, version, age, lock, floor, faults>>

\* FAULTY: the lock is released by a refresh that ends well only.
ReleasedAtTheEnd(t) == [r \in Replicas |-> IF lock[r] = t /\ pc[t] = "loaded" THEN Nobody ELSE lock[r]]

Released(t) == [r \in Replicas |-> IF lock[r] = t THEN Nobody ELSE lock[r]]

Apply(t) ==
    /\ pc[t] = "loaded"
    /\ version' = [version EXCEPT ![Home[t]] = IF doc[t] = 0 THEN @ ELSE doc[t]]
    /\ lock' = Released(t)
    /\ End(t, "done")
    /\ UNCHANGED <<committed, lastId, age, floor, faults>>

FailLoad(t) ==
    /\ pc[t] = "loading"
    /\ Fails
    /\ lock' = Released(t)
    /\ End(t, "done")
    /\ UNCHANGED <<committed, lastId, version, age, floor>>

\* The next call of the same agent.
Again(t) ==
    /\ t \in Readers /\ pc[t] \in {"done", "gone"}
    /\ Goto(t, "ready")
    /\ UNCHANGED <<committed, lastId, version, age, lock, doc, floor, faults>>

\* FAULTY: a refresh that has to wait is content with the one under way.
KeepCheck(r) == age

ForgetCheck(r) == [age EXCEPT ![r] = Interval]

\* refresh() forgets the last check and goes on in the same step.
AskRefresh(t) ==
    /\ pc[t] = "ready" /\ t \in Refreshers
    /\ floor' = [floor EXCEPT ![t] = Latest]
    /\ \/ MayLoad(t) /\ Acquire(t)
       \/ /\ ~MayLoad(t)
          /\ age' = ForgetCheck(Home[t])
          /\ Goto(t, "waiting")
          /\ UNCHANGED <<lock, doc>>
    /\ UNCHANGED <<committed, lastId, version, faults>>

--------------------------------------------------------------------------------
(* A publish.                                                               *)

Insert(p) ==
    /\ pc[p] = "ready" /\ p \in Publishers
    /\ lastId' = lastId + 1
    /\ doc' = [doc EXCEPT ![p] = lastId + 1]
    /\ Goto(p, "inserted")
    /\ UNCHANGED <<committed, version, age, lock, floor, faults>>

Commit(p) ==
    /\ pc[p] = "inserted"
    /\ committed' = committed \cup {doc[p]}
    /\ Goto(p, "committed")
    /\ UNCHANGED <<lastId, version, age, lock, doc, floor, faults>>

ApplyHere(p) ==
    /\ pc[p] = "committed"
    /\ version' = [version EXCEPT ![Home[p]] = doc[p]]
    /\ age' = [age EXCEPT ![Home[p]] = 0]
    /\ End(p, "done")
    /\ UNCHANGED <<committed, lastId, lock, floor, faults>>

--------------------------------------------------------------------------------
(* Time and faults.                                                         *)

Tick ==
    /\ \E r \in Replicas : ~Due(r)
    /\ age' = [r \in Replicas |-> Min({age[r] + 1, Interval})]
    /\ UNCHANGED <<committed, lastId, version, lock, pc, doc, floor, faults>>

Cancel(t) ==
    /\ ~Idle(t)
    /\ Fails
    /\ lock' = Released(t)
    /\ End(t, "gone")
    /\ UNCHANGED <<committed, lastId, version, age, floor>>

Restart(r) ==
    /\ Fails
    /\ version' = [version EXCEPT ![r] = 0]
    /\ age' = [age EXCEPT ![r] = Interval]
    /\ lock' = [lock EXCEPT ![r] = Nobody]
    /\ pc' = [t \in Tasks |-> IF Home[t] = r /\ ~Idle(t) THEN "gone" ELSE pc[t]]
    /\ doc' = [t \in Tasks |-> IF Home[t] = r THEN 0 ELSE doc[t]]
    /\ UNCHANGED <<committed, lastId, floor>>

Fault ==
    \/ \E t \in Tasks : FailLoad(t) \/ Cancel(t)
    \/ \E r \in Replicas : Restart(r)

Refreshing(t) == Serve(t) \/ StartLoad(t) \/ Queue(t) \/ Load(t) \/ Apply(t) \/ Again(t) \/ AskRefresh(t)

Publishing(p) == Insert(p) \/ Commit(p) \/ ApplyHere(p)

Next == (\E t \in Tasks : Refreshing(t) \/ Publishing(t)) \/ Tick \/ Fault

\* A task that can go on does, calls keep coming and time passes.
Fairness == WF_vars(Tick) /\ \A t \in Tasks : WF_vars(Refreshing(t)) /\ WF_vars(Publishing(t))

Spec == Init /\ [][Next]_vars /\ Fairness

--------------------------------------------------------------------------------

\* A lock is held exactly by the task that is loading on that replica.
TypeOK ==
    /\ committed \subseteq Versions /\ lastId \in Versions /\ Latest <= lastId
    /\ version \in [Replicas -> committed]
    /\ age \in [Replicas -> 0..Interval]
    /\ pc \in [Tasks -> {"ready", "waiting", "loading", "loaded", "inserted", "committed", "done", "gone"}]
    /\ doc \in [Tasks -> Versions] /\ floor \in [Refreshers -> Versions]
    /\ faults \in 0..MaxFaults
    /\ \A r \in Replicas :
          {t \in Tasks : Home[t] = r /\ pc[t] \in {"loading", "loaded"}} = {lock[r]} \ {Nobody}

Followers == {r \in Replicas : \A p \in Publishers : Home[p] # r}

\* Where nothing is published, a replica that lives never goes back to an
\* older policy: loads are made one at a time, so that none is applied after a
\* later one (_refresh_if_due).
NeverGoesBack == [][\A r \in Followers : version'[r] < version[r] => version'[r] = 0]_vars

\* An operator who asks for the policy sees every version that was committed
\* before, on a replica that nobody publishes on and while no load is
\* cancelled or fails (refresh, PolicyController.current).
RefreshIsCurrent ==
    [][\A t \in Refreshers :
          /\ pc[t] # "done" /\ pc'[t] = "done"
          /\ Home[t] \in Followers /\ faults' = 0
          => version'[Home[t]] >= floor[t]]_vars

\* Where calls keep coming a replica ends up with the latest version, wherever
\* that was published and whatever was cancelled or failed on the way.
Converges == \A t \in Readers : <>[](version[Home[t]] = Latest)
================================================================================
