------------------------- MODULE WebhookNotifierProofs -------------------------
(***************************************************************************)
(* What the audit log says of a notification is true, and drain waits for  *)
(* all, for any number of tickets, attempts and stops.  What the log will  *)
(* say is decided by the last post, so the invariant says of each place of *)
(* a delivery what its posts so far amount to.                             *)
(***************************************************************************)
EXTENDS WebhookNotifier, TLAPS

\* What may be told of t: that it was answered below 400, or that no post is left.
Told(t, outcome) ==
    IF outcome = "notified" THEN said[t] \in {"ok", "redirected"} /\ received[t] > 0
    ELSE said[t] = "rejected" \/ (said[t] \in {"broken", "lost"} /\ tries[t] = Attempts)

\* Before a delivery is over its outcome is not told, it ends with an outcome that
\* may be told or none, and it posts while attempts are left.
DeliveryIsSound(t) ==
    /\ delivery[t] = "none" => tries[t] = 0 /\ received[t] = 0
    /\ delivery[t] \in {"post", "sleep"} => tries[t] < Attempts
    /\ delivery[t] # "over" => audit[t] = <<>>
    /\ delivery[t] = "tell" => Told(t, IF Accepted(said[t]) THEN "notified" ELSE "notify.error")
    /\ received[t] <= tries[t]
    /\ audit[t] = <<>> \/ \E outcome \in {"notified", "notify.error"} :
          audit[t] = <<outcome>> /\ Told(t, outcome)

DeliveriesTyped ==
    /\ filed \subseteq Tickets
    /\ delivery \in [Tickets -> {"none", "post", "sleep", "tell", "over"}]
    /\ tries \in [Tickets -> 0..Attempts] /\ said \in [Tickets -> Answers]
    /\ received \in [Tickets -> 0..Attempts]
    /\ audit \in [Tickets -> Seq({"notified", "notify.error"})]

DrainTyped ==
    /\ drain \in {"idle", "waits", "returned"} /\ gathered \subseteq Tickets
    /\ drain = "waits" <=> gathered # {}
    /\ stops \in 0..MaxStops

NotifierInv == DeliveriesTyped /\ DrainTyped /\ \A t \in Tickets : DeliveryIsSound(t)

--------------------------------------------------------------------------------

\* A counter that the code does not let pass the attempts is not cut off.
LEMMA CappedIsCounted == \A n \in 0..Attempts : Capped(n) = n
<1> SUFFICES ASSUME NEW n \in 0..Attempts PROVE Capped(n) = n
    OBVIOUS
<1> DEFINE S == {n, Attempts + 1}
<1>1. n \in S /\ \A y \in S : n =< y
    BY AttemptsArePositive
<1>2. \A x \in S : (\A y \in S : x =< y) => x = n
    BY AttemptsArePositive
<1>3. Min(S) = n
    <2> HIDE DEF S
    <2> QED BY <1>1, <1>2 DEF Min
<1> QED BY <1>3 DEF Capped

LEMMA NotifierInit == Init => NotifierInv
BY AttemptsArePositive, StopsAreBounded
   DEF Init, NotifierInv, DeliveriesTyped, DrainTyped, DeliveryIsSound, Answers

\* A step that is about t leaves the other deliveries alone.
Only(t) == \A s \in Tickets \ {t} :
    /\ delivery'[s] = delivery[s] /\ tries'[s] = tries[s] /\ said'[s] = said[s]
    /\ received'[s] = received[s] /\ audit'[s] = audit[s]

LEMMA OnlyKeeps ==
    ASSUME NotifierInv, NEW t \in Tickets, Only(t)
    PROVE  \A s \in Tickets \ {t} : DeliveryIsSound(s)'
BY DEF NotifierInv, Only, DeliveryIsSound, Told, Accepted

LEMMA PostKeeps ==
    ASSUME NotifierInv, NEW t \in Tickets, Post(t) PROVE NotifierInv'
<1> USE AttemptsArePositive DEF NotifierInv, DeliveriesTyped, Answers
<1>1. PICK answer \in Answers, got \in BOOLEAN :
        /\ answer # "lost" => got
        /\ said' = [said EXCEPT ![t] = answer]
        /\ received' = [received EXCEPT ![t] = Capped(@ + IF got THEN 1 ELSE 0)]
        /\ tries' = [tries EXCEPT ![t] = Capped(@ + 1)]
        /\ Goto(t, IF Sleeps(answer, tries[t] + 1) THEN "sleep" ELSE "tell")
    BY DEF Post
<1>2. /\ delivery[t] = "post" /\ audit[t] = <<>>
      /\ tries[t] < Attempts /\ received[t] <= tries[t]
    BY DEF Post, DeliveryIsSound
<1>3. tries'[t] = tries[t] + 1 /\ received'[t] = received[t] + IF got THEN 1 ELSE 0
    BY <1>1, <1>2, CappedIsCounted
<1>4. DeliveriesTyped' /\ Only(t)
    BY <1>1, <1>2, <1>3 DEF Post, Goto, Only
<1>5. DeliveryIsSound(t)'
    <2>1. delivery'[t] = IF Sleeps(answer, tries'[t]) THEN "sleep" ELSE "tell"
        BY <1>1, <1>3 DEF Goto
    <2>2. said'[t] = answer /\ audit'[t] = <<>> /\ filed' = filed
        BY <1>1, <1>2 DEF Post
    <2>3. tries[t] \in 0..Attempts /\ received[t] \in 0..Attempts /\ tries'[t] <= Attempts
        BY <1>2, <1>3
    <2>4. said'[t] \in Answers /\ (said'[t] # "lost" => received'[t] > 0)
        BY <1>1, <1>3, <2>2, <2>3
    <2>5. CASE Sleeps(answer, tries'[t])
        BY <2>1, <2>2, <2>5, <1>3, <1>2, <2>3 DEF DeliveryIsSound, Told, Sleeps, TriesLeft
    <2>6. CASE ~Sleeps(answer, tries'[t])
        <3>1. said'[t] \in {"ok", "redirected", "rejected"} \/ tries'[t] = Attempts
            BY <2>2, <2>3, <2>4, <2>6, <1>3 DEF Sleeps, TriesLeft
        <3> QED BY <2>1, <2>2, <2>3, <2>4, <2>6, <1>2, <1>3, <3>1 DEF DeliveryIsSound, Told, Accepted
    <2> QED BY <2>5, <2>6
<1>6. DrainTyped'
    BY DEF Post, DrainTyped
<1> QED BY <1>4, <1>5, <1>6, OnlyKeeps

LEMMA TellKeeps ==
    ASSUME NotifierInv, NEW t \in Tickets, Tell(t) PROVE NotifierInv'
<1> USE DEF NotifierInv, DeliveriesTyped
<1> DEFINE outcome == IF Accepted(said[t]) THEN "notified" ELSE "notify.error"
<1>1. delivery[t] = "tell" /\ audit[t] = <<>> /\ Told(t, outcome)
    BY DEF Tell, DeliveryIsSound
<1>2. audit'[t] = <<outcome>> /\ audit' \in [Tickets -> Seq({"notified", "notify.error"})]
    BY <1>1 DEF Tell
<1>3. DeliveriesTyped' /\ DrainTyped' /\ Only(t)
    BY <1>2 DEF Tell, Goto, DrainTyped, Only
<1>4. DeliveryIsSound(t)'
    BY <1>1, <1>2 DEF Tell, Goto, DeliveryIsSound, Told
<1> QED BY <1>3, <1>4, OnlyKeeps

LEMMA NotifierNext == NotifierInv /\ [Next]_vars => NotifierInv'
<1> SUFFICES ASSUME NotifierInv, [Next]_vars PROVE NotifierInv'
    OBVIOUS
<1> USE DEF NotifierInv, DeliveriesTyped
<1>1. ASSUME NEW t \in Tickets, File(t) PROVE NotifierInv'
    BY <1>1 DEF File, DrainTyped, DeliveryIsSound, Told
<1>2. ASSUME NEW t \in Tickets, Notify(t) PROVE NotifierInv'
    <2>1. DeliveriesTyped' /\ DrainTyped' /\ Only(t)
        BY <1>2 DEF Notify, Goto, DrainTyped, Only
    <2>2. DeliveryIsSound(t)'
        BY <1>2, AttemptsArePositive DEF Notify, Goto, DeliveryIsSound, Told
    <2> QED BY <2>1, <2>2, OnlyKeeps
<1>3. ASSUME NEW t \in Tickets, PostFails(t) PROVE NotifierInv'
    <2>1. delivery[t] = "post" /\ tries[t] < Attempts /\ received[t] <= tries[t] /\ audit[t] = <<>>
        BY <1>3 DEF PostFails, DeliveryIsSound
    <2>2. tries[t] + 1 \in 0..Attempts
        BY <2>1, AttemptsArePositive
    <2>3. tries' = [tries EXCEPT ![t] = tries[t] + 1]
        BY <1>3, <2>2, CappedIsCounted DEF PostFails
    <2>4. DeliveriesTyped' /\ DrainTyped' /\ Only(t)
        BY <1>3, <2>2, <2>3 DEF PostFails, Goto, DrainTyped, Only
    <2>5. DeliveryIsSound(t)'
        BY <1>3, <2>1, <2>2, <2>3 DEF PostFails, Goto, DeliveryIsSound, Told
    <2> QED BY <2>4, <2>5, OnlyKeeps
<1>4. ASSUME NEW t \in Tickets, Wake(t) \/ TellFails(t) PROVE NotifierInv'
    <2>1. DeliveriesTyped' /\ DrainTyped' /\ Only(t)
        BY <1>4 DEF Wake, TellFails, Goto, DrainTyped, Only
    <2>2. DeliveryIsSound(t)'
        BY <1>4 DEF Wake, TellFails, Goto, DeliveryIsSound, Told
    <2> QED BY <2>1, <2>2, OnlyKeeps
<1>5. CASE Drain
    <2>1. DrainTyped'
        BY <1>5 DEF Drain, StillToGather, InFlight, DrainTyped
    <2> QED BY <1>5, <2>1 DEF Drain, DeliveryIsSound, Told
<1>6. CASE Stop
    <2>1. DeliveriesTyped'
        BY <1>6 DEF Stop
    <2>2. DrainTyped'
        BY <1>6, StopsAreBounded DEF Stop, DrainTyped
    <2>3. \A t \in Tickets : DeliveryIsSound(t)'
        BY <1>6 DEF Stop, InFlight, DeliveryIsSound, Told
    <2> QED BY <2>1, <2>2, <2>3
<1>7. CASE UNCHANGED vars
    BY <1>7 DEF vars, DrainTyped, DeliveryIsSound, Told
<1> QED BY <1>1, <1>2, <1>3, <1>4, <1>5, <1>6, <1>7, PostKeeps, TellKeeps DEF Next, Delivering

THEOREM NotifierInvariant == Spec => []NotifierInv
BY NotifierInit, NotifierNext, PTL DEF Spec

--------------------------------------------------------------------------------

\* A delivery posts no more often than asked for and tells its outcome once,
\* and drain waits exactly while there is something it waits for.
THEOREM NotifierTypeCorrect == Spec => []TypeOK
<1>1. ASSUME NotifierInv PROVE \A t \in Tickets : Len(audit[t]) <= 1
    <2>1. /\ Len(<<>>) <= 1
          /\ \A outcome \in {"notified", "notify.error"} : Len(<<outcome>>) <= 1
        OBVIOUS
    <2>2. \A t \in Tickets : audit[t] = <<>> \/ \E outcome \in {"notified", "notify.error"} : audit[t] = <<outcome>>
        BY <1>1 DEF NotifierInv, DeliveryIsSound
    <2> QED BY <2>1, <2>2, Zenon
<1>2. NotifierInv => TypeOK
    BY <1>1 DEF NotifierInv, DeliveriesTyped, DrainTyped, TypeOK
<1> QED BY <1>2, NotifierInvariant, PTL

\* The audit log says "notified" only of a ticket that reached the channel and was
\* answered below 400, "notify.error" only of one it rejected or did not take in
\* any attempt (_deliver).
THEOREM AuditIsTrue == Spec => []AuditTellsTruth
<1>1. NotifierInv => AuditTellsTruth
    BY DEF NotifierInv, DeliveryIsSound, Told, AuditTellsTruth
<1> QED BY <1>1, NotifierInvariant, PTL

\* When drain returns nothing is in flight, deliveries that began meanwhile
\* included.
THEOREM DrainWaitsForAll == Spec => DrainedIsQuiet
<1>1. [Next]_vars => [drain # "returned" /\ drain' = "returned" => InFlight = {}]_vars
    BY DEF Next, vars, File, Notify, Delivering, Post, PostFails, Wake, Tell, TellFails, Drain, Stop, StillToGather
<1> QED BY <1>1, PTL DEF Spec, DrainedIsQuiet
================================================================================
