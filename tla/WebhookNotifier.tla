---------------------------- MODULE WebhookNotifier ----------------------------
(***************************************************************************)
(* Notifications of gated calls: the gate files the ticket and hands it    *)
(* over, one background task per ticket posts it to the channel, again     *)
(* when that may help, and audits how it ended (WebhookNotifier,           *)
(* ApprovalGate.handle_call).  The channel may lose a request or its own   *)
(* answer, reject, or break.                                               *)
(***************************************************************************)
EXTENDS Naturals, Sequences, FiniteSets, FiniteSetsExt

CONSTANTS
    Tickets,        \* gated calls
    Attempts,       \* attempts, the posts of a notification
    MaxStops        \* bound on the stops of the process

ASSUME AttemptsArePositive == Attempts \in Nat \ {0}
ASSUME StopsAreBounded == MaxStops \in Nat

VARIABLES
    filed,          \* tickets in the store
    delivery,       \* delivery[t]: none, post, sleep, tell or over
    tries,          \* tries[t]: posts so far
    said,           \* said[t]: how the channel answered last
    received,       \* received[t]: how often the channel got the ticket
    audit,          \* audit[t]: the outcomes in the audit log
    drain,          \* idle, waits or returned
    gathered,       \* the deliveries drain waits for
    stops           \* stops so far

vars == <<filed, delivery, tries, said, received, audit, drain, gathered, stops>>

\* Below 300, below 400 (redirects are not followed), below 500, above; lost is
\* any httpx.HTTPError.
Answers  == {"ok", "redirected", "rejected", "broken", "lost"}
InFlight == {t \in Tickets : delivery[t] \in {"post", "sleep", "tell"}}

Init ==
    /\ filed = {}
    /\ delivery = [t \in Tickets |-> "none"]
    /\ tries = [t \in Tickets |-> 0] /\ said = [t \in Tickets |-> "lost"]
    /\ received = [t \in Tickets |-> 0] /\ audit = [t \in Tickets |-> <<>>]
    /\ drain = "idle" /\ gathered = {}
    /\ stops = 0

Goto(t, label) == delivery' = [delivery EXCEPT ![t] = label]

--------------------------------------------------------------------------------
(* The gate.                                                                *)

File(t) ==
    /\ t \notin filed
    /\ filed' = filed \cup {t}
    /\ UNCHANGED <<delivery, tries, said, received, audit, drain, gathered, stops>>

Notify(t) ==
    /\ t \in filed /\ delivery[t] = "none"
    /\ Goto(t, "post")
    /\ UNCHANGED <<filed, tries, said, received, audit, drain, gathered, stops>>

--------------------------------------------------------------------------------
(* _deliver.                                                                *)

\* FAULTY: whatever is no error of the channel itself is a success.
NotBroken(answer) == answer \in {"ok", "redirected", "rejected"}

Accepted(answer) == answer \in {"ok", "redirected"}

\* FAULTY: one more attempt than asked for.
TriesLeftOver(n) == n <= Attempts

TriesLeft(n) == n < Attempts

\* FAULTY: a failed post is repeated until the channel takes it.
SleepsAlways(answer, n) == ~Accepted(answer)

\* An error or a 5xx is worth another post, if there is one left.
Sleeps(answer, n) == answer \in {"broken", "lost"} /\ TriesLeft(n)

\* Counters stop one above what the code allows.
Capped(n) == Min({n, Attempts + 1})

\* An answer that is lost may follow a request that was not.
Post(t) ==
    /\ delivery[t] = "post"
    /\ \E answer \in Answers, got \in BOOLEAN :
          /\ answer # "lost" => got
          /\ said' = [said EXCEPT ![t] = answer]
          /\ received' = [received EXCEPT ![t] = Capped(@ + IF got THEN 1 ELSE 0)]
          /\ tries' = [tries EXCEPT ![t] = Capped(@ + 1)]
          /\ Goto(t, IF Sleeps(answer, tries[t] + 1) THEN "sleep" ELSE "tell")
    /\ UNCHANGED <<filed, audit, drain, gathered, stops>>

\* An exception that is no httpx.HTTPError (an url that is none): nobody awaits
\* the task, which ends there.
PostFails(t) ==
    /\ delivery[t] = "post"
    /\ tries' = [tries EXCEPT ![t] = Capped(@ + 1)]
    /\ Goto(t, "over")
    /\ UNCHANGED <<filed, said, received, audit, drain, gathered, stops>>

Wake(t) ==
    /\ delivery[t] = "sleep"
    /\ Goto(t, "post")
    /\ UNCHANGED <<filed, tries, said, received, audit, drain, gathered, stops>>

Tell(t) ==
    /\ delivery[t] = "tell"
    /\ audit' = [audit EXCEPT ![t] = Append(@, IF Accepted(said[t]) THEN "notified" ELSE "notify.error")]
    /\ Goto(t, "over")
    /\ UNCHANGED <<filed, tries, said, received, drain, gathered, stops>>

\* The audit log raises.
TellFails(t) ==
    /\ delivery[t] = "tell"
    /\ Goto(t, "over")
    /\ UNCHANGED <<filed, tries, said, received, audit, drain, gathered, stops>>

--------------------------------------------------------------------------------
(* drain, and the end of the process.                                       *)

\* FAULTY: what was handed over while drain waited is not looked at.
GatheredOnce == IF drain = "waits" THEN {} ELSE InFlight

StillToGather == InFlight

\* Everything in flight when drain last looked is over: it looks again.
Drain ==
    /\ drain # "returned" /\ gathered \cap InFlight = {}
    /\ gathered' = StillToGather
    /\ drain' = IF gathered' = {} THEN "returned" ELSE "waits"
    /\ UNCHANGED <<filed, delivery, tries, said, received, audit, stops>>

\* The deliveries are lost and not taken up again.
Stop ==
    /\ stops < MaxStops
    /\ stops' = stops + 1
    /\ delivery' = [t \in Tickets |-> IF t \in InFlight THEN "over" ELSE delivery[t]]
    /\ drain' = "idle" /\ gathered' = {}
    /\ UNCHANGED <<filed, tries, said, received, audit>>

Delivering(t) == Post(t) \/ PostFails(t) \/ Wake(t) \/ Tell(t) \/ TellFails(t)

Next ==
    \/ \E t \in Tickets : File(t) \/ Notify(t) \/ Delivering(t)
    \/ Drain \/ Stop

\* A post ends by its timeout at the latest, a sleep with its time.
Fairness == WF_vars(Drain) /\ \A t \in Tickets : WF_vars(Delivering(t))

Spec == Init /\ [][Next]_vars /\ Fairness

--------------------------------------------------------------------------------

\* While drain waits there is something it waits for.
TypeOK ==
    /\ filed \subseteq Tickets
    /\ delivery \in [Tickets -> {"none", "post", "sleep", "tell", "over"}]
    /\ tries \in [Tickets -> 0..Attempts] /\ said \in [Tickets -> Answers]
    /\ received \in [Tickets -> 0..Attempts]
    /\ \A t \in Tickets : Len(audit[t]) <= 1
    /\ drain \in {"idle", "waits", "returned"} /\ gathered \subseteq Tickets
    /\ drain = "waits" <=> gathered # {}
    /\ stops \in 0..MaxStops

\* The audit log tells what happened: "notified" of a ticket that reached the
\* channel and was answered below 400, a redirect included, "notify.error" of one
\* that was rejected or posted as often as asked for (_deliver; README.md:177).
AuditTellsTruth ==
    \A t \in Tickets, i \in 1..2 : i \in DOMAIN audit[t] =>
        IF audit[t][i] = "notified" THEN said[t] \in {"ok", "redirected"} /\ received[t] > 0
        ELSE said[t] = "rejected" \/ (said[t] \in {"broken", "lost"} /\ tries[t] = Attempts)

\* drain returns when nothing is in flight any more, deliveries that began
\* while it waited included.
DrainedIsQuiet == [][drain # "returned" /\ drain' = "returned" => InFlight = {}]_vars

\* Every delivery ends, however the channel behaves.
DeliveriesEnd == \A t \in Tickets : t \in InFlight ~> t \notin InFlight
================================================================================
