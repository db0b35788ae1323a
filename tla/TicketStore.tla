------------------------------ MODULE TicketStore ------------------------------
(***************************************************************************)
(* The durable home of the gated calls: a Ticket per call, with the        *)
(* verdict on it, the run-once claim and the result.  One operator per     *)
(* method of the store, each of them atomic: MemoryTicketStore runs them   *)
(* without an await, SqlTicketStore as one conditional UPDATE each.  Where *)
(* a method answers True or False, <Method>Wins(t) is the answer and       *)
(* <Method>(t) the update of the method that answers True.                 *)
(*                                                                         *)
(* The module is a library: a component that uses the store EXTENDS it and *)
(* conjoins these operators to its own actions.                            *)
(***************************************************************************)

CONSTANTS
    Tickets,    \* the identifiers of tickets (tkt-<uuid>, one per gated call)
    Args,       \* the argument objects a tool call can carry
    None        \* Python's None: no call, no edit, no result

ASSUME NoneIsNoValue == None \notin Args \cup Tickets

VARIABLES
    call,       \* call[t]: arguments of the call ticket t keeps, None if t was never created
    decision,   \* decision[t]: the Decision recorded on t
    claimed,    \* the tickets some executor has claimed
    stale,      \* the claims older than the execution lease
    result      \* result[t]: the ToolResult stored on t, or None

storeVars == <<call, decision, claimed, stale, result>>

--------------------------------------------------------------------------------
(* Values.  A Decision is a status and, when an operator patched the call,  *)
(* the edited arguments; a ToolResult is where it comes from and whether it *)
(* carries the note that tells the agent about the edit.                    *)

Undecided == [status |-> "pending", edit |-> None]
TimedOut  == [status |-> "timeout", edit |-> None]
Verdicts  == [status : {"approved", "rejected"}, edit : Args \cup {None}]
Decisions == [status : {"pending", "approved", "rejected", "timeout"},
              edit   : Args \cup {None}]

Interrupted == [kind |-> "interrupted", note |-> FALSE]
Results     == [kind : {"ok", "error", "interrupted"}, note : BOOLEAN]

ASSUME NoneIsNoResult == None \notin Results

StoreTypeOK ==
    /\ call \in [Tickets -> Args \cup {None}]
    /\ decision \in [Tickets -> Decisions]
    /\ claimed \in SUBSET Tickets
    /\ stale \in SUBSET Tickets
    /\ result \in [Tickets -> Results \cup {None}]

StoreInit ==
    /\ call = [t \in Tickets |-> None]
    /\ decision = [t \in Tickets |-> Undecided]
    /\ claimed = {}
    /\ stale = {}
    /\ result = [t \in Tickets |-> None]

Filed(t) == call[t] # None

Create(t, a) ==
    /\ call' = [call EXCEPT ![t] = a]
    /\ decision' = [decision EXCEPT ![t] = Undecided]
    /\ UNCHANGED <<claimed, stale, result>>

--------------------------------------------------------------------------------
(* decide: the verdict of an operator, or the timeout of the waiter.        *)

\* FAULTY: any later verdict replaces the one on the ticket.
DecideWinsAgain(t) == Filed(t)

DecideWins(t) == Filed(t) /\ decision[t].status = "pending"

Decide(t, d) ==
    /\ DecideWins(t)
    /\ decision' = [decision EXCEPT ![t] = d]
    /\ UNCHANGED <<call, claimed, stale, result>>

--------------------------------------------------------------------------------
(* claim, complete and close_stale_claim: the run-once protocol.            *)

\* FAULTY: the claim looks at the result only.
ClaimWinsUntilResult(t) == Filed(t) /\ result[t] = None

ClaimWins(t) == Filed(t) /\ result[t] = None /\ t \notin claimed

Claim(t) ==
    /\ ClaimWins(t)
    /\ claimed' = claimed \cup {t}
    /\ UNCHANGED <<call, decision, stale, result>>

Complete(t, r) ==
    /\ result' = [result EXCEPT ![t] = r]
    /\ UNCHANGED <<call, decision, claimed, stale>>

\* FAULTY: the age of the claim is not looked at.
CloseWinsAnyClaim(t) == Filed(t) /\ result[t] = None /\ t \in claimed

CloseStaleClaimWins(t) ==
    /\ Filed(t)
    /\ result[t] = None
    /\ t \in claimed
    /\ t \in stale

CloseStaleClaim(t) ==
    /\ CloseStaleClaimWins(t)
    /\ result' = [result EXCEPT ![t] = Interrupted]
    /\ UNCHANGED <<call, decision, claimed, stale>>

(* The clock, not a method: the claim on t becomes older than the lease.    *)
GrowStale(t) ==
    /\ t \in claimed \ stale
    /\ stale' = stale \cup {t}
    /\ UNCHANGED <<call, decision, claimed, result>>
================================================================================
