----------------------------- MODULE ApprovalQueue -----------------------------
(***************************************************************************)
(* The approval queue an operator pages through while calls are filed on   *)
(* several replicas and other operators decide (pending of both stores,    *)
(* TicketController.pending).                                              *)
(*                                                                         *)
(* A ticket is its position in the order of the random ids.  It gets its   *)
(* time of creation when its row is built and is seen once its transaction *)
(* commits; the store in memory does both at once.                         *)
(***************************************************************************)
EXTENDS Naturals, Sequences, FiniteSets, FiniteSetsExt, SequencesExt

CONSTANTS
    Tickets,        \* a set of numbers: the ids in their order
    ToolOf,         \* ToolOf[t]: the full name of its tool, a sequence of letters
    AgentOf,        \* AgentOf[t]: who filed it
    Fold,           \* Fold[l]: what LIKE compares of the letter l
    OneOf,          \* OneOf[p]: what a glob takes for ? or a class p, one letter of a set
    Queries,        \* tool, a pattern or <<>> for any, and agent or Anyone
    Anyone,
    Query,          \* what the operator looks for
    MaxPage,        \* limit, the size of a page
    Start,          \* cursor of the first page (None)
    End             \* cursor after the last page

ASSUME TicketsAreIds == Tickets \subseteq Nat \ {0}
ASSUME TicketsAreCounted == IsFiniteSet(Tickets)
ASSUME NamesAreText == ToolOf \in [Tickets -> Seq(DOMAIN Fold)]
ASSUME QueriesAreKnown ==
    Query \in Queries /\ \A q \in Queries : q.tool \in Seq(DOMAIN Fold \cup DOMAIN OneOf \cup {"*"})
ASSUME PagesHoldSomething == MaxPage \in Nat \ {0}
ASSUME CursorsAreNoTickets == {Start, End} \cap Tickets = {} /\ Start # End

VARIABLES
    created,        \* created[t]: created_at, 0 before
    order,          \* the tickets in the store, in the order they came to be seen
    decided,        \* those that are no longer pending
    cursor,         \* where the walk of the operator stands
    seen,           \* what its pages showed, in order
    due             \* what it has to show: wanted and there when it began

vars == <<created, order, decided, cursor, seen, due>>

--------------------------------------------------------------------------------
(* What a query selects.  A name matches a pattern when each part takes a   *)
(* stretch of it: "*" takes any, another part one of its letters.           *)

Parts == DOMAIN Fold \cup DOMAIN OneOf \cup {"*"}

GlobLetters(part) == IF part \in DOMAIN OneOf THEN OneOf[part] ELSE {part}

\* FAULTY: the _ of a name is left to mean any letter.
LikeLettersUnescaped(part) ==
    {l \in DOMAIN Fold : part = "_" \/ (part \in DOMAIN Fold /\ Fold[l] = Fold[part])}

\* Only "*" is translated: ? and [ stand for themselves.
LikeLetters(part) == {l \in DOMAIN Fold : part \in DOMAIN Fold /\ Fold[l] = Fold[part]}

Matches(name, pattern, letters) ==
    \E ends \in [0..Len(pattern) -> 0..Len(name)] :
        /\ ends[0] = 0 /\ ends[Len(pattern)] = Len(name)
        /\ \A k \in 1..Len(pattern) :
              IF pattern[k] = "*" THEN ends[k - 1] <= ends[k]
              ELSE ends[k] = ends[k - 1] + 1 /\ name[ends[k]] \in letters[pattern[k]]

Selected(q, letters) ==
    {t \in Tickets : /\ q.tool = <<>> \/ Matches(ToolOf[t], q.tool, letters)
                     /\ q.agent \in {Anyone, AgentOf[t]}}

SqlSelects    == [q \in Queries |-> Selected(q, [part \in Parts |-> LikeLetters(part)])]
MemorySelects == [q \in Queries |-> Selected(q, [part \in Parts |-> GlobLetters(part)])]

Wanted == SqlSelects[Query]

--------------------------------------------------------------------------------

Visible == ToSet(order)

\* FAULTY: rows of open transactions are read too.
Uncommitted == {t \in Tickets : created[t] # 0} \ decided

Pending == Visible \ decided

\* (created_at, id).
Before(s, t) == created[s] < created[t] \/ (created[s] = created[t] /\ s < t)

Init ==
    /\ created = [t \in Tickets |-> 0]
    /\ order = <<>> /\ decided = {}
    /\ cursor = Start /\ seen = <<>> /\ due = {}

--------------------------------------------------------------------------------
(* Filing and deciding.                                                     *)

Latest == Max({created[t] : t \in Tickets} \cup {0})

\* Two tickets of the same instant have the same time.
Stamp(t) ==
    /\ created[t] = 0
    /\ \E now \in {Max({Latest, 1}), Latest + 1} : created' = [created EXCEPT ![t] = now]
    /\ UNCHANGED <<order, decided, cursor, seen, due>>

Commit(t) ==
    /\ created[t] # 0 /\ t \notin Visible
    /\ order' = Append(order, t)
    /\ UNCHANGED <<created, decided, cursor, seen, due>>

Decide(t) ==
    /\ t \in Pending
    /\ decided' = decided \cup {t}
    /\ UNCHANGED <<created, order, cursor, seen, due>>

--------------------------------------------------------------------------------
(* Pages.                                                                   *)

FirstOf(s, n) == SubSeq(s, 1, Min({n, Len(s)}))

\* FAULTY: the place of a cursor that was decided meanwhile is not found.
KnownPending(after) == after \in Pending

Known(after) == after \in Visible

\* FAULTY: the cursor itself is in the page again.
AfterOrAt(after) == {t \in Pending : ~Before(t, after)}

After(after) == {t \in Pending : Before(after, t)}

\* Oldest first: the ticket at k has k - 1 of them before it.
Ordered(S) ==
    [k \in 1..Cardinality(S) |-> CHOOSE t \in S : Cardinality({s \in S : Before(s, t)}) = k - 1]

Page(S, n) == FirstOf(Ordered(S), n)

SqlPage(q, after, n) ==
    IF after = Start THEN Page(Pending \cap SqlSelects[q], n)
    ELSE IF Known(after) THEN Page(After(after) \cap SqlSelects[q], n) ELSE <<>>

\* The loop over the dict: what comes after the cursor, as it was inserted.
MemoryPage(q, after, n) ==
    LET started == {i \in DOMAIN order : after = Start \/ \E j \in 1..(i - 1) : order[j] = after}
        shown == {i \in started : order[i] \in Pending \cap MemorySelects[q]}
        index(k) == CHOOSE i \in shown : Cardinality({j \in shown : j < i}) = k - 1
    IN FirstOf([k \in 1..Cardinality(shown) |-> order[index(k)]], n)

\* The page is the last one when it is not full.
NextCursor(page) == IF Len(page) = MaxPage THEN Last(page) ELSE End

ReadPage ==
    LET page == SqlPage(Query, cursor, MaxPage) IN
    /\ cursor # End
    /\ due' = IF cursor = Start THEN Pending \cap Wanted ELSE due
    /\ seen' = seen \o page
    /\ cursor' = NextCursor(page)
    /\ UNCHANGED <<created, order, decided>>

Next ==
    \/ \E t \in Tickets : Stamp(t) \/ Commit(t) \/ Decide(t)
    \/ ReadPage

Spec == Init /\ [][Next]_vars

--------------------------------------------------------------------------------

\* A ticket in the store has its time of creation, and none is there twice.
TypeOK ==
    /\ created \in [Tickets -> 0..Cardinality(Tickets)]
    /\ IsInjective(order) /\ \A t \in Visible : created[t] # 0
    /\ decided \subseteq Visible
    /\ cursor \in Visible \cup {Start, End}
    /\ due \subseteq Visible \cap Wanted /\ ToSet(seen) \subseteq Visible

\* An operator who has gone through the queue has been shown every ticket that
\* was waiting when it began and still is, whatever was filed, committed late
\* or decided between two pages (pending, "what a lost notification can still
\* be found in").
WalkMissesNothing == cursor = End => due \ decided \subseteq ToSet(seen)

\* The pages of a walk show the queue oldest first and no ticket twice.
OldestFirst == \A i, j \in DOMAIN seen : i < j => Before(seen[i], seen[j])

\* Queries that are plain: "*" and letters that LIKE tells from those of the names.
PlainQueries ==
    {q \in Queries : \A part \in ToSet(q.tool) \ {"*"} :
        /\ part \in DOMAIN Fold \ DOMAIN OneOf
        /\ \A t \in Tickets : \A l \in ToSet(ToolOf[t]) : Fold[l] = Fold[part] => l = part}

\* Where tickets come to be seen as they are created, as in one process, both
\* stores give the same page of a plain query after any cursor, known or not.
StoresAgree ==
    (\A i, j \in DOMAIN order : i < j => Before(order[i], order[j])) =>
        \A q \in PlainQueries, after \in Tickets \cup {Start}, n \in 1..MaxPage + 1 :
            MemoryPage(q, after, n) = SqlPage(q, after, n)
================================================================================
