-------------------------- MODULE ApprovalQueueProofs --------------------------
(***************************************************************************)
(* An operator who has gone through the queue has been shown what was      *)
(* waiting when it began and still is, oldest first, for any tickets, any  *)
(* page size and whatever is filed, committed late or decided between two  *)
(* pages.  The argument is about one page: it is the first of the tickets  *)
(* behind the cursor, and what it leaves out is behind its last.  The two  *)
(* stores show the same of a plain query because their filters agree on it *)
(* and places in the dict are ranks in the order of the query.             *)
(***************************************************************************)
EXTENDS ApprovalQueue, SequenceTheorems, FiniteSetTheorems, WellFoundedInduction, TLAPS

--------------------------------------------------------------------------------
(* The order of the queue, and a page of it.                                *)

\* How many tickets of S are before t.
Rank(S, t) == Cardinality({s \in S : Before(s, t)})

LEMMA BeforeIsAnOrder ==
    ASSUME created \in [Tickets -> Nat]
    PROVE  \A s, t, u \in Tickets :
              /\ ~Before(t, t)
              /\ Before(s, t) \/ Before(t, s) \/ s = t
              /\ Before(s, t) /\ Before(t, u) => Before(s, u)
BY TicketsAreIds DEF Before

LEMMA RankIsMonotone ==
    ASSUME created \in [Tickets -> Nat], NEW S \in SUBSET Tickets, NEW s \in S, NEW t \in S, Before(s, t)
    PROVE  Rank(S, s) < Rank(S, t)
<1> DEFINE Behind(u) == {x \in S : Before(x, u)}
<1>1. IsFiniteSet(S)
    BY TicketsAreCounted, FS_Subset
<1>2. IsFiniteSet(Behind(t)) /\ IsFiniteSet(Behind(s))
    BY <1>1, FS_Subset
<1>3. Behind(s) \subseteq Behind(t) /\ s \in Behind(t) /\ s \notin Behind(s)
    BY BeforeIsAnOrder
<1>4. Behind(s) \in SUBSET Behind(t) /\ Behind(s) # Behind(t)
    BY <1>3
<1> HIDE DEF Behind
<1>5. Cardinality(Behind(s)) <= Cardinality(Behind(t)) /\ Cardinality(Behind(s)) # Cardinality(Behind(t))
    BY <1>2, <1>4, FS_Subset
<1>6. Cardinality(Behind(s)) \in Nat /\ Cardinality(Behind(t)) \in Nat
    BY <1>2, FS_CardinalityType
<1>7. Cardinality(Behind(s)) < Cardinality(Behind(t))
    BY <1>5, <1>6
<1> QED BY <1>7 DEF Rank, Behind

\* Ranks of a set of n tickets are 0..n-1, each once.
LEMMA RanksAreAll ==
    ASSUME created \in [Tickets -> Nat], NEW S \in SUBSET Tickets
    PROVE  /\ IsFiniteSet(S) /\ Cardinality(S) \in Nat
           /\ \A t \in S : Rank(S, t) \in 0..(Cardinality(S) - 1)
           /\ \A s, t \in S : Rank(S, s) = Rank(S, t) => s = t
           /\ \A k \in 0..(Cardinality(S) - 1) : \E t \in S : Rank(S, t) = k
<1> DEFINE n == Cardinality(S)
           f == [t \in S |-> Rank(S, t)]
<1>1. IsFiniteSet(S) /\ n \in Nat
    BY TicketsAreCounted, FS_Subset, FS_CardinalityType
<1>2. ASSUME NEW t \in S PROVE Rank(S, t) \in 0..(n - 1)
    <2> DEFINE behind == {x \in S : Before(x, t)}
    <2>1. behind \in SUBSET S /\ t \notin behind
        BY BeforeIsAnOrder
    <2>2. behind # S
        BY <2>1
    <2> HIDE DEF behind
    <2>3. IsFiniteSet(behind) /\ Cardinality(behind) <= n /\ Cardinality(behind) # n
        BY <1>1, <2>1, <2>2, FS_Subset
    <2>4. Cardinality(behind) \in Nat
        BY <2>3, FS_CardinalityType
    <2>5. Cardinality(behind) \in 0..(n - 1)
        BY <1>1, <2>3, <2>4
    <2> QED BY <2>5 DEF behind, Rank
<1>3. ASSUME NEW s \in S, NEW t \in S, Rank(S, s) = Rank(S, t) PROVE s = t
    <2>1. Rank(S, s) \in Int /\ Rank(S, t) \in Int
        BY <1>1, <1>2
    <2>2. ~Before(s, t) /\ ~Before(t, s)
        BY <1>3, <2>1, RankIsMonotone
    <2> QED BY <2>2, BeforeIsAnOrder
<1>4. f \in Injection(S, 0..(n - 1))
    BY <1>2, <1>3 DEF Injection, IsInjective
<1>5. IsFiniteSet(0..(n - 1)) /\ Cardinality(0..(n - 1)) = n
    BY <1>1, FS_Interval
<1>6. f \in Surjection(S, 0..(n - 1))
    BY <1>4, <1>5, FS_Injection
<1>7. \A k \in 0..(n - 1) : \E t \in S : Rank(S, t) = k
    BY <1>6 DEF Surjection
<1> QED BY <1>1, <1>2, <1>3, <1>7

\* Ordered lists a set, each ticket at the place its rank says.
LEMMA OrderedLists ==
    ASSUME created \in [Tickets -> Nat], NEW S \in SUBSET Tickets
    PROVE  /\ Ordered(S) \in Seq(S) /\ Len(Ordered(S)) = Cardinality(S) /\ Cardinality(S) \in Nat
           /\ \A i, j \in 1..Cardinality(S) : i < j => Before(Ordered(S)[i], Ordered(S)[j])
           /\ \A t \in S : \E k \in 1..Cardinality(S) : Ordered(S)[k] = t
<1> DEFINE n == Cardinality(S)
<1>1. n \in Nat
    BY RanksAreAll
<1>2. \A k \in 1..n : Ordered(S)[k] \in S /\ Rank(S, Ordered(S)[k]) = k - 1
    <2> SUFFICES ASSUME NEW k \in 1..n PROVE Ordered(S)[k] \in S /\ Rank(S, Ordered(S)[k]) = k - 1
        OBVIOUS
    <2>1. k - 1 \in 0..(n - 1)
        BY <1>1
    <2>2. \E t \in S : Rank(S, t) = k - 1
        BY <2>1, RanksAreAll
    <2>3. Ordered(S)[k] = CHOOSE t \in S : Rank(S, t) = k - 1
        BY DEF Ordered, Rank
    <2> QED BY <2>2, <2>3
<1>3. Ordered(S) \in [1..n -> S]
    BY <1>2 DEF Ordered
<1>4. Ordered(S) \in Seq(S) /\ Len(Ordered(S)) = n
    BY <1>1, <1>3
<1>5. ASSUME NEW i \in 1..n, NEW j \in 1..n, i < j PROVE Before(Ordered(S)[i], Ordered(S)[j])
    <2> DEFINE s == Ordered(S)[i]
               t == Ordered(S)[j]
    <2>1. s \in S /\ t \in S /\ Rank(S, s) = i - 1 /\ Rank(S, t) = j - 1
        BY <1>2
    <2> HIDE DEF s, t
    <2>2. s # t /\ ~(Rank(S, t) < Rank(S, s))
        BY <1>1, <1>5, <2>1
    <2>3. Before(s, t)
        BY <2>1, <2>2, RankIsMonotone, BeforeIsAnOrder
    <2> QED BY <2>3 DEF s, t
<1>6. ASSUME NEW t \in S PROVE \E k \in 1..n : Ordered(S)[k] = t
    <2>1. Rank(S, t) \in 0..(n - 1)
        BY RanksAreAll
    <2>2. PICK k \in 1..n : k = Rank(S, t) + 1
        BY <1>1, <2>1
    <2>3. Ordered(S)[k] \in S /\ Rank(S, Ordered(S)[k]) = Rank(S, t)
        BY <1>1, <1>2, <2>1, <2>2
    <2> QED BY <2>3, RanksAreAll
<1> QED BY <1>1, <1>4, <1>5, <1>6

\* A page shows the first of what it selects, and leaves out nothing before its
\* last; one that is not full leaves out nothing.
LEMMA PageIsTheFirst ==
    ASSUME created \in [Tickets -> Nat], NEW S \in SUBSET Tickets, NEW n \in Nat \ {0}
    PROVE  LET page == Page(S, n) IN
           /\ page \in Seq(S) /\ Len(page) <= n
           /\ \A i, j \in 1..Len(page) : i < j => Before(page[i], page[j])
           /\ \A t \in S :
                 \/ \E k \in 1..Len(page) : page[k] = t
                 \/ Len(page) = n /\ Before(page[n], t)
<1> DEFINE all == Ordered(S)
           size == Min({n, Len(all)})
           page == SubSeq(all, 1, size)
<1>1. /\ all \in Seq(S) /\ Len(all) = Cardinality(S) /\ Cardinality(S) \in Nat
      /\ \A i, j \in 1..Cardinality(S) : i < j => Before(all[i], all[j])
      /\ \A t \in S : \E k \in 1..Cardinality(S) : all[k] = t
    BY OrderedLists
<1>2. Page(S, n) = page
    BY DEF Page, FirstOf
<1> HIDE DEF all
<1>3. size \in Nat /\ size <= Len(all) /\ size <= n /\ (size = n \/ size = Len(all))
    <2>1. \A k, l \in Nat : /\ Min({k, l}) \in Nat /\ Min({k, l}) <= l /\ Min({k, l}) <= k
                            /\ Min({k, l}) = k \/ Min({k, l}) = l
        BY DEF Min
    <2> QED BY <1>1, <2>1
<1> HIDE DEF size
<1>4. page \in Seq(S) /\ Len(page) = size /\ \A k \in 1..size : page[k] = all[k]
    BY <1>1, <1>3, SubSeqProperties
<1> HIDE DEF page
<1>5. ASSUME NEW i \in 1..Len(page), NEW j \in 1..Len(page), i < j PROVE Before(page[i], page[j])
    <2>1. page[i] = all[i] /\ page[j] = all[j] /\ i \in 1..Cardinality(S) /\ j \in 1..Cardinality(S)
        BY <1>1, <1>3, <1>4
    <2> QED BY <1>1, <1>5, <2>1
<1>6. ASSUME NEW t \in S
      PROVE  (\E k \in 1..Len(page) : page[k] = t) \/ (Len(page) = n /\ Before(page[n], t))
    <2>1. PICK k \in 1..Len(all) : all[k] = t
        BY <1>1
    <2>2. CASE k <= size
        BY <1>1, <1>3, <1>4, <2>1, <2>2
    <2>3. CASE ~(k <= size)
        <3>1. size = n /\ n < k /\ n \in 1..size
            BY <1>1, <1>3, <2>1, <2>3
        <3>2. Before(all[n], all[k])
            BY <1>1, <2>1, <3>1
        <3> QED BY <1>4, <2>1, <3>1, <3>2
    <2> QED BY <2>2, <2>3
<1> QED BY <1>2, <1>3, <1>4, <1>5, <1>6

--------------------------------------------------------------------------------
(* The walk.                                                                *)

Stamped == {t \in Tickets : created[t] # 0}

\* Times are given out one after the other, and a ticket is seen with its own.
StoreIsSound ==
    /\ created \in [Tickets -> Nat] /\ \A t \in Tickets : created[t] <= Cardinality(Stamped)
    /\ order \in Seq(Tickets) /\ IsInjective(order)
    /\ Visible \subseteq Stamped /\ decided \subseteq Visible

\* The walk stands at the last ticket it has shown.
WalkIsAtCursor ==
    /\ cursor \in Visible \cup {Start, End} /\ seen \in Seq(Visible) /\ due \subseteq Visible \cap Wanted
    /\ cursor = Start => seen = <<>>
    /\ cursor \notin {Start, End} => Len(seen) > 0 /\ seen[Len(seen)] = cursor

\* What it has to show and has not shown yet is behind it.
NothingIsPassed ==
    cursor # Start =>
        \A t \in due \ decided : t \in ToSet(seen) \/ (cursor # End /\ Before(cursor, t))

QueueInv == StoreIsSound /\ WalkIsAtCursor /\ OldestFirst /\ NothingIsPassed

LEMMA QueueInit == Init => QueueInv
<1> SUFFICES ASSUME Init PROVE QueueInv
    OBVIOUS
<1> USE CursorsAreNoTickets DEF Init
<1>1. Visible = {} /\ Stamped = {}
    BY DEF Visible, Stamped, ToSet
<1>2. StoreIsSound
    BY <1>1, FS_EmptySet DEF StoreIsSound, IsInjective
<1>3. WalkIsAtCursor /\ OldestFirst /\ NothingIsPassed
    BY <1>1 DEF WalkIsAtCursor, OldestFirst, NothingIsPassed
<1> QED BY <1>2, <1>3 DEF QueueInv

\* The latest of some numbers.
LEMMA MaxIsGreatest ==
    ASSUME NEW S \in SUBSET Nat, S # {}, NEW n \in Nat, \A v \in S : v <= n
    PROVE  Max(S) \in S /\ \A v \in S : v <= Max(S)
<1> DEFINE gaps == {n - v : v \in S}
<1>1. gaps \in SUBSET Nat /\ gaps # {}
    <2>1. \A v \in S : n - v \in Nat
        OBVIOUS
    <2> QED BY <2>1
<1>2. PICK i \in gaps : \A j \in gaps : <<j, i>> \notin OpToRel(<, Nat)
    BY <1>1, NatLessThanWellFounded, WFMin
<1>3. PICK x \in S : i = n - x
    BY <1>2
<1>4. ASSUME NEW v \in S PROVE x >= v
    <2>1. n - v \in gaps /\ n - v \in Nat /\ i \in Nat
        BY <1>1
    <2>2. ~(n - v < i)
        BY <1>2, <2>1 DEF OpToRel
    <2> QED BY <1>3, <2>1, <2>2
<1>5. Max(S) \in S /\ \A v \in S : Max(S) >= v
    BY <1>4 DEF Max
<1> QED BY <1>5

\* The places of the tickets that were seen are what they were when a ticket
\* gets its time.
LEMMA StampKeeps ==
    ASSUME QueueInv, NEW t \in Tickets, Stamp(t) PROVE QueueInv'
<1> USE DEF QueueInv
<1> DEFINE c == Cardinality(Stamped)
<1>1. PICK now \in {Max({Latest, 1}), Latest + 1} : created' = [created EXCEPT ![t] = now]
    BY DEF Stamp
<1>2. created[t] = 0 /\ UNCHANGED <<order, decided, cursor, seen, due>>
    BY DEF Stamp
<1>3. IsFiniteSet(Stamped) /\ c \in Nat
    BY TicketsAreCounted, FS_Subset, FS_CardinalityType DEF Stamped
<1>4. Latest \in Nat /\ Latest <= c
    <2> DEFINE times == {created[u] : u \in Tickets} \cup {0}
    <2>1. times \in SUBSET Nat /\ times # {} /\ \A v \in times : v <= c
        BY <1>3 DEF StoreIsSound
    <2> HIDE DEF times
    <2>2. Max(times) \in times
        BY <1>3, <2>1, MaxIsGreatest
    <2>3. Latest = Max(times)
        BY DEF Latest, times
    <2> QED BY <2>1, <2>2, <2>3
<1>5. now \in Nat \ {0} /\ now <= c + 1
    <2>1. \A n \in Nat : Max({n, 1}) = IF n > 1 THEN n ELSE 1
        BY DEF Max
    <2>2. Max({Latest, 1}) = IF Latest > 1 THEN Latest ELSE 1
        BY <1>4, <2>1
    <2> QED BY <1>3, <1>4, <2>2
<1>6. /\ created' \in [Tickets -> Nat] /\ created'[t] = now
      /\ \A u \in Tickets \ {t} : created'[u] = created[u]
    BY <1>1, <1>5 DEF StoreIsSound
<1>7. Stamped' = Stamped \cup {t} /\ t \notin Stamped
    BY <1>2, <1>5, <1>6 DEF Stamped
<1>8. Cardinality(Stamped') = c + 1
    BY <1>3, <1>7, FS_AddElement
<1>9. Visible' = Visible /\ Visible \subseteq Tickets /\ t \notin Visible
    BY <1>2, <1>7 DEF Visible, StoreIsSound, Stamped
<1>10. \A u \in Tickets : created'[u] <= Cardinality(Stamped')
    <2>1. \A u \in Tickets : created[u] <= c /\ created[u] \in Nat
        BY DEF StoreIsSound
    <2> HIDE DEF c
    <2>2. \A u \in Tickets : created'[u] <= c + 1
        BY <1>3, <1>5, <1>6, <2>1
    <2> QED BY <1>8, <2>2
<1>11. StoreIsSound'
    BY <1>2, <1>6, <1>7, <1>9, <1>10 DEF StoreIsSound
<1>12. \A u, v \in Visible : Before(u, v)' <=> Before(u, v)
    BY <1>6, <1>9 DEF Before
<1>13. WalkIsAtCursor'
    BY <1>2, <1>9 DEF WalkIsAtCursor
<1>14. \A i \in DOMAIN seen : seen[i] \in Visible
    BY DEF WalkIsAtCursor
<1>15. OldestFirst' /\ NothingIsPassed'
    BY <1>2, <1>12, <1>14 DEF OldestFirst, NothingIsPassed, WalkIsAtCursor
<1> QED BY <1>11, <1>13, <1>15

\* One more ticket is seen, or one less waits.
LEMMA CommitKeeps ==
    ASSUME QueueInv, NEW t \in Tickets, Commit(t) PROVE QueueInv'
<1> USE DEF QueueInv
<1>1. /\ created[t] # 0 /\ t \notin Visible /\ order' = Append(order, t)
      /\ UNCHANGED <<created, decided, cursor, seen, due>>
    BY DEF Commit
<1>2. /\ order' \in Seq(Tickets) /\ Len(order') = Len(order) + 1
      /\ order'[Len(order) + 1] = t /\ \A i \in 1..Len(order) : order'[i] = order[i]
    BY <1>1, AppendProperties DEF StoreIsSound
<1>3. Visible' = Visible \cup {t}
    <2>1. DOMAIN order = 1..Len(order) /\ DOMAIN order' = 1..(Len(order) + 1) /\ Len(order) \in Nat
        BY <1>2 DEF StoreIsSound
    <2>2. \A i \in DOMAIN order' : order'[i] \in Visible \cup {t}
        BY <1>2, <2>1 DEF Visible, ToSet
    <2>3. \A v \in Visible \cup {t} : \E i \in DOMAIN order' : order'[i] = v
        BY <1>2, <2>1 DEF Visible, ToSet
    <2> QED BY <2>2, <2>3 DEF Visible, ToSet
<1>4. IsInjective(order')
    <2>1. \A i \in 1..Len(order) : order[i] \in Visible
        BY DEF Visible, ToSet, StoreIsSound
    <2> QED BY <1>1, <1>2, <2>1 DEF IsInjective, StoreIsSound
<1>5. StoreIsSound'
    BY <1>1, <1>2, <1>3, <1>4 DEF StoreIsSound, Stamped
<1>6. WalkIsAtCursor'
    <2>1. seen' \in Seq(Visible')
        BY <1>1, <1>3 DEF WalkIsAtCursor
    <2> QED BY <1>1, <1>3, <2>1 DEF WalkIsAtCursor
<1>7. OldestFirst' /\ NothingIsPassed'
    BY <1>1 DEF OldestFirst, NothingIsPassed, Before
<1> QED BY <1>5, <1>6, <1>7

LEMMA DecideKeeps ==
    ASSUME QueueInv, NEW t \in Tickets, Decide(t) PROVE QueueInv'
<1>1. /\ t \in Visible /\ decided' = decided \cup {t} /\ Visible' = Visible
      /\ UNCHANGED <<created, order, cursor, seen, due>>
    BY DEF Decide, Pending, Visible
<1>2. StoreIsSound'
    BY <1>1 DEF QueueInv, StoreIsSound, Stamped
<1>3. WalkIsAtCursor'
    BY <1>1 DEF QueueInv, WalkIsAtCursor
<1>4. OldestFirst' /\ NothingIsPassed'
    BY <1>1 DEF QueueInv, OldestFirst, NothingIsPassed, Before
<1> QED BY <1>2, <1>3, <1>4 DEF QueueInv

\* A page goes on from where the walk stood.
LEMMA ReadKeeps ==
    ASSUME QueueInv, ReadPage PROVE QueueInv'
<1> USE DEF QueueInv
<1> DEFINE S == IF cursor = Start THEN Pending ELSE After(cursor)
           page == SqlPage(Query, cursor, MaxPage)
           W == S \cap Wanted
<1>1. /\ cursor # End /\ cursor' = NextCursor(page) /\ seen' = seen \o page
      /\ due' = IF cursor = Start THEN Pending \cap Wanted ELSE due
      /\ UNCHANGED <<created, order, decided>>
    BY DEF ReadPage
<1>2. created \in [Tickets -> Nat] /\ Visible \subseteq Tickets /\ Pending \subseteq Visible /\ S \in SUBSET Pending
    BY DEF StoreIsSound, Stamped, Pending, After
<1>3. page = Page(W, MaxPage)
    BY <1>1 DEF SqlPage, Known, WalkIsAtCursor, Wanted
<1>4. /\ page \in Seq(W) /\ Len(page) <= MaxPage
      /\ \A i, j \in 1..Len(page) : i < j => Before(page[i], page[j])
      /\ \A t \in W : \/ \E k \in 1..Len(page) : page[k] = t
                      \/ Len(page) = MaxPage /\ Before(page[MaxPage], t)
    <2>1. W \in SUBSET Tickets
        BY <1>2
    <2> HIDE DEF W, page
    <2> QED BY <1>2, <1>3, <2>1, PagesHoldSomething, PageIsTheFirst
<1>5. \A t \in S : cursor # Start => Before(cursor, t)
    BY DEF After
<1>6. /\ Visible' = Visible /\ Stamped' = Stamped /\ Visible \subseteq Tickets
      /\ \A u, v : Before(u, v)' <=> Before(u, v)
    BY <1>1, <1>2 DEF Visible, Stamped, Before
<1>7. W \subseteq Visible /\ W \subseteq S
    BY <1>2
<1>8. cursor = Start => due' = W /\ seen = <<>>
    BY <1>1 DEF WalkIsAtCursor
<1>9. cursor # Start => /\ due' = due /\ cursor \in Visible
                        /\ Len(seen) > 0 /\ seen[Len(seen)] = cursor
    BY <1>1 DEF WalkIsAtCursor
<1>10. due' \subseteq Visible \cap Wanted /\ \A t \in due' \ decided : t \in ToSet(seen) \/ t \in W
    <2>1. CASE cursor = Start
        BY <1>2, <1>8, <2>1
    <2>2. CASE cursor # Start
        BY <1>1, <1>9, <2>2 DEF NothingIsPassed, WalkIsAtCursor, After, Pending
    <2> QED BY <2>1, <2>2
<1> HIDE DEF S, W, page
<1>11. StoreIsSound'
    BY <1>1, <1>6 DEF StoreIsSound
<1>12. seen \in Seq(Visible) /\ page \in Seq(Visible) /\ Len(seen) \in Nat /\ Len(page) \in Nat
    BY <1>4, <1>7 DEF WalkIsAtCursor
<1>13. /\ seen' \in Seq(Visible) /\ Len(seen') = Len(seen) + Len(page)
       /\ \A i \in 1..Len(seen) : seen'[i] = seen[i]
       /\ \A i \in 1..Len(page) : seen'[Len(seen) + i] = page[i]
    BY <1>1, <1>12, ConcatProperties
<1>14. \A t \in ToSet(seen) : t \in ToSet(seen')
    <2>1. DOMAIN seen = 1..Len(seen) /\ DOMAIN seen' = 1..(Len(seen) + Len(page))
        BY <1>12, <1>13
    <2> QED BY <1>12, <1>13, <2>1 DEF ToSet
<1>15. \A i \in 1..Len(page) : page[i] \in ToSet(seen')
    BY <1>12, <1>13 DEF ToSet
<1>16. OldestFirst'
    <2> SUFFICES ASSUME NEW i \in 1..Len(seen'), NEW j \in 1..Len(seen'), i < j PROVE Before(seen'[i], seen'[j])
        BY <1>6, <1>13 DEF OldestFirst
    <2>1. CASE j <= Len(seen)
        <3>1. i \in 1..Len(seen) /\ j \in 1..Len(seen)
            BY <1>12, <1>13, <2>1
        <3>2. Before(seen[i], seen[j])
            BY <1>12, <3>1 DEF OldestFirst
        <3> QED BY <1>13, <3>1, <3>2
    <2>2. CASE Len(seen) < i
        <3>1. /\ i - Len(seen) \in 1..Len(page) /\ j - Len(seen) \in 1..Len(page)
              /\ i - Len(seen) < j - Len(seen)
            BY <1>12, <1>13, <2>2
        <3>2. seen'[i] = page[i - Len(seen)] /\ seen'[j] = page[j - Len(seen)]
            BY <1>12, <1>13, <3>1
        <3> QED BY <1>4, <3>1, <3>2
    <2>3. CASE i <= Len(seen) /\ Len(seen) < j
        <3>1. j - Len(seen) \in 1..Len(page) /\ seen'[j] = page[j - Len(seen)]
            BY <1>12, <1>13, <2>3
        <3>2. seen'[j] \in S /\ seen'[i] = seen[i] /\ seen[i] \in Visible /\ seen'[j] \in Visible
            BY <1>4, <1>7, <1>12, <1>13, <2>3, <3>1
        <3>3. cursor \in Visible /\ seen[Len(seen)] = cursor /\ Before(cursor, seen'[j])
            BY <1>5, <1>8, <1>9, <1>12, <2>3, <3>2
        <3>4. CASE i = Len(seen)
            BY <3>2, <3>3, <3>4
        <3>5. CASE i # Len(seen)
            <4>1. Before(seen[i], cursor)
                BY <1>12, <2>3, <3>3, <3>5 DEF OldestFirst
            <4> QED BY <1>2, <3>2, <3>3, <4>1, BeforeIsAnOrder
        <3> QED BY <3>4, <3>5
    <2> QED BY <1>12, <1>13, <2>1, <2>2, <2>3
<1>17. CASE Len(page) = MaxPage
    <2>1. MaxPage \in 1..Len(page) /\ cursor' = page[MaxPage] /\ cursor' \in Visible /\ cursor' \notin {Start, End}
        BY <1>1, <1>2, <1>12, <1>17, PagesHoldSomething, CursorsAreNoTickets DEF NextCursor, Last
    <2>2. seen'[Len(seen')] = cursor' /\ Len(seen') > 0
        BY <1>12, <1>13, <1>17, <2>1
    <2>3. WalkIsAtCursor'
        BY <1>6, <1>10, <1>13, <2>1, <2>2 DEF WalkIsAtCursor
    <2>4. NothingIsPassed'
        BY <1>1, <1>4, <1>6, <1>10, <1>14, <1>15, <2>1 DEF NothingIsPassed
    <2> QED BY <1>11, <1>16, <2>3, <2>4
<1>18. CASE Len(page) # MaxPage
    <2>1. cursor' = End
        BY <1>1, <1>18 DEF NextCursor
    <2>2. WalkIsAtCursor'
        BY <1>6, <1>10, <1>13, <2>1, CursorsAreNoTickets DEF WalkIsAtCursor
    <2>3. NothingIsPassed'
        BY <1>1, <1>4, <1>10, <1>14, <1>15, <1>18 DEF NothingIsPassed
    <2> QED BY <1>11, <1>16, <2>2, <2>3
<1> QED BY <1>17, <1>18

LEMMA QueueNext == QueueInv /\ [Next]_vars => QueueInv'
<1> SUFFICES ASSUME QueueInv, [Next]_vars PROVE QueueInv'
    OBVIOUS
<1>1. ASSUME UNCHANGED vars PROVE QueueInv'
    BY <1>1 DEF vars, QueueInv, StoreIsSound, Stamped, Visible, WalkIsAtCursor, OldestFirst, NothingIsPassed, Before
<1> QED BY <1>1, StampKeeps, CommitKeeps, DecideKeeps, ReadKeeps DEF Next

\* What the walk has to show and has not shown is behind the ticket it stands at.
THEOREM QueueInvariant == Spec => []QueueInv
BY QueueInit, QueueNext, PTL DEF Spec

--------------------------------------------------------------------------------
(* What the queue promises.                                                 *)

\* A ticket in the store has its time of creation, and none is there twice.
THEOREM QueueTypeCorrect == Spec => []TypeOK
<1>1. QueueInv => TypeOK
    <2> SUFFICES ASSUME QueueInv PROVE TypeOK
        OBVIOUS
    <2> USE DEF QueueInv
    <2>1. \A t \in Tickets : created[t] \in 0..Cardinality(Tickets)
        <3>1. /\ Cardinality(Stamped) \in Nat /\ Cardinality(Tickets) \in Nat
              /\ Cardinality(Stamped) <= Cardinality(Tickets)
            BY TicketsAreCounted, FS_Subset, FS_CardinalityType DEF Stamped
        <3>2. \A t \in Tickets : created[t] \in Nat /\ created[t] <= Cardinality(Stamped)
            BY DEF StoreIsSound
        <3> HIDE DEF QueueInv
        <3> QED BY <3>1, <3>2
    <2>2. created \in [Tickets -> 0..Cardinality(Tickets)]
        BY <2>1 DEF StoreIsSound
    <2>3. \A t \in Visible : created[t] # 0
        BY DEF StoreIsSound, Stamped
    <2>4. ToSet(seen) \subseteq Visible
        BY DEF WalkIsAtCursor, ToSet
    <2> QED BY <2>2, <2>3, <2>4 DEF TypeOK, StoreIsSound, WalkIsAtCursor
<1> QED BY <1>1, QueueInvariant, PTL

\* The pages of a walk show the queue oldest first and no ticket twice (pending).
THEOREM PagesAreInOrder == Spec => []OldestFirst
<1>1. QueueInv => OldestFirst
    BY DEF QueueInv
<1> QED BY <1>1, QueueInvariant, PTL

\* A walk that has ended has shown every ticket that was waiting when it began
\* and still is, whatever was filed, committed late or decided meanwhile.
THEOREM WalksAreComplete == Spec => []WalkMissesNothing
<1>1. QueueInv => WalkMissesNothing
    BY CursorsAreNoTickets DEF QueueInv, NothingIsPassed, WalkMissesNothing
<1> QED BY <1>1, QueueInvariant, PTL

--------------------------------------------------------------------------------
(* The two stores.                                                          *)

\* Listing the places of order in their order lists the tickets there by rank,
\* when tickets come to be seen as they are created.
LEMMA PlacesAreRanks ==
    ASSUME created \in [Tickets -> Nat], order \in Seq(Tickets), IsInjective(order),
           \A i, j \in DOMAIN order : i < j => Before(order[i], order[j]),
           NEW shown \in SUBSET DOMAIN order
    PROVE  LET S == {order[i] : i \in shown}
               index(k) == CHOOSE i \in shown : Cardinality({j \in shown : j < i}) = k - 1
           IN [k \in 1..Cardinality(shown) |-> order[index(k)]] = Ordered(S)
<1> DEFINE S == {order[i] : i \in shown}
           index(k) == CHOOSE i \in shown : Cardinality({j \in shown : j < i}) = k - 1
           at == [i \in shown |-> order[i]]
<1>1. /\ DOMAIN order = 1..Len(order) /\ Len(order) \in Nat
      /\ shown \subseteq Nat /\ \A i \in shown : order[i] \in Tickets
    OBVIOUS
<1>2. S \in SUBSET Tickets
    BY <1>1
<1>3. \A i, j \in shown : Before(order[j], order[i]) <=> j < i
    <2> SUFFICES ASSUME NEW i \in shown, NEW j \in shown PROVE Before(order[j], order[i]) <=> j < i
        OBVIOUS
    <2>1. j < i => Before(order[j], order[i])
        OBVIOUS
    <2>2. i < j => Before(order[i], order[j])
        OBVIOUS
    <2>3. ~(Before(order[i], order[j]) /\ Before(order[j], order[i])) /\ ~Before(order[i], order[i])
        BY <1>1, BeforeIsAnOrder
    <2> QED BY <1>1, <2>1, <2>2, <2>3
<1>4. IsFiniteSet(shown)
    <2>1. IsFiniteSet(1..Len(order))
        BY <1>1, FS_Interval
    <2>2. shown \in SUBSET (1..Len(order))
        BY <1>1
    <2> QED BY <2>1, <2>2, FS_Subset
<1>5. at \in Bijection(shown, S)
    BY DEF Bijection, Injection, Surjection, IsInjective
<1>6. Cardinality(shown) = Cardinality(S)
    BY <1>4, <1>5, FS_Bijection DEF ExistsBijection
<1>7. ASSUME NEW i \in shown PROVE Cardinality({j \in shown : j < i}) = Rank(S, order[i])
    <2> DEFINE P == {j \in shown : j < i}
               R == {s \in S : Before(s, order[i])}
               f == [j \in P |-> order[j]]
    <2>1. IsFiniteSet(P)
        BY <1>4, FS_Subset
    <2>2. \A j \in P : order[j] \in R
        BY <1>3
    <2>3. \A s \in R : \E j \in P : order[j] = s
        BY <1>3
    <2>4. f \in Bijection(P, R)
        BY <2>2, <2>3 DEF Bijection, Injection, Surjection, IsInjective
    <2>5. Cardinality(R) = Cardinality(P)
        BY <2>1, <2>4, FS_Bijection DEF ExistsBijection
    <2> QED BY <2>5 DEF Rank
<1> HIDE DEF S
<1>8. ASSUME NEW k \in 1..Cardinality(S) PROVE order[index(k)] = Ordered(S)[k]
    <2>1. Cardinality(S) \in Nat /\ k - 1 \in 0..(Cardinality(S) - 1)
        BY <1>2, RanksAreAll
    <2>2. PICK t \in S : Rank(S, t) = k - 1
        BY <1>2, <2>1, RanksAreAll
    <2>3. PICK i \in shown : order[i] = t
        BY DEF S
    <2>4. Cardinality({j \in shown : j < i}) = k - 1
        BY <1>7, <2>2, <2>3
    <2>5. index(k) \in shown /\ Cardinality({j \in shown : j < index(k)}) = k - 1
        BY <2>4
    <2> HIDE DEF index
    <2>6. Rank(S, order[index(k)]) = k - 1 /\ order[index(k)] \in S
        BY <1>7, <2>5 DEF S
    <2>7. order[index(k)] = t
        BY <1>2, <2>2, <2>6, RanksAreAll
    <2>8. Ordered(S)[k] = CHOOSE u \in S : Rank(S, u) = k - 1
        BY DEF Ordered, Rank
    <2>9. Ordered(S)[k] \in S /\ Rank(S, Ordered(S)[k]) = k - 1
        BY <2>2, <2>8
    <2> QED BY <1>2, <2>2, <2>7, <2>9, RanksAreAll
<1>9. [k \in 1..Cardinality(S) |-> order[index(k)]] = Ordered(S)
    <2> HIDE DEF index
    <2> QED BY <1>8 DEF Ordered
<1> QED BY <1>6, <1>9 DEF S

\* What the loop over the dict shows after a cursor is what the query selects:
\* all, what is behind a cursor that is known, nothing after one that is not.
LEMMA LoopSelects ==
    ASSUME created \in [Tickets -> Nat], order \in Seq(Tickets),
           \A i, j \in DOMAIN order : i < j => Before(order[i], order[j]),
           NEW after \in Tickets \cup {Start}, NEW chosen \in SUBSET Tickets
    PROVE  LET started == {i \in DOMAIN order : after = Start \/ \E j \in 1..(i - 1) : order[j] = after}
               shown == {i \in started : order[i] \in Pending \cap chosen}
           IN {order[i] : i \in shown} =
                 IF after = Start THEN Pending \cap chosen
                 ELSE IF Known(after) THEN After(after) \cap chosen ELSE {}
<1> DEFINE started == {i \in DOMAIN order : after = Start \/ \E j \in 1..(i - 1) : order[j] = after}
           shown == {i \in started : order[i] \in Pending \cap chosen}
<1>1. DOMAIN order = 1..Len(order) /\ Len(order) \in Nat /\ \A i \in DOMAIN order : order[i] \in Tickets
    OBVIOUS
<1>2. \A t : t \in Visible <=> \E i \in DOMAIN order : order[i] = t
    BY DEF Visible, ToSet
<1>3. Pending \subseteq Visible
    BY DEF Pending
<1>4. CASE after = Start
    BY <1>2, <1>3, <1>4
<1>5. CASE after # Start /\ ~Known(after)
    <2>1. \A i \in DOMAIN order : \A j \in 1..(i - 1) : j \in DOMAIN order
        BY <1>1
    <2>2. started = {}
        BY <1>2, <1>5, <2>1 DEF Known
    <2> QED BY <1>5, <2>2
<1>6. CASE after # Start /\ Known(after)
    <2>1. PICK a \in DOMAIN order : order[a] = after
        BY <1>2, <1>6 DEF Known
    <2>2. ASSUME NEW i \in started PROVE Before(after, order[i])
        <3>1. PICK j \in 1..(i - 1) : order[j] = after
            BY <1>6
        <3>2. j \in DOMAIN order /\ j < i
            BY <1>1, <3>1
        <3> QED BY <3>1, <3>2
    <2>3. ASSUME NEW i \in DOMAIN order, Before(after, order[i]) PROVE i \in started
        <3>1. ~(i < a) /\ i # a
            <4>1. ~Before(order[i], after) /\ after # order[i]
                BY <1>1, <2>1, <2>3, BeforeIsAnOrder
            <4> QED BY <2>1, <4>1
        <3>2. a \in 1..(i - 1)
            BY <1>1, <3>1
        <3> QED BY <2>1, <3>2
    <2> QED BY <1>2, <1>3, <1>6, <2>2, <2>3 DEF After
<1> QED BY <1>4, <1>5, <1>6

\* No tickets make an empty page.
LEMMA NothingToShow == ASSUME created \in [Tickets -> Nat], NEW n \in Nat \ {0} PROVE FirstOf(Ordered({}), n) = <<>>
<1>1. Ordered({}) = <<>>
    BY FS_EmptySet, OrderedLists
<1>2. Min({n, 0}) = 0
    BY DEF Min
<1> QED BY <1>1, <1>2 DEF FirstOf

\* A plain query selects the same tickets in both stores: what fnmatchcase and
\* LIKE take of a name for each of its parts is the same.
LEMMA FiltersAgree == \A q \in PlainQueries : SqlSelects[q] = MemorySelects[q]
<1> DEFINE like == [part \in Parts |-> LikeLetters(part)]
           glob == [part \in Parts |-> GlobLetters(part)]
<1> SUFFICES ASSUME NEW q \in PlainQueries, NEW t \in Tickets
             PROVE  Matches(ToolOf[t], q.tool, like) <=> Matches(ToolOf[t], q.tool, glob)
    BY DEF SqlSelects, MemorySelects, Selected, PlainQueries
<1> DEFINE name == ToolOf[t]
           pattern == q.tool
<1>1. q \in Queries /\ pattern \in Seq(Parts) /\ name \in Seq(DOMAIN Fold)
    BY QueriesAreKnown, NamesAreText DEF PlainQueries, Parts
<1>2. ASSUME NEW k \in 1..Len(pattern), pattern[k] # "*", NEW at \in 1..Len(name)
      PROVE  name[at] \in like[pattern[k]] <=> name[at] \in glob[pattern[k]]
    <2>1. at \in DOMAIN name /\ k \in DOMAIN pattern
        BY <1>1
    <2>2. name[at] \in ToSet(name) /\ pattern[k] \in ToSet(pattern) \ {"*"} /\ name[at] \in DOMAIN Fold
        BY <1>1, <1>2, <2>1 DEF ToSet
    <2>3. /\ pattern[k] \in DOMAIN Fold /\ pattern[k] \notin DOMAIN OneOf /\ pattern[k] \in Parts
          /\ Fold[name[at]] = Fold[pattern[k]] => name[at] = pattern[k]
        BY <2>2 DEF PlainQueries, Parts
    <2>4. like[pattern[k]] = LikeLetters(pattern[k]) /\ glob[pattern[k]] = {pattern[k]}
        BY <2>3 DEF GlobLetters
    <2> QED BY <2>2, <2>3, <2>4 DEF LikeLetters
<1>3. Len(pattern) \in Nat /\ Len(name) \in Nat
    BY <1>1
<1> HIDE DEF name, pattern, like, glob
<1>4. ASSUME NEW ends \in [0..Len(pattern) -> 0..Len(name)], NEW k \in 1..Len(pattern), pattern[k] # "*"
      PROVE  ends[k] = ends[k - 1] + 1 =>
                (name[ends[k]] \in like[pattern[k]] <=> name[ends[k]] \in glob[pattern[k]])
    <2>1. ends[k - 1] \in 0..Len(name) /\ ends[k] \in 0..Len(name)
        BY <1>3
    <2>2. ends[k] = ends[k - 1] + 1 => ends[k] \in 1..Len(name)
        BY <1>3, <2>1
    <2> QED BY <1>2, <1>4, <2>2
<1> QED BY <1>4 DEF Matches, name, pattern

\* Where tickets come to be seen as they are created, the loop of the store in
\* memory and the query of the SQL store give the same page of a query that both
\* read alike, after a cursor that waits, that was decided meanwhile, or that is
\* not there (pending, both).
THEOREM StoresShowTheSame == Spec => []StoresAgree
<1>1. QueueInv => StoresAgree
    <2> SUFFICES ASSUME QueueInv, \A i, j \in DOMAIN order : i < j => Before(order[i], order[j]),
                        NEW q \in PlainQueries, NEW after \in Tickets \cup {Start}, NEW n \in 1..MaxPage + 1
                 PROVE  MemoryPage(q, after, n) = SqlPage(q, after, n)
        BY DEF StoresAgree
    <2>1. created \in [Tickets -> Nat] /\ order \in Seq(Tickets) /\ IsInjective(order)
        BY DEF QueueInv, StoreIsSound
    <2> DEFINE chosen == MemorySelects[q]
               started == {i \in DOMAIN order : after = Start \/ \E j \in 1..(i - 1) : order[j] = after}
               shown == {i \in started : order[i] \in Pending \cap chosen}
               S == {order[i] : i \in shown}
    <2>2. chosen = SqlSelects[q] /\ chosen \in SUBSET Tickets
        BY FiltersAgree DEF PlainQueries, MemorySelects, Selected
    <2>3. MemoryPage(q, after, n) = FirstOf(Ordered(S), n)
        <3>1. shown \in SUBSET DOMAIN order
            OBVIOUS
        <3> HIDE DEF started
        <3>2. MemoryPage(q, after, n) =
                FirstOf([k \in 1..Cardinality(shown) |->
                    order[CHOOSE i \in shown : Cardinality({j \in shown : j < i}) = k - 1]], n)
            BY DEF MemoryPage, started
        <3> HIDE DEF shown
        <3> QED BY <2>1, <3>1, <3>2, PlacesAreRanks
    <2> HIDE DEF chosen
    <2>4. S = IF after = Start THEN Pending \cap chosen
              ELSE IF Known(after) THEN After(after) \cap chosen ELSE {}
        BY <2>1, <2>2, LoopSelects
    <2> HIDE DEF S
    <2>5. n \in Nat \ {0}
        BY PagesHoldSomething
    <2> QED BY <2>1, <2>2, <2>3, <2>4, <2>5, NothingToShow DEF SqlPage, Page
<1> QED BY <1>1, QueueInvariant, PTL
================================================================================
