---------------------------- MODULE PipelineProofs ----------------------------
(***************************************************************************)
(* The policy first: what an agent is granted it is shown, and what an     *)
(* untrusted upstream claims changes neither, for every document, rule by  *)
(* rule order and call.  Both loops over the rules stop at the least rule  *)
(* of a set: the argument is about which of the two sets that rule is in.  *)
(*                                                                         *)
(* Then the pipeline, for every set of extra steps, their stages and their *)
(* orders: the upstream gets what was approved and checked, a ticket keeps *)
(* references, and a result that repeats a secret does not leave.          *)
(***************************************************************************)
EXTENDS Pipeline, SequenceTheorems, FiniteSetTheorems, WellFoundedInduction, TLAPS

\* A loop that tries the rules in order stops at the first that qualifies.
LEMMA StopsAtLeast ==
    ASSUME NEW S \in SUBSET Nat, S # {}
    PROVE  StopAt(S) \in S /\ \A j \in S : StopAt(S) <= j
<1>1. PICK i \in S : \A j \in S : <<j, i>> \notin OpToRel(<, Nat)
  BY NatLessThanWellFounded, WFMin
<1>2. \A j \in S : i <= j
  <2> SUFFICES ASSUME NEW j \in S PROVE i <= j
    OBVIOUS
  <2>1. ~(j < i)
    BY <1>1 DEF OpToRel
  <2> QED BY <2>1
<1> QED BY <1>2 DEF StopAt

\* What is in force is a document that compiled.
Sound(p) == p = None \/
    \E doc \in Documents \cup Served : Compiles(doc) /\ p = Compile(doc) /\ p # None

LEMMA SoundShape ==
    ASSUME NEW p, Sound(p), p # None
    PROVE  /\ DOMAIN p.rules = 1..Len(p.rules) /\ Len(p.rules) \in Nat /\ DOMAIN p.rules \subseteq Nat
           /\ \A i \in DOMAIN p.rules : p.rules[i].deny \in BOOLEAN /\ (p.rules[i].deny \/ p.rules[i].mode \in Modes)
           /\ p.default \in Modes \cup {None}
<1>1. PICK doc \in Documents \cup Served : Compiles(doc) /\ p = Compile(doc)
  BY DEF Sound
<1>2. /\ doc = [rules |-> doc.rules, default |-> doc.default, trust |-> doc.trust]
      /\ DOMAIN doc.rules = 1..Len(doc.rules) /\ Len(doc.rules) \in Nat
      /\ \A i \in DOMAIN doc.rules : doc.rules[i].deny \in BOOLEAN
  <2>1. HasRules(doc)
    BY DocumentsHaveRules, ServedHaveRules
  <2>2. doc.rules \in Seq({doc.rules[i] : i \in DOMAIN doc.rules})
    BY <2>1 DEF HasRules
  <2>3. DOMAIN doc.rules = 1..Len(doc.rules) /\ Len(doc.rules) \in Nat
    BY <2>2
  <2> QED BY <2>1, <2>3 DEF HasRules
<1>3. p.rules = doc.rules /\ p.default = IF doc.default = "deny" THEN None ELSE doc.default
  BY <1>1, <1>2 DEF Compile
<1> QED BY <1>1, <1>2, <1>3 DEF Compiles

\* The first rule that matches decides; without one the default does.
LEMMA GrantIsFirstMatch ==
    ASSUME NEW p, Sound(p), p # None, NEW c
    PROVE  LET M == {i \in DOMAIN p.rules : Matches(p.rules[i], c, Trusted(p, c))}
           IN \/ M = {} /\ GrantFor(p, c) = OfDefault(p.default)
              \/ \E i \in M : GrantFor(p, c) = OfRule(p.rules[i]) /\ \A j \in M : i <= j
<1> DEFINE M == {i \in DOMAIN p.rules : Matches(p.rules[i], c, Trusted(p, c))}
<1>1. M \in SUBSET Nat
  BY SoundShape
<1>2. GrantFor(p, c) = IF M = {} THEN OfDefault(p.default) ELSE OfRule(p.rules[StopAt(M)])
  BY DEF GrantFor
<1> HIDE DEF M
<1>3. CASE M = {}
  BY <1>2, <1>3 DEF M
<1>4. CASE M # {}
  <2>1. StopAt(M) \in M /\ \A j \in M : StopAt(M) <= j
    BY <1>1, <1>4, StopsAtLeast
  <2> QED BY <1>2, <1>4, <2>1 DEF M
<1> QED BY <1>3, <1>4

\* Listing a tool asks of the rules what a call asks, but for its arguments.
LEMMA ListedAsCalled ==
    ASSUME NEW c \in Calls, NEW rule, NEW trusted
    PROVE  Targets(rule, AsListed(c), trusted) <=> Targets(rule, c, trusted)
BY DEF Calls, AsListed, Targets

\* A rule that may_call stops at and that denies, denies without conditions:
\* grant_for cannot have passed it by.
LEMMA GrantedMayCall ==
    ASSUME NEW p, Sound(p), NEW c \in Calls, GrantFor(p, c) # None
    PROVE  MayCall(p, AsListed(c))
<1>1. p # None
  BY DEF GrantFor
<1> DEFINE l == AsListed(c)
           t == Trusted(p, c)
           M == {i \in DOMAIN p.rules : Matches(p.rules[i], c, t)}
           F == {i \in DOMAIN p.rules : Targets(p.rules[i], l, Trusted(p, l)) /\ Final(p.rules[i])}
<1>2. Trusted(p, l) = t
  BY DEF Trusted, AsListed, Calls
<1>3. F \in SUBSET Nat /\ M \in SUBSET Nat
  BY <1>1, SoundShape
<1>4. \A i \in DOMAIN p.rules : p.rules[i].deny \in BOOLEAN
  BY <1>1, SoundShape
<1>5. \A i \in M : ~p.rules[i].deny => i \in F
  BY <1>2, ListedAsCalled DEF Matches, Final
<1>6. \A i \in F : p.rules[i].deny => i \in M
  <2> SUFFICES ASSUME NEW i \in F, p.rules[i].deny PROVE i \in M
    OBVIOUS
  <2>1. p.rules[i].conds = {}
    BY DEF Final
  <2>2. Targets(p.rules[i], c, t)
    BY <1>2, ListedAsCalled
  <2> QED BY <2>1, <2>2 DEF Matches
<1>7. MayCall(p, l) <=> IF F = {} THEN p.default # None ELSE ~p.rules[StopAt(F)].deny
  BY <1>1 DEF MayCall
<1>8. \/ M = {} /\ GrantFor(p, c) = OfDefault(p.default)
      \/ \E i \in M : GrantFor(p, c) = OfRule(p.rules[i]) /\ \A j \in M : i <= j
  BY <1>1, GrantIsFirstMatch
<1>9. F # {} => StopAt(F) \in F /\ \A j \in F : StopAt(F) <= j
  BY <1>3, StopsAtLeast
<1> HIDE DEF l, t, M, F
<1>10. CASE M = {}
  <2>1. p.default # None
    BY <1>8, <1>10 DEF OfDefault
  <2>2. F # {} => ~p.rules[StopAt(F)].deny
    BY <1>6, <1>9, <1>10
  <2> QED BY <1>7, <2>1, <2>2 DEF l
<1>11. CASE M # {}
  <2>1. PICK i \in M : ~p.rules[i].deny /\ \A j \in M : i <= j
    <3>1. PICK i \in M : GrantFor(p, c) = OfRule(p.rules[i]) /\ \A j \in M : i <= j
      BY <1>8, <1>11
    <3> QED BY <3>1 DEF OfRule
  <2>2. i \in F
    BY <1>5, <2>1
  <2>3. ~p.rules[StopAt(F)].deny
    <3> SUFFICES ASSUME p.rules[StopAt(F)].deny PROVE FALSE
      OBVIOUS
    <3>1. StopAt(F) \in M /\ StopAt(F) <= i /\ StopAt(F) \in Nat
      BY <1>3, <1>6, <1>9, <2>2
    <3>2. i <= StopAt(F) /\ i \in Nat
      BY <1>3, <2>1, <3>1
    <3>3. i = StopAt(F)
      BY <3>1, <3>2
    <3> QED BY <2>1, <3>3
  <2> QED BY <1>7, <2>2, <2>3 DEF l
<1> QED BY <1>10, <1>11

--------------------------------------------------------------------------------

\* Nothing but a document that compiles is ever put in force, whatever the
\* requests do meanwhile.
THEOREM PolicyIsSound ==
    /\ Spec => [](Sound(policy) /\ version \in 0..MaxVersions)
    /\ PipelineSpec => [](Sound(policy) /\ version \in 0..MaxVersions)
<1> DEFINE I == Sound(policy) /\ version \in 0..MaxVersions
<1>1. Init => I
  BY VersionsAreBounded DEF Init, Sound
<1>2. ASSUME I, NEW doc \in Documents \cup Served, Publish(doc) PROVE I'
  <2>1. Sound(policy')
    BY <1>2 DEF Publish, Sound
  <2>2. version' \in 0..MaxVersions
    BY <1>2, VersionsAreBounded DEF Publish
  <2> QED BY <2>1, <2>2
<1>3. I /\ UNCHANGED vars => I'
  BY DEF vars
<1>4. I /\ [Next]_vars => I'
  BY <1>2, <1>3 DEF Next
<1>5. I /\ [PipelineNext]_allVars => I'
  <2>1. Replace => \E doc \in Documents \cup Served : Publish(doc)
    BY DEF Replace
  <2>2. Serve => UNCHANGED vars
    BY DEF Serve, Arrive, Resume, Limit, Authorize, Validate, Materialize, Redact, Quota, Tagger,
           Dispatch, GatePasses, GateFiles, GateTimesOut, GateResolves, PassOut, RedactOut, GateOut,
           Answer, Decide, Begin, Proceed, Changes, Return, Back
  <2>3. UNCHANGED allVars => UNCHANGED vars
    BY DEF allVars
  <2> HIDE DEF I
  <2> QED BY <1>2, <1>3, <2>1, <2>2, <2>3 DEF PipelineNext
<1>6. PipelineInit => Init
  BY DEF PipelineInit
<1> QED BY <1>1, <1>4, <1>5, <1>6, PTL DEF Spec, PipelineSpec

\* Whatever is published, a tool an agent can run is in the list it is shown.
THEOREM ListedWhenGranted == /\ Spec => []GrantedIsListed
                             /\ PipelineSpec => []GrantedIsListed
<1>1. Sound(policy) => GrantedIsListed
  BY GrantedMayCall DEF GrantedIsListed, VisibleTools
<1> QED BY <1>1, PolicyIsSound, PTL

\* What is in force answers every call with a mode that exists, or not at all.
THEOREM PolicyTypeCorrect == /\ Spec => []TypeOK
                             /\ PipelineSpec => []TypeOK
<1>1. version \in 0..MaxVersions /\ Sound(policy) => TypeOK
  <2> SUFFICES ASSUME version \in 0..MaxVersions, Sound(policy), policy # None PROVE TypeOK
    BY DEF TypeOK
  <2>1. policy.default \in Modes \cup {None}
    BY SoundShape
  <2>2. ASSUME NEW c \in Calls PROVE GrantFor(policy, c) = None \/ GrantFor(policy, c).mode \in Modes
    <3> DEFINE M == {i \in DOMAIN policy.rules : Matches(policy.rules[i], c, Trusted(policy, c))}
    <3>1. \/ GrantFor(policy, c) = OfDefault(policy.default)
          \/ \E i \in DOMAIN policy.rules : GrantFor(policy, c) = OfRule(policy.rules[i])
      BY GrantIsFirstMatch
    <3>2. OfDefault(policy.default) = None \/ OfDefault(policy.default).mode \in Modes
      BY <2>1 DEF OfDefault, Grant
    <3>3. \A i \in DOMAIN policy.rules :
             OfRule(policy.rules[i]) = None \/ OfRule(policy.rules[i]).mode \in Modes
      BY SoundShape DEF OfRule, Grant
    <3> QED BY <3>1, <3>2, <3>3
  <2> QED BY <2>1, <2>2 DEF TypeOK
<1> QED BY <1>1, PolicyIsSound, PTL

\* Unless a policy trusts an upstream, what it says of its tools decides
\* nothing, under any policy and for any call.
THEOREM ClaimsIgnored == /\ Spec => []UntrustedClaimsIgnored
                         /\ PipelineSpec => []UntrustedClaimsIgnored
<1>1. UntrustedClaimsIgnored
  <2> SUFFICES ASSUME NEW c \in Calls, NEW a \in Annotations, policy # None, ~Trusted(policy, c)
               PROVE  LET d == [c EXCEPT !.annotations = a]
                      IN /\ GrantFor(policy, c) = GrantFor(policy, d)
                         /\ MayCall(policy, c) <=> MayCall(policy, d)
    BY DEF UntrustedClaimsIgnored
  <2> DEFINE d == [c EXCEPT !.annotations = a]
  <2>1. d.tool = c.tool /\ d.agent = c.agent /\ d.args = c.args
    BY DEF Calls
  <2>2. ~Trusted(policy, d)
    BY <2>1 DEF Trusted
  <2> HIDE DEF d
  <2>3. ASSUME NEW rule PROVE Targets(rule, c, Trusted(policy, c)) <=> Targets(rule, d, Trusted(policy, d))
    BY <2>1, <2>2 DEF Targets
  <2>4. ASSUME NEW rule PROVE Matches(rule, c, Trusted(policy, c)) <=> Matches(rule, d, Trusted(policy, d))
    BY <2>1, <2>3 DEF Matches
  <2>5. {i \in DOMAIN policy.rules : Matches(policy.rules[i], c, Trusted(policy, c))}
          = {i \in DOMAIN policy.rules : Matches(policy.rules[i], d, Trusted(policy, d))}
    BY <2>4
  <2>6. {i \in DOMAIN policy.rules :
            Targets(policy.rules[i], c, Trusted(policy, c)) /\ Final(policy.rules[i])}
          = {i \in DOMAIN policy.rules :
                Targets(policy.rules[i], d, Trusted(policy, d)) /\ Final(policy.rules[i])}
    BY <2>3
  <2>7. GrantFor(policy, c) = GrantFor(policy, d)
    BY <2>5 DEF GrantFor
  <2>8. MayCall(policy, c) <=> MayCall(policy, d)
    BY <2>6 DEF MayCall
  <2> QED BY <2>7, <2>8 DEF d
<1> QED BY <1>1, PTL

--------------------------------------------------------------------------------
(* Assembly: how the steps of a stage are sorted.                           *)

\* What the steps of T are called.
Names(T) == {t.name : t \in T}

LEMMA StepsOfChain ==
    ASSUME NEW T, NEW chain \in Seq(T), \A t \in T : t.order \in Int
    PROVE  /\ DOMAIN chain = 1..Len(chain) /\ Len(chain) \in Nat
           /\ \A i \in DOMAIN chain : i \in Int /\ chain[i].order \in Int /\ chain[i] \in T
<1>1. DOMAIN chain = 1..Len(chain) /\ Len(chain) \in Nat
    OBVIOUS
<1>2. \A i \in DOMAIN chain : i \in Int /\ chain[i] \in T
    BY <1>1, ElementOfSeq
<1> QED BY <1>1, <1>2

LEMMA PrecedesIsAnOrder ==
    ASSUME NEW T, NEW chain \in Seq(T), \A t \in T : t.order \in Int
    PROVE  \A i, j, k \in DOMAIN chain :
              /\ ~Precedes(chain, i, i)
              /\ Precedes(chain, i, j) \/ Precedes(chain, j, i) \/ i = j
              /\ Precedes(chain, i, j) /\ Precedes(chain, j, k) => Precedes(chain, i, k)
<1>1. \A i \in DOMAIN chain : i \in Int /\ chain[i].order \in Int
    BY StepsOfChain
<1> QED BY <1>1 DEF Precedes

\* The steps of a stage take the places 0..n-1, each once, in their order.
LEMMA PlacesAreAll ==
    ASSUME NEW T, NEW chain \in Seq(T), \A t \in T : t.order \in Int, NEW stage
    PROVE  LET S == {i \in DOMAIN chain : chain[i].stage = stage} IN
           /\ Cardinality(S) \in Nat
           /\ \A i \in S : Place(chain, i) \in 0..(Cardinality(S) - 1)
           /\ \A i, j \in S : Precedes(chain, i, j) => Place(chain, i) < Place(chain, j)
           /\ \A k \in 0..(Cardinality(S) - 1) : \E i \in S : Place(chain, i) = k
<1> DEFINE S == {i \in DOMAIN chain : chain[i].stage = stage}
           n == Cardinality(S)
           first(i) == {j \in S : Precedes(chain, j, i)}
           f == [i \in S |-> Place(chain, i)]
<1>1. IsFiniteSet(S) /\ n \in Nat
    <2>1. DOMAIN chain = 1..Len(chain) /\ Len(chain) \in Nat
        BY StepsOfChain
    <2>2. IsFiniteSet(1..Len(chain)) /\ S \in SUBSET (1..Len(chain))
        BY <2>1, FS_Interval
    <2> QED BY <2>2, FS_Subset, FS_CardinalityType
<1>2. \A i \in S : Place(chain, i) = Cardinality(first(i))
    <2> SUFFICES ASSUME NEW i \in S PROVE Place(chain, i) = Cardinality(first(i))
        OBVIOUS
    <2>1. {j \in DOMAIN chain : chain[j].stage = chain[i].stage /\ Precedes(chain, j, i)} = first(i)
        OBVIOUS
    <2> QED BY <2>1 DEF Place
<1>3. ASSUME NEW i \in S
      PROVE  first(i) \in SUBSET S /\ i \notin first(i) /\ IsFiniteSet(first(i)) /\ Cardinality(first(i)) \in Nat
    <2>1. first(i) \in SUBSET S /\ i \notin first(i)
        BY PrecedesIsAnOrder
    <2> HIDE DEF first, S
    <2> QED BY <1>1, <2>1, FS_Subset, FS_CardinalityType
<1>4. ASSUME NEW i \in S, NEW j \in S, Precedes(chain, i, j)
      PROVE  Cardinality(first(i)) < Cardinality(first(j))
    <2>1. first(i) \in SUBSET first(j) /\ first(i) # first(j)
        <3>1. first(i) \subseteq first(j)
            BY <1>4, PrecedesIsAnOrder
        <3>2. i \in first(j)
            BY <1>4
        <3> QED BY <1>3, <3>1, <3>2
    <2> HIDE DEF first, S
    <2>2. /\ Cardinality(first(i)) <= Cardinality(first(j))
          /\ Cardinality(first(i)) # Cardinality(first(j))
        BY <1>3, <2>1, FS_Subset
    <2> QED BY <1>3, <2>2
<1>5. ASSUME NEW i \in S PROVE Cardinality(first(i)) \in 0..(n - 1)
    <2>1. first(i) # S
        BY <1>3
    <2> HIDE DEF first, S
    <2>2. Cardinality(first(i)) <= n /\ Cardinality(first(i)) # n
        BY <1>1, <1>3, <2>1, FS_Subset
    <2> QED BY <1>1, <1>3, <2>2
<1>6. f \in Injection(S, 0..(n - 1))
    <2>1. ASSUME NEW i \in S, NEW j \in S, Place(chain, i) = Place(chain, j) PROVE i = j
        <3>1. Cardinality(first(i)) = Cardinality(first(j)) /\ Cardinality(first(i)) \in Nat
            BY <1>2, <1>3, <2>1
        <3>2. ~Precedes(chain, i, j)
            <4>1. Precedes(chain, i, j) => Cardinality(first(i)) < Cardinality(first(j))
                BY <1>4
            <4> HIDE DEF first
            <4> QED BY <3>1, <4>1
        <3>3. ~Precedes(chain, j, i)
            <4>1. Precedes(chain, j, i) => Cardinality(first(j)) < Cardinality(first(i))
                BY <1>4
            <4> HIDE DEF first
            <4> QED BY <3>1, <4>1
        <3> QED BY <3>2, <3>3, PrecedesIsAnOrder
    <2> QED BY <1>2, <1>5, <2>1 DEF Injection, IsInjective
<1>7. f \in Surjection(S, 0..(n - 1))
    <2> HIDE DEF n
    <2>1. IsFiniteSet(0..(n - 1)) /\ Cardinality(0..(n - 1)) = n
        BY <1>1, FS_Interval
    <2> HIDE DEF f, S
    <2> QED BY <1>6, <2>1, FS_Injection DEF n
<1>8. \A k \in 0..(n - 1) : \E i \in S : Place(chain, i) = k
    BY <1>7 DEF Surjection
<1> QED BY <1>1, <1>2, <1>4, <1>5, <1>8

\* InOrder names the steps of a stage, each once, in their order.
LEMMA InOrderLists ==
    ASSUME NEW T, NEW chain \in Seq(T), \A t \in T : t.order \in Int, NEW stage
    PROVE  LET S == {i \in DOMAIN chain : chain[i].stage = stage}
               names == InOrder(chain, stage) IN
           /\ names \in Seq(Names(T))
           /\ \E where \in [1..Len(names) -> S] :
                 /\ \A k \in 1..Len(names) : names[k] = chain[where[k]].name
                 /\ \A i \in S : \E k \in 1..Len(names) : where[k] = i
                 /\ \A k, l \in 1..Len(names) : Precedes(chain, where[k], where[l]) => k < l
                 /\ \A k, l \in 1..Len(names) : where[k] = where[l] => k = l
<1> DEFINE S == {i \in DOMAIN chain : chain[i].stage = stage}
           names == InOrder(chain, stage)
           n == Cardinality(S)
           index == [k \in 1..n |-> CHOOSE i \in S : Place(chain, i) = k - 1]
<1>1. /\ n \in Nat
      /\ \A i \in S : Place(chain, i) \in 0..(n - 1)
      /\ \A i, j \in S : Precedes(chain, i, j) => Place(chain, i) < Place(chain, j)
      /\ \A k \in 0..(n - 1) : \E i \in S : Place(chain, i) = k
    BY PlacesAreAll
<1>2. names = [k \in 1..n |-> chain[index[k]].name]
    BY DEF InOrder
<1>3. \A i \in S : i \in DOMAIN chain /\ chain[i].name \in Names(T)
    BY StepsOfChain DEF Names
<1> HIDE DEF S, n
<1>4. \A k \in 1..n : index[k] \in S /\ Place(chain, index[k]) = k - 1
    <2> SUFFICES ASSUME NEW k \in 1..n PROVE index[k] \in S /\ Place(chain, index[k]) = k - 1
        OBVIOUS
    <2>1. k - 1 \in 0..(n - 1)
        BY <1>1
    <2> QED BY <1>1, <2>1
<1>5. \A i \in S : \E k \in 1..n : index[k] = i
    <2> SUFFICES ASSUME NEW i \in S PROVE \E k \in 1..n : index[k] = i
        OBVIOUS
    <2>1. PICK k \in 1..n : Place(chain, i) = k - 1
        <3>1. Place(chain, i) + 1 \in 1..n /\ Place(chain, i) = (Place(chain, i) + 1) - 1
            BY <1>1
        <3> QED BY <3>1
    <2>2. index[k] \in S /\ Place(chain, index[k]) = Place(chain, i)
        BY <1>4, <2>1
    <2>3. ~Precedes(chain, i, index[k]) /\ ~Precedes(chain, index[k], i)
        BY <1>1, <2>2
    <2> QED BY <1>3, <2>2, <2>3, PrecedesIsAnOrder
<1>6. index \in [1..n -> S]
    BY <1>4
<1> HIDE DEF index
<1>7. names \in [1..n -> Names(T)]
    BY <1>2, <1>3, <1>6
<1> HIDE DEF names
<1>8. names \in Seq(Names(T)) /\ Len(names) = n
    BY <1>1, <1>7
<1>9. \A k \in 1..n : names[k] = chain[index[k]].name
    BY <1>2
<1>10. \A k, l \in 1..n : /\ Precedes(chain, index[k], index[l]) => k < l
                          /\ index[k] = index[l] => k = l
    <2> SUFFICES ASSUME NEW k \in 1..n, NEW l \in 1..n
                 PROVE  /\ Precedes(chain, index[k], index[l]) => k < l
                        /\ index[k] = index[l] => k = l
        OBVIOUS
    <2>1. Place(chain, index[k]) = k - 1 /\ Place(chain, index[l]) = l - 1 /\ index[k] \in S /\ index[l] \in S
        BY <1>4
    <2>2. Precedes(chain, index[k], index[l]) => k - 1 < l - 1
        BY <1>1, <2>1
    <2>3. index[k] = index[l] => k - 1 = l - 1
        BY <2>1
    <2> QED BY <1>1, <2>2, <2>3
<1> QED BY <1>5, <1>6, <1>8, <1>9, <1>10 DEF S, names

--------------------------------------------------------------------------------
(* The two paths.                                                           *)

\* The steps of a gateway, what they are, and how everything on its paths is called.
Chain(steps) == BuiltIn \o steps

StepsOf(steps) == {BuiltIn[i] : i \in 1..5} \cup {steps[i] : i \in DOMAIN steps}

NamesOf(steps) == BuiltInNames \cup Names(StepsOf(steps))

LEMMA ChainOfSteps ==
    ASSUME NEW steps \in Extras
    PROVE  /\ Chain(steps) \in Seq(StepsOf(steps)) /\ Len(Chain(steps)) >= 5
           /\ \A t \in StepsOf(steps) : t.order \in Int
           /\ Names(StepsOf(steps)) \subseteq NamesOf(steps)
           /\ Chain(steps)[1] = Step("authorize", Before, 100)
           /\ Chain(steps)[2] = Step("validate", After, 100)
           /\ Chain(steps)[3] = Step("materialize", After, 200)
           /\ Chain(steps)[4] = Step("redact", After, 300)
           /\ Chain(steps)[5] = Step("limit", Before, 50)
           /\ \A i \in DOMAIN Chain(steps) : i > 5 => Chain(steps)[i].name \notin BuiltInNames
<1>1. BuiltIn \in Seq({BuiltIn[i] : i \in 1..5}) /\ Len(BuiltIn) = 5 /\ \A i \in 1..5 : BuiltIn[i].order \in Int
    BY DEF BuiltIn, Step
<1>2. /\ steps \in Seq({steps[i] : i \in DOMAIN steps})
      /\ \A i \in DOMAIN steps : steps[i].name \notin BuiltInNames /\ steps[i].order \in Int
    BY ExtrasAreSteps
<1>3. BuiltIn \in Seq(StepsOf(steps)) /\ steps \in Seq(StepsOf(steps)) /\ \A t \in StepsOf(steps) : t.order \in Int
    BY <1>1, <1>2, SeqMonotonic DEF StepsOf
<1>4. /\ Chain(steps) \in Seq(StepsOf(steps)) /\ Len(Chain(steps)) = 5 + Len(steps)
      /\ \A i \in 1..(5 + Len(steps)) : Chain(steps)[i] = IF i <= 5 THEN BuiltIn[i] ELSE steps[i - 5]
    <2>1. /\ BuiltIn \o steps \in Seq(StepsOf(steps)) /\ Len(BuiltIn \o steps) = Len(BuiltIn) + Len(steps)
          /\ \A i \in 1..(Len(BuiltIn) + Len(steps)) :
                (BuiltIn \o steps)[i] = IF i <= Len(BuiltIn) THEN BuiltIn[i] ELSE steps[i - Len(BuiltIn)]
        BY <1>3, ConcatProperties
    <2> QED BY <1>1, <2>1 DEF Chain
<1>5. Len(steps) \in Nat /\ DOMAIN steps = 1..Len(steps) /\ DOMAIN Chain(steps) = 1..(5 + Len(steps))
    BY <1>2, <1>3, <1>4, StepsOfChain
<1>6. \A i \in 1..5 : Chain(steps)[i] = BuiltIn[i]
    BY <1>4, <1>5
<1>7. ASSUME NEW i \in DOMAIN Chain(steps), i > 5 PROVE Chain(steps)[i].name \notin BuiltInNames
    <2>1. i - 5 \in DOMAIN steps /\ Chain(steps)[i] = steps[i - 5]
        BY <1>4, <1>5, <1>7
    <2> QED BY <1>2, <2>1
<1>8. /\ BuiltIn[1] = Step("authorize", Before, 100) /\ BuiltIn[2] = Step("validate", After, 100)
      /\ BuiltIn[3] = Step("materialize", After, 200) /\ BuiltIn[4] = Step("redact", After, 300)
      /\ BuiltIn[5] = Step("limit", Before, 50)
    BY DEF BuiltIn
<1>9. Names(StepsOf(steps)) \subseteq NamesOf(steps)
    BY DEF NamesOf
<1> QED BY <1>3, <1>4, <1>5, <1>6, <1>7, <1>8, <1>9

\* Before approval there are authorize and limit, and extra steps.
LEMMA StepsBefore ==
    ASSUME NEW steps \in Extras
    PROVE  LET p == InOrder(Chain(steps), Before) IN
           /\ p \in Seq(NamesOf(steps))
           /\ \E k \in 1..Len(p) : p[k] = "authorize"
           /\ \A k \in 1..Len(p) : p[k] \in BuiltInNames => p[k] \in {"authorize", "limit"}
<1> DEFINE c == Chain(steps)
           S == {i \in DOMAIN c : c[i].stage = Before}
           p == InOrder(c, Before)
<1>1. p \in Seq(NamesOf(steps)) /\ \E where \in [1..Len(p) -> S] :
          /\ \A k \in 1..Len(p) : p[k] = c[where[k]].name
          /\ \A i \in S : \E k \in 1..Len(p) : where[k] = i
    <2> DEFINE T == StepsOf(steps)
    <2>1. c \in Seq(T) /\ (\A t \in T : t.order \in Int) /\ Names(T) \subseteq NamesOf(steps)
        BY ChainOfSteps
    <2> HIDE DEF c, T
    <2>2. /\ p \in Seq(Names(T))
          /\ \E where \in [1..Len(p) -> S] :
                /\ \A k \in 1..Len(p) : p[k] = c[where[k]].name
                /\ \A i \in S : \E k \in 1..Len(p) : where[k] = i
        BY <2>1, InOrderLists
    <2> HIDE DEF p, S
    <2> QED BY <2>1, <2>2, SeqMonotonic
<1>2. PICK where \in [1..Len(p) -> S] :
          /\ \A k \in 1..Len(p) : p[k] = c[where[k]].name
          /\ \A i \in S : \E k \in 1..Len(p) : where[k] = i
    BY <1>1
<1>3. DOMAIN c = 1..Len(c) /\ Len(c) \in Nat
    <2> DEFINE T == StepsOf(steps)
    <2>1. c \in Seq(T) /\ \A t \in T : t.order \in Int
        BY ChainOfSteps
    <2> HIDE DEF c, T
    <2> QED BY <2>1, StepsOfChain
<1>4. 1 \in S /\ c[1].name = "authorize"
    BY <1>3, ChainOfSteps DEF Step
<1>5. \A i \in S : c[i].name \in BuiltInNames => c[i].name \in {"authorize", "limit"}
    <2> SUFFICES ASSUME NEW i \in S, c[i].name \in BuiltInNames PROVE c[i].name \in {"authorize", "limit"}
        OBVIOUS
    <2>1. i \in {1, 2, 3, 4, 5}
        BY <1>3, ChainOfSteps
    <2> QED BY <2>1, ChainOfSteps DEF Step, Before, After
<1> HIDE DEF S, c, p
<1>6. \E k \in 1..Len(p) : p[k] = "authorize"
    BY <1>2, <1>4
<1>7. \A k \in 1..Len(p) : p[k] \in BuiltInNames => p[k] \in {"authorize", "limit"}
    BY <1>2, <1>5
<1> QED BY <1>1, <1>6, <1>7 DEF p, c

\* After approval there are validate, materialize and redact, in this order and
\* once, and extra steps.
LEMMA StepsAfter ==
    ASSUME NEW steps \in Extras
    PROVE  LET p == InOrder(Chain(steps), After) IN
           /\ p \in Seq(NamesOf(steps))
           /\ \E v, m, r \in 1..Len(p) :
                 /\ v < m /\ m < r
                 /\ p[v] = "validate" /\ p[m] = "materialize" /\ p[r] = "redact"
                 /\ \A k \in 1..Len(p) : p[k] \in BuiltInNames => k \in {v, m, r}
<1> DEFINE c == Chain(steps)
           S == {i \in DOMAIN c : c[i].stage = After}
           p == InOrder(c, After)
<1>1. p \in Seq(NamesOf(steps)) /\ \E where \in [1..Len(p) -> S] :
          /\ \A k \in 1..Len(p) : p[k] = c[where[k]].name
          /\ \A i \in S : \E k \in 1..Len(p) : where[k] = i
          /\ \A k, l \in 1..Len(p) : Precedes(c, where[k], where[l]) => k < l
          /\ \A k, l \in 1..Len(p) : where[k] = where[l] => k = l
    <2> DEFINE T == StepsOf(steps)
    <2>1. c \in Seq(T) /\ (\A t \in T : t.order \in Int) /\ Names(T) \subseteq NamesOf(steps)
        BY ChainOfSteps
    <2> HIDE DEF c, T
    <2>2. /\ p \in Seq(Names(T))
          /\ \E where \in [1..Len(p) -> S] :
                /\ \A k \in 1..Len(p) : p[k] = c[where[k]].name
                /\ \A i \in S : \E k \in 1..Len(p) : where[k] = i
                /\ \A k, l \in 1..Len(p) : Precedes(c, where[k], where[l]) => k < l
                /\ \A k, l \in 1..Len(p) : where[k] = where[l] => k = l
        BY <2>1, InOrderLists, SMTT(90)
    <2> HIDE DEF p, S
    <2> QED BY <2>1, <2>2, SeqMonotonic
<1>2. PICK where \in [1..Len(p) -> S] :
          /\ \A k \in 1..Len(p) : p[k] = c[where[k]].name
          /\ \A i \in S : \E k \in 1..Len(p) : where[k] = i
          /\ \A k, l \in 1..Len(p) : Precedes(c, where[k], where[l]) => k < l
          /\ \A k, l \in 1..Len(p) : where[k] = where[l] => k = l
    BY <1>1
<1>3. DOMAIN c = 1..Len(c) /\ Len(c) \in Nat
    <2> DEFINE T == StepsOf(steps)
    <2>1. c \in Seq(T) /\ \A t \in T : t.order \in Int
        BY ChainOfSteps
    <2> HIDE DEF c, T
    <2> QED BY <2>1, StepsOfChain
<1>4. /\ 2 \in S /\ c[2].name = "validate" /\ 3 \in S /\ c[3].name = "materialize"
      /\ 4 \in S /\ c[4].name = "redact" /\ Precedes(c, 2, 3) /\ Precedes(c, 3, 4)
    BY <1>3, ChainOfSteps DEF Step, Precedes
<1>5. \A i \in S : c[i].name \in BuiltInNames => i \in {2, 3, 4}
    <2> SUFFICES ASSUME NEW i \in S, c[i].name \in BuiltInNames PROVE i \in {2, 3, 4}
        OBVIOUS
    <2>1. i \in {1, 2, 3, 4, 5}
        BY <1>3, ChainOfSteps
    <2> QED BY <2>1, ChainOfSteps DEF Step, Before, After
<1> HIDE DEF S, c, p
<1>6. PICK v, m, r \in 1..Len(p) : where[v] = 2 /\ where[m] = 3 /\ where[r] = 4
    BY <1>2, <1>4
<1>7. v < m /\ m < r /\ p[v] = "validate" /\ p[m] = "materialize" /\ p[r] = "redact"
    BY <1>2, <1>4, <1>6
<1>8. ASSUME NEW k \in 1..Len(p), p[k] \in BuiltInNames PROVE k \in {v, m, r}
    <2>1. where[k] \in {2, 3, 4}
        BY <1>2, <1>5, <1>8
    <2> QED BY <1>2, <1>6, <2>1
<1> QED BY <1>1, <1>7, <1>8 DEF p, c

\* The request is at step n of the path p, and has been at x.
Passed(p, n, x) == \E i \in 1..(n - 1) : p[i] = x

\* On the path p, whatever is called y comes after something called x.
Ahead(p, x, y) == \A j \in 1..Len(p) : p[j] = y => Passed(p, j, x)

\* Both paths validate, resolve, redact and dispatch in this order, and dispatch last.
Executing(p) ==
    /\ Len(p) \in Nat /\ Len(p) > 0
    /\ Ahead(p, "validate", "materialize") /\ Ahead(p, "materialize", "redact") /\ Ahead(p, "redact", "dispatch")
    /\ \A i, j \in 1..Len(p) : p[i] = p[j] /\ p[i] \in {"gate", "validate", "materialize", "redact"} => i = j
    /\ \A i \in 1..Len(p) : p[i] = "dispatch" <=> i = Len(p)

LEMMA ResumePath ==
    ASSUME NEW steps \in Extras
    PROVE  LET p == PostApproval(steps) IN
           /\ p \in Seq(NamesOf(steps)) /\ Executing(p)
           /\ \A i \in 1..Len(p) : p[i] \in BuiltInNames => p[i] \in {"validate", "materialize", "redact", "dispatch"}
<1> DEFINE a == InOrder(Chain(steps), After)
           p == PostApproval(steps)
<1>1. a \in Seq(NamesOf(steps)) /\ Len(a) \in Nat
    BY StepsAfter
<1>2. PICK v, m, r \in 1..Len(a) :
          /\ v < m /\ m < r
          /\ a[v] = "validate" /\ a[m] = "materialize" /\ a[r] = "redact"
          /\ \A k \in 1..Len(a) : a[k] \in BuiltInNames => k \in {v, m, r}
    BY StepsAfter
<1>3. p = a \o <<"dispatch">>
    BY DEF PostApproval, Chain
<1> HIDE DEF a, p
<1>4. /\ p \in Seq(NamesOf(steps)) /\ Len(p) = Len(a) + 1 /\ p[Len(a) + 1] = "dispatch"
      /\ \A k \in 1..Len(a) : p[k] = a[k]
    <2>1. "dispatch" \in NamesOf(steps)
        BY DEF NamesOf, BuiltInNames
    <2>2. p = Append(a, "dispatch")
        BY <1>1, <1>3, <2>1, AppendIsConcat
    <2> QED BY <1>1, <2>1, <2>2, AppendProperties
<1>5. \A k \in 1..Len(p) : p[k] \in BuiltInNames => k \in {v, m, r, Len(p)}
    BY <1>1, <1>2, <1>4
<1>6. /\ p[v] = "validate" /\ p[m] = "materialize" /\ p[r] = "redact" /\ p[Len(p)] = "dispatch"
      /\ v \in 1..Len(p) /\ m \in 1..Len(p) /\ r \in 1..Len(p) /\ v < m /\ m < r /\ r < Len(p)
    BY <1>1, <1>2, <1>4
<1>7. Ahead(p, "validate", "materialize") /\ Ahead(p, "materialize", "redact") /\ Ahead(p, "redact", "dispatch")
    BY <1>4, <1>5, <1>6, <1>1 DEF Ahead, Passed, BuiltInNames
<1>8. Executing(p)
    BY <1>1, <1>4, <1>5, <1>6, <1>7 DEF Executing, BuiltInNames
<1>9. \A i \in 1..Len(p) : p[i] \in BuiltInNames => p[i] \in {"validate", "materialize", "redact", "dispatch"}
    BY <1>5, <1>6
<1> QED BY <1>4, <1>8, <1>9 DEF p

\* The full path has the gate, after authorize and before the path of a resume.
LEMMA FullPath ==
    ASSUME NEW steps \in Extras
    PROVE  LET p == Full(steps) IN
           /\ p \in Seq(NamesOf(steps)) /\ Executing(p) /\ Ahead(p, "authorize", "gate") /\ Ahead(p, "gate", "validate")
           /\ \E g \in 1..Len(p) : p[g] = "gate"
<1> DEFINE b == InOrder(Chain(steps), Before)
           q == PostApproval(steps)
           p == Full(steps)
           g == Len(b) + 1
<1>1. /\ b \in Seq(NamesOf(steps)) /\ Len(b) \in Nat
      /\ \E k \in 1..Len(b) : b[k] = "authorize"
      /\ \A k \in 1..Len(b) : b[k] \in BuiltInNames => b[k] \in {"authorize", "limit"}
    BY StepsBefore
<1>2. /\ Executing(q) /\ q \in Seq(NamesOf(steps)) /\ Len(q) \in Nat
      /\ \A i \in 1..Len(q) : q[i] \in BuiltInNames => q[i] \in {"validate", "materialize", "redact", "dispatch"}
    BY ResumePath DEF Executing
<1>3. p = (b \o <<"gate">>) \o q
    BY DEF Full, Chain
<1> HIDE DEF b, p, q
<1>4. /\ b \o <<"gate">> \in Seq(NamesOf(steps)) /\ Len(b \o <<"gate">>) = g /\ (b \o <<"gate">>)[g] = "gate"
      /\ \A k \in 1..Len(b) : (b \o <<"gate">>)[k] = b[k]
    <2>1. "gate" \in NamesOf(steps)
        BY DEF NamesOf, BuiltInNames
    <2>2. b \o <<"gate">> = Append(b, "gate")
        BY <1>1, <2>1, AppendIsConcat
    <2> QED BY <1>1, <2>1, <2>2, AppendProperties
<1>5. /\ p \in Seq(NamesOf(steps)) /\ Len(p) = g + Len(q)
      /\ \A k \in 1..(g + Len(q)) : p[k] = IF k <= g THEN (b \o <<"gate">>)[k] ELSE q[k - g]
    BY <1>2, <1>3, <1>4, ConcatProperties
<1>6. g \in 1..Len(p) /\ p[g] = "gate" /\ \A k \in 1..Len(b) : k \in 1..Len(p) /\ p[k] = b[k]
    BY <1>1, <1>2, <1>4, <1>5
<1>7. \A k \in 1..Len(q) : g + k \in 1..Len(p) /\ p[g + k] = q[k]
    BY <1>1, <1>2, <1>5
<1>8. \A k \in 1..Len(p) : k \in 1..Len(b) \/ k = g \/ (k > g /\ k - g \in 1..Len(q) /\ p[k] = q[k - g])
    <2>1. Len(p) \in Nat /\ Len(b) \in Nat
        BY <1>1, <1>2, <1>5
    <2> SUFFICES ASSUME NEW k \in 1..Len(p), k > g PROVE k - g \in 1..Len(q) /\ p[k] = q[k - g]
        BY <2>1
    <2>2. k - g \in 1..Len(q) /\ g + (k - g) = k
        BY <1>1, <1>2, <1>5
    <2> QED BY <1>7, <2>2
<1>9. \A k \in 1..Len(p) : p[k] \in {"gate", "validate", "materialize", "redact", "dispatch"} => k >= g
    BY <1>1, <1>6, <1>8 DEF BuiltInNames
<1>10. \A k \in 1..Len(p) : p[k] = "gate" => k = g
    BY <1>1, <1>2, <1>6, <1>8 DEF BuiltInNames
<1>11. Ahead(p, "authorize", "gate") /\ Ahead(p, "gate", "validate")
    <2>1. Ahead(p, "authorize", "gate")
        BY <1>1, <1>6, <1>10 DEF Ahead, Passed
    <2>2. ASSUME NEW j \in 1..Len(p), p[j] = "validate" PROVE g \in 1..(j - 1) /\ p[g] = "gate"
        BY <1>1, <1>6, <1>9, <2>2
    <2> QED BY <2>1, <2>2 DEF Ahead, Passed
<1>12. ASSUME NEW x, NEW y \in {"validate", "materialize", "redact", "dispatch"}, Ahead(q, x, y) PROVE Ahead(p, x, y)
    <2> SUFFICES ASSUME NEW j \in 1..Len(p), p[j] = y PROVE \E i \in 1..(j - 1) : p[i] = x
        BY DEF Ahead, Passed
    <2>1. j > g /\ j - g \in 1..Len(q) /\ q[j - g] = y
        BY <1>6, <1>8, <1>9
    <2>2. PICK i \in 1..(j - g - 1) : q[i] = x
        BY <1>12, <2>1 DEF Ahead, Passed
    <2>3. i \in 1..Len(q) /\ g + i \in 1..(j - 1)
        BY <1>1, <1>2, <2>1, <2>2
    <2> QED BY <1>7, <2>2, <2>3
<1>13. \A i, j \in 1..Len(p) : p[i] = p[j] /\ p[i] \in {"gate", "validate", "materialize", "redact"} => i = j
    <2> SUFFICES ASSUME NEW i \in 1..Len(p), NEW j \in 1..Len(p), p[i] = p[j],
                        p[i] \in {"validate", "materialize", "redact"}
                 PROVE  i = j
        BY <1>10
    <2>1. i > g /\ i - g \in 1..Len(q) /\ q[i - g] = p[i] /\ j > g /\ j - g \in 1..Len(q) /\ q[j - g] = p[i]
        BY <1>6, <1>8, <1>9
    <2>2. i - g = j - g
        BY <1>2, <2>1 DEF Executing
    <2> QED BY <1>1, <2>2
<1>14. \A i \in 1..Len(p) : p[i] = "dispatch" <=> i = Len(p)
    <2>1. Len(q) \in 1..Len(q) /\ q[Len(q)] = "dispatch"
        BY <1>2 DEF Executing
    <2>2. p[Len(p)] = "dispatch"
        BY <1>5, <1>7, <2>1
    <2>3. ASSUME NEW i \in 1..Len(p), p[i] = "dispatch" PROVE i = Len(p)
        <3>1. i - g \in 1..Len(q) /\ q[i - g] = "dispatch"
            BY <1>6, <1>8, <1>9, <2>3
        <3>2. i - g = Len(q)
            BY <1>2, <3>1 DEF Executing
        <3> QED BY <1>1, <1>2, <1>5, <3>2
    <2> QED BY <2>2, <2>3
<1>15. Executing(p)
    <2>1. Ahead(p, "validate", "materialize") /\ Ahead(p, "materialize", "redact") /\ Ahead(p, "redact", "dispatch")
        BY <1>2, <1>12 DEF Executing
    <2>2. Len(p) > 0
        BY <1>1, <1>2, <1>5
    <2> QED BY <1>5, <1>13, <1>14, <2>1, <2>2 DEF Executing
<1> QED BY <1>5, <1>6, <1>11, <1>15 DEF p

--------------------------------------------------------------------------------
(* Arguments.                                                               *)

\* Arguments the steps can work on.
Sane(args) ==
    /\ \A k \in DOMAIN args : "kind" \in DOMAIN args[k]
    /\ "tagged" \in DOMAIN args => args["tagged"] = Tag

\* A CallContext.
Shape(c) ==
    /\ c = [call |-> c.call, grant |-> c.grant, block |-> c.block, note |-> c.note]
    /\ c.note \in BOOLEAN /\ "args" \in DOMAIN c.call
    /\ Sane(c.call.args)

LEMMA PlainIsSane ==
    ASSUME NEW args, Plain(args)
    PROVE  Sane(args) /\ ~Has(args, "secret") /\ Sane(Tagged(args)) /\ ~Has(Tagged(args), "secret")
BY DEF Plain, Sane, Has, Tagged, Tag

LEMMA TaggedKeeps ==
    ASSUME NEW args, Sane(args)
    PROVE  /\ Sane(Tagged(args)) /\ Kept(args, Tagged(args))
           /\ ~Has(args, "reference") => ~Has(Tagged(args), "reference")
           /\ Tagged(Tagged(args)) = Tagged(args)
BY DEF Sane, Kept, Has, Tagged, Tag

LEMMA ResolvedKeeps ==
    ASSUME NEW args, Sane(args)
    PROVE  /\ Sane(Resolved(args)) /\ ~Has(Resolved(args), "reference")
           /\ \A base : Kept(base, args) => Kept(Resolved(base), Resolved(args))
<1>1. DOMAIN Resolved(args) = DOMAIN args
    BY DEF Resolved
<1>2. ASSUME NEW k \in DOMAIN args
      PROVE  /\ "kind" \in DOMAIN Resolved(args)[k] /\ Resolved(args)[k].kind # "reference"
             /\ args[k].kind # "reference" => Resolved(args)[k] = args[k]
    BY DEF Resolved, Sane
<1>3. Sane(Resolved(args))
    BY <1>1, <1>2 DEF Sane, Tag
<1>4. ~Has(Resolved(args), "reference")
    BY <1>1, <1>2 DEF Has
<1>5. ASSUME NEW base, Kept(base, args) PROVE Kept(Resolved(base), Resolved(args))
    BY <1>5 DEF Kept, Resolved
<1> QED BY <1>3, <1>4, <1>5

LEMMA KeptIsAnOrder ==
    /\ \A a : Kept(a, a)
    /\ \A a, b, c : Kept(a, b) /\ Kept(b, c) => Kept(a, c)
BY DEF Kept

\* What the steps do to a CallContext.
LEMMA TaggedShape ==
    ASSUME NEW c, Shape(c)
    PROVE  LET d == [c EXCEPT !.call.args = Tagged(@)] IN
           /\ Shape(d) /\ d.grant = c.grant
           /\ d.call = [c.call EXCEPT !.args = Tagged(@)] /\ d.call.args = Tagged(c.call.args)
<1>1. Sane(Tagged(c.call.args))
    BY TaggedKeeps DEF Shape
<1> QED BY <1>1 DEF Shape

LEMMA ResolvedShape ==
    ASSUME NEW c, Shape(c)
    PROVE  LET d == [c EXCEPT !.call.args = Resolved(@)] IN
           Shape(d) /\ d.grant = c.grant /\ d.call.args = Resolved(c.call.args)
<1>1. Sane(Resolved(c.call.args))
    BY ResolvedKeeps DEF Shape
<1> QED BY <1>1 DEF Shape

LEMMA AdoptShape ==
    ASSUME NEW c, Shape(c), NEW edit \in Edits \cup {None}
    PROVE  LET d == Adopt(c, edit) IN
           /\ Shape(d) /\ d.grant = c.grant
           /\ d.call.args = IF edit = None THEN c.call.args ELSE edit
<1>1. edit # None => Sane(edit)
    BY EditsArePlain, PlainIsSane
<1> QED BY <1>1 DEF Shape, Adopt

\* What a ticket keeps has no secret, and the steps can work on it.
LEMMA SnapshotsArePlain ==
    ASSUME NEW call \in Snapshots
    PROVE  "args" \in DOMAIN call /\ Sane(call.args) /\ ~Has(call.args, "secret")
<1>1. PICK r \in Requests : call \in {r, [r EXCEPT !.args = Tagged(@)]}
    BY DEF Snapshots
<1>2. "args" \in DOMAIN r /\ Plain(r.args)
    BY RequestsArePlain
<1> QED BY <1>1, <1>2, PlainIsSane

LEMMA TaggedSnapshot ==
    ASSUME NEW call \in Snapshots
    PROVE  [call EXCEPT !.args = Tagged(@)] \in Snapshots
<1>1. PICK r \in Requests : call \in {r, [r EXCEPT !.args = Tagged(@)]}
    BY DEF Snapshots
<1>2. "args" \in DOMAIN r /\ Plain(r.args)
    BY RequestsArePlain
<1>3. Tagged(Tagged(r.args)) = Tagged(r.args)
    BY <1>2, PlainIsSane, TaggedKeeps
<1>4. [call EXCEPT !.args = Tagged(@)] = [r EXCEPT !.args = Tagged(@)]
    BY <1>1, <1>2, <1>3
<1> QED BY <1>4 DEF Snapshots

--------------------------------------------------------------------------------
(* The invariant.                                                           *)

Sequence(s) == s \in Seq({s[i] : i \in DOMAIN s})

\* Where the request is, and what it saw on the way.
Travels ==
    /\ extra \in Extras
    /\ path \in {<<>>, Full(extra), PostApproval(extra)} /\ (path = <<>> <=> way = "new")
    /\ way \in {"new", "idle", "in", "out"}
    /\ at \in 0..Len(path) /\ (way = "in" => at > 0)
    /\ Sequence(seen) /\ Len(seen) <= Len(path)
    /\ way = "new" => seen = <<>>
    /\ way = "in" => Len(seen) = at - 1
    /\ \A i \in 1..Len(seen) : seen[i].step = path[i]

\* The gate is ahead, or the request is at it.
Gated == \E i \in at..Len(path) : path[i] = "gate"

\* The ticket is filed at the gate, from the call as it is there, and the gate
\* lets nothing pass that was asked about and not approved.
GateHolds ==
    /\ ticket \in Tickets \cup {None}
    /\ way = "new" => ticket = None
    /\ path = PostApproval(extra) => ticket # None /\ ticket.verdict = "approved"
    /\ way = "in" /\ ticket # None =>
          IF Gated THEN path[at] = "gate" /\ ctx.call = ticket.call /\ ctx.grant.mode # "auto"
          ELSE ticket.verdict = "approved"

\* The step at v validated what was approved.
Checked(v) ==
    /\ seen[v].step = "validate"
    /\ seen[v].grant # None /\ Accepts(seen[v].grant.schema, seen[v].args)
    /\ Kept(Approved, seen[v].args) /\ Sane(seen[v].args)

\* What the call carries: the approved arguments, then the validated ones, then
\* those without references, each with what the steps added.
Carries ==
    way = "in" =>
        /\ Shape(ctx)
        /\ Gated => ctx.call \in Snapshots
        /\ ~Gated \/ Passed(path, at, "authorize") => ctx.grant # None
        /\ Passed(path, at, "materialize") => Passed(path, at, "validate") /\ ~Has(ctx.call.args, "reference")
        /\ IF Passed(path, at, "validate")
           THEN \E v \in 1..Len(seen) :
                   /\ Checked(v)
                   /\ Kept(IF Passed(path, at, "materialize") THEN Resolved(seen[v].args) ELSE seen[v].args,
                           ctx.call.args)
           ELSE (ticket = None /\ seen # <<>>) \/ (ticket # None /\ ~Gated) => Kept(Approved, ctx.call.args)

\* What the upstream got.
Delivered ==
    Len(seen) > 0 /\ seen[Len(seen)].step = "dispatch" =>
        /\ ticket # None => ticket.verdict = "approved"
        /\ UpstreamGetsWhatWasChecked

\* A result that repeats a secret still has to come by redact, and whatever
\* repeats one comes from the upstream.
Guarded ==
    /\ way \in {"out", "idle"} => out \in Answers
    /\ way = "idle" => ~Leaks(out)
    /\ way = "out" /\ Leaks(out) => \E i \in 1..at : path[i] = "redact"
    /\ ticket # None /\ ticket.result # None => ~Leaks(ticket.result)
    /\ way \in {"out", "idle"} /\ out.content = "secret" => seen[Len(seen)].step = "dispatch"

PipelineInv == Travels /\ GateHolds /\ Carries /\ Delivered /\ Guarded

--------------------------------------------------------------------------------
(* Where a request can be.                                                  *)

LEMMA AheadOfThat ==
    ASSUME NEW p, Len(p) \in Nat, NEW x, NEW y, NEW z, Ahead(p, x, y), Ahead(p, y, z)
    PROVE  Ahead(p, x, z)
<1> SUFFICES ASSUME NEW j \in 1..Len(p), p[j] = z PROVE \E i \in 1..(j - 1) : p[i] = x
    BY DEF Ahead, Passed
<1>1. PICK k \in 1..(j - 1) : p[k] = y
    BY DEF Ahead, Passed
<1>2. k \in 1..Len(p)
    OBVIOUS
<1>3. PICK i \in 1..(k - 1) : p[i] = x
    BY <1>1, <1>2 DEF Ahead, Passed
<1> QED BY <1>3

LEMMA OnAPath ==
    ASSUME Travels, way # "new"
    PROVE  /\ Executing(path) /\ Len(path) \in Nat /\ at \in Nat
           /\ \/ /\ path = PostApproval(extra)
                 /\ \A i \in 1..Len(path) : path[i] \notin {"gate", "authorize"}
              \/ /\ path = Full(extra) /\ path # PostApproval(extra)
                 /\ Ahead(path, "authorize", "gate") /\ Ahead(path, "gate", "validate")
                 /\ \E g \in 1..Len(path) : path[g] = "gate"
<1>1. extra \in Extras /\ path \in {Full(extra), PostApproval(extra)} /\ at \in 0..Len(path)
    BY DEF Travels
<1>2. Executing(path)
    BY <1>1, FullPath, ResumePath
<1>3. Len(path) \in Nat /\ at \in Nat
    BY <1>1, <1>2 DEF Executing
<1>4. ASSUME path = PostApproval(extra) PROVE \A i \in 1..Len(path) : path[i] \notin {"gate", "authorize"}
    BY <1>1, <1>4, ResumePath DEF BuiltInNames
<1>5. ASSUME path = Full(extra)
      PROVE  /\ Ahead(path, "authorize", "gate") /\ Ahead(path, "gate", "validate")
             /\ \E g \in 1..Len(path) : path[g] = "gate"
    BY <1>1, <1>5, FullPath
<1> QED BY <1>1, <1>2, <1>3, <1>4, <1>5

\* What is behind and ahead of the request at each step.
LEMMA Surroundings ==
    ASSUME Travels, way = "in"
    PROVE  /\ Gated => /\ ~Passed(path, at, "validate") /\ ~Passed(path, at, "materialize")
                       /\ path # PostApproval(extra)
                       /\ path[at] \notin {"validate", "materialize", "redact", "dispatch"}
           /\ ~Gated => path = PostApproval(extra) \/ Passed(path, at, "authorize")
           /\ path[at] = "gate" => Gated /\ Passed(path, at, "authorize")
           /\ path[at] = "validate" => ~Passed(path, at, "validate") /\ ~Passed(path, at, "materialize")
           /\ path[at] = "materialize" => Passed(path, at, "validate") /\ ~Passed(path, at, "materialize")
           /\ path[at] = "dispatch" => /\ Passed(path, at, "materialize") /\ at = Len(path)
                                       /\ \E i \in 1..(at - 1) : path[i] = "redact"
           /\ path[at] # "dispatch" => at + 1 \in 1..Len(path)
           /\ ~Passed(path, at, "dispatch")
<1>1. /\ way # "new" /\ at \in 1..Len(path) /\ Len(path) \in Nat
    <2>1. at \in 0..Len(path) /\ at > 0 /\ way # "new"
        BY DEF Travels
    <2> QED BY <2>1, OnAPath
<1>2. /\ Ahead(path, "validate", "materialize") /\ Ahead(path, "materialize", "redact")
      /\ Ahead(path, "redact", "dispatch")
      /\ \A i, j \in 1..Len(path) :
            path[i] = path[j] /\ path[i] \in {"gate", "validate", "materialize", "redact"} => i = j
      /\ \A i \in 1..Len(path) : path[i] = "dispatch" <=> i = Len(path)
    BY <1>1, OnAPath DEF Executing
<1>3. Ahead(path, "materialize", "dispatch")
    BY <1>1, <1>2, AheadOfThat
\* The gate is passed only once, and before the arguments are looked at.
<1>4. ASSUME NEW g \in at..Len(path), path[g] = "gate"
      PROVE  /\ Ahead(path, "authorize", "gate") /\ path # PostApproval(extra)
             /\ \A i \in 1..at : path[i] \notin {"validate", "materialize", "redact", "dispatch"}
    <2>1. g \in 1..Len(path)
        BY <1>1
    <2>2. /\ Ahead(path, "authorize", "gate") /\ path # PostApproval(extra)
          /\ Ahead(path, "gate", "validate")
        BY <1>1, <1>4, <2>1, OnAPath
    <2>3. Ahead(path, "gate", "materialize") /\ Ahead(path, "gate", "redact") /\ Ahead(path, "gate", "dispatch")
        BY <1>1, <1>2, <1>3, <2>2, AheadOfThat
    <2>4. ASSUME NEW i \in 1..at, path[i] \in {"validate", "materialize", "redact", "dispatch"} PROVE FALSE
        <3>1. i \in 1..Len(path)
            BY <1>1
        <3>2. PICK j \in 1..(i - 1) : path[j] = "gate"
            BY <2>2, <2>3, <2>4, <3>1 DEF Ahead, Passed
        <3>3. j \in 1..Len(path) /\ j < g
            BY <1>1, <3>1
        <3> QED BY <1>2, <1>4, <2>1, <3>2, <3>3
    <2> QED BY <2>2, <2>4
<1>5. ASSUME Gated
      PROVE  /\ ~Passed(path, at, "validate") /\ ~Passed(path, at, "materialize")
             /\ path # PostApproval(extra)
             /\ path[at] \notin {"validate", "materialize", "redact", "dispatch"}
    <2>1. PICK g \in at..Len(path) : path[g] = "gate"
        BY <1>5 DEF Gated
    <2>2. \A i \in 1..(at - 1) : i \in 1..at
        BY <1>1
    <2> QED BY <1>1, <1>4, <2>1, <2>2 DEF Passed
<1>6. ASSUME ~Gated, path # PostApproval(extra) PROVE Passed(path, at, "authorize")
    <2>1. Ahead(path, "authorize", "gate") /\ \E g \in 1..Len(path) : path[g] = "gate"
        BY <1>1, <1>6, OnAPath
    <2>2. PICK g \in 1..Len(path) : path[g] = "gate"
        BY <2>1
    <2>3. g < at
        BY <1>1, <1>6, <2>2 DEF Gated
    <2>4. PICK a \in 1..(g - 1) : path[a] = "authorize"
        BY <2>1, <2>2 DEF Ahead, Passed
    <2> QED BY <1>1, <2>3, <2>4 DEF Passed
<1>7. ASSUME path[at] = "gate" PROVE Gated /\ Passed(path, at, "authorize")
    <2>1. at \in at..Len(path)
        BY <1>1
    <2> QED BY <1>1, <1>4, <1>7, <2>1 DEF Gated, Ahead
<1>8. ASSUME path[at] = "validate" PROVE ~Passed(path, at, "validate") /\ ~Passed(path, at, "materialize")
    <2>1. ASSUME NEW i \in 1..(at - 1), path[i] = "validate" PROVE FALSE
        BY <1>1, <1>2, <1>8, <2>1
    <2>2. ASSUME NEW i \in 1..(at - 1), path[i] = "materialize" PROVE FALSE
        <3>1. i \in 1..Len(path)
            BY <1>1
        <3>2. PICK j \in 1..(i - 1) : path[j] = "validate"
            BY <1>2, <2>2, <3>1 DEF Ahead, Passed
        <3> QED BY <1>1, <2>1, <3>2
    <2> QED BY <2>1, <2>2 DEF Passed
<1>9. ASSUME path[at] = "materialize" PROVE Passed(path, at, "validate") /\ ~Passed(path, at, "materialize")
    <2>1. ASSUME NEW i \in 1..(at - 1), path[i] = "materialize" PROVE FALSE
        BY <1>1, <1>2, <1>9, <2>1
    <2> QED BY <1>1, <1>2, <1>9, <2>1 DEF Ahead, Passed
<1>10. ASSUME path[at] = "dispatch"
       PROVE  /\ Passed(path, at, "materialize") /\ at = Len(path)
              /\ \E i \in 1..(at - 1) : path[i] = "redact"
    BY <1>1, <1>2, <1>3, <1>10 DEF Ahead, Passed
<1>11. path[at] # "dispatch" => at + 1 \in 1..Len(path)
    BY <1>1, <1>2
<1>12. ~Passed(path, at, "dispatch")
    BY <1>1, <1>2 DEF Passed
<1> QED BY <1>5, <1>6, <1>7, <1>8, <1>9, <1>10, <1>11, <1>12

--------------------------------------------------------------------------------
(* A step on the way in.                                                    *)

\* The request goes on to the next step.
Moves == Sees /\ at' = at + 1 /\ UNCHANGED <<path, way, out, extra>>

LEMMA SeesAppends ==
    ASSUME Sequence(seen), Sees
    PROVE  /\ Len(seen) \in Nat /\ Sequence(seen') /\ Len(seen') = Len(seen) + 1
           /\ \A i \in 1..Len(seen) : seen'[i] = seen[i]
           /\ seen'[Len(seen) + 1] = [step |-> path[at], args |-> ctx.call.args, grant |-> ctx.grant]
<1> DEFINE new == [step |-> path[at], args |-> ctx.call.args, grant |-> ctx.grant]
           A == {seen[i] : i \in DOMAIN seen}
           B == A \cup {new}
<1>1. seen \in Seq(A) /\ seen' = Append(seen, new)
    BY DEF Sequence, Sees
<1>2. seen \in Seq(B) /\ new \in B
    BY <1>1, SeqMonotonic
<1> HIDE DEF new, A, B
<1>3. /\ seen' \in Seq(B) /\ Len(seen') = Len(seen) + 1 /\ Len(seen) \in Nat
      /\ \A i \in 1..Len(seen) : seen'[i] = seen[i]
      /\ seen'[Len(seen) + 1] = new
    BY <1>1, <1>2, AppendProperties
<1>4. Sequence(seen')
    <2>1. seen' \in [1..Len(seen') -> {seen'[i] : i \in DOMAIN seen'}] /\ Len(seen') \in Nat
        BY <1>3
    <2> QED BY <2>1, SeqDef DEF Sequence
<1> QED BY <1>3, <1>4 DEF new

LEMMA MovesOn ==
    ASSUME Travels, way = "in", path[at] # "dispatch", Moves
    PROVE  /\ Travels' /\ way' = "in"
           /\ Gated <=> path[at] = "gate" \/ Gated'
           /\ path[at] = "gate" => ~Gated'
           /\ \A x : Passed(path', at', x) <=> Passed(path, at, x) \/ path[at] = x
           /\ ~(Len(seen') > 0 /\ seen'[Len(seen')].step = "dispatch")
<1>1. /\ extra' = extra /\ path' = path /\ way' = "in" /\ at' = at + 1
      /\ at \in Nat /\ at > 0 /\ Len(path) \in Nat /\ at + 1 \in 1..Len(path) /\ path # <<>>
      /\ Len(seen) = at - 1 /\ \A i \in 1..Len(seen) : seen[i].step = path[i]
    <2>1. at \in 0..Len(path) /\ at > 0 /\ way # "new" /\ Len(seen) = at - 1
        BY DEF Travels
    <2> QED BY <2>1, OnAPath, Surroundings DEF Travels, Moves
<1>2. /\ Sequence(seen') /\ Len(seen') = at
      /\ \A i \in 1..(at - 1) : seen'[i] = seen[i]
      /\ seen'[at].step = path[at]
    <2>1. Sequence(seen) /\ Sees
        BY DEF Travels, Moves
    <2> QED BY <1>1, <2>1, SeesAppends
<1>3. \A i \in 1..at : seen'[i].step = path[i]
    BY <1>1, <1>2
<1>4. Travels'
    BY <1>1, <1>2, <1>3 DEF Travels
<1>5. Gated <=> path[at] = "gate" \/ Gated'
    BY <1>1 DEF Gated
<1>6. path[at] = "gate" => ~Gated'
    <2>1. \A i, j \in 1..Len(path) : path[i] = path[j] /\ path[i] = "gate" => i = j
        BY <1>1, OnAPath DEF Executing
    <2> QED BY <1>1, <2>1 DEF Gated
<1>7. \A x : Passed(path', at', x) <=> Passed(path, at, x) \/ path[at] = x
    BY <1>1 DEF Passed
<1> QED BY <1>1, <1>2, <1>4, <1>5, <1>6, <1>7

\* Approved is what the agent sent until a ticket is filed.
LEMMA ApprovedStays ==
    ASSUME Travels, Sees, UNCHANGED ticket
    PROVE  /\ ticket # None \/ seen # <<>> => Approved' = Approved
           /\ ticket = None /\ seen = <<>> => Approved' = ctx.call.args
<1>1. /\ Len(seen) \in Nat /\ Sequence(seen)
      /\ \A i \in 1..Len(seen) : seen'[i] = seen[i]
      /\ seen'[Len(seen) + 1] = [step |-> path[at], args |-> ctx.call.args, grant |-> ctx.grant]
    BY SeesAppends DEF Travels
<1>2. seen # <<>> => seen'[1] = seen[1]
    BY <1>1 DEF Sequence
<1>3. seen = <<>> => seen'[1].args = ctx.call.args
    BY <1>1
<1> QED BY <1>2, <1>3 DEF Approved

\* What is not about the arguments holds after any step that moves on.
LEMMA MoveKeeps ==
    ASSUME PipelineInv, way = "in", path[at] # "dispatch", Moves, UNCHANGED ticket,
           path[at] = "gate" => ticket = None \/ ticket.verdict = "approved"
    PROVE  Travels' /\ GateHolds' /\ Delivered' /\ Guarded'
<1>1. /\ Travels' /\ way' = "in"
      /\ Gated <=> path[at] = "gate" \/ Gated'
      /\ ~(Len(seen') > 0 /\ seen'[Len(seen')].step = "dispatch")
      /\ path[at] = "gate" => ~Gated'
    BY MovesOn DEF PipelineInv
<1>2. path' = path /\ extra' = extra /\ ticket' = ticket /\ way' = way /\ out' = out
    BY DEF Moves
<1>3. GateHolds'
    BY <1>1, <1>2 DEF PipelineInv, GateHolds
<1>4. Delivered'
    BY <1>1 DEF Delivered
<1>5. Guarded'
    BY <1>1, <1>2 DEF PipelineInv, Guarded
<1> QED BY <1>1, <1>3, <1>4, <1>5
\* A step that leaves what the call has, or adds to it: the limit, authorize,
\* redact and every extra step.
LEMMA StepKeeps ==
    ASSUME PipelineInv, way = "in", Moves, UNCHANGED ticket,
           path[at] \notin {"gate", "validate", "materialize", "dispatch"},
           Shape(ctx'), Kept(ctx.call.args, ctx'.call.args),
           ~Has(ctx.call.args, "reference") => ~Has(ctx'.call.args, "reference"),
           ctx.call \in Snapshots => ctx'.call \in Snapshots,
           ctx.grant # None \/ path[at] = "authorize" => ctx'.grant # None
    PROVE  PipelineInv'
<1>1. Travels' /\ GateHolds' /\ Delivered' /\ Guarded'
    BY MoveKeeps
<1>2. /\ Gated <=> Gated'
      /\ \A x : Passed(path', at', x) <=> Passed(path, at, x) \/ path[at] = x
      /\ way' = "in"
    BY MovesOn DEF PipelineInv
<1>3. /\ Passed(path', at', "validate") <=> Passed(path, at, "validate")
      /\ Passed(path', at', "materialize") <=> Passed(path, at, "materialize")
    BY <1>2
<1>4. /\ Shape(ctx)
      /\ Gated => ctx.call \in Snapshots
      /\ ~Gated \/ Passed(path, at, "authorize") => ctx.grant # None
      /\ Passed(path, at, "materialize") => Passed(path, at, "validate") /\ ~Has(ctx.call.args, "reference")
    BY DEF PipelineInv, Carries
<1>5. Travels /\ Sees /\ ticket' = ticket /\ seen' # <<>>
    <2>1. Travels /\ Sees
        BY DEF PipelineInv, Moves
    <2> QED BY <2>1, SeesAppends DEF Travels
<1>6. CASE Passed(path, at, "validate")
    <2>1. PICK v \in 1..Len(seen) :
             /\ Checked(v)
             /\ Kept(IF Passed(path, at, "materialize") THEN Resolved(seen[v].args) ELSE seen[v].args,
                     ctx.call.args)
        BY <1>6 DEF PipelineInv, Carries
    <2>2. /\ v \in 1..Len(seen') /\ seen'[v] = seen[v] /\ Approved' = Approved
        <3>1. Sequence(seen) /\ Len(seen) \in Nat /\ Len(seen') = Len(seen) + 1
              /\ \A i \in 1..Len(seen) : seen'[i] = seen[i]
            BY <1>5, SeesAppends DEF Travels
        <3>2. seen # <<>>
            BY <3>1
        <3> QED BY <1>5, <3>1, <3>2, ApprovedStays
    <2>3. Checked(v)'
        BY <2>1, <2>2 DEF Checked
    <2>4. Kept(IF Passed(path', at', "materialize") THEN Resolved(seen'[v].args) ELSE seen'[v].args,
               ctx'.call.args)
        BY <1>3, <2>1, <2>2, KeptIsAnOrder
    <2>5. Carries'
        BY <1>2, <1>3, <1>4, <1>6, <2>2, <2>3, <2>4 DEF Carries
    <2> QED BY <1>1, <2>5 DEF PipelineInv
<1>7. CASE ~Passed(path, at, "validate")
    <2>1. ASSUME ticket = None \/ (ticket # None /\ ~Gated) PROVE Kept(Approved', ctx'.call.args)
        <3>1. CASE ticket = None /\ seen = <<>>
            BY <1>5, <3>1, ApprovedStays
        <3>2. CASE ticket # None \/ seen # <<>>
            <4>1. Kept(Approved, ctx.call.args)
                BY <1>7, <2>1, <3>2 DEF PipelineInv, Carries
            <4>2. Approved' = Approved
                BY <1>5, <3>2, ApprovedStays
            <4> QED BY <4>1, <4>2, KeptIsAnOrder
        <3> QED BY <3>1, <3>2
    <2>2. Carries'
        BY <1>2, <1>3, <1>4, <1>5, <1>7, <2>1 DEF Carries
    <2> QED BY <1>1, <2>2 DEF PipelineInv
<1> QED BY <1>6, <1>7

\* The gate lets an approved call pass, with the edit of the operator if there
\* is one, or one that nobody has to be asked about.
LEMMA GateKeeps ==
    ASSUME PipelineInv, way = "in", Moves, UNCHANGED ticket, path[at] = "gate",
           \/ ticket = None /\ ctx' = ctx
           \/ /\ ticket # None /\ ticket.verdict = "approved"
              /\ ctx' = Adopt(ctx, ticket.edit)
    PROVE  PipelineInv'
<1>1. Travels' /\ GateHolds' /\ Delivered' /\ Guarded'
    BY MoveKeeps
<1>2. /\ Gated /\ ~Gated' /\ Passed(path, at, "authorize")
      /\ ~Passed(path', at', "validate") /\ ~Passed(path', at', "materialize") /\ way' = "in"
    BY MovesOn, Surroundings DEF PipelineInv
<1>3. Shape(ctx) /\ ctx.grant # None /\ Travels /\ Sees /\ ticket' = ticket
    BY <1>2 DEF PipelineInv, Carries, Moves
<1>4. CASE ticket = None /\ ctx' = ctx
    <2>1. Kept(Approved', ctx'.call.args)
        <3>1. CASE seen = <<>>
            BY <1>3, <1>4, <3>1, ApprovedStays, KeptIsAnOrder
        <3>2. CASE seen # <<>>
            <4>1. ~Passed(path, at, "validate")
                BY <1>2, Surroundings DEF PipelineInv
            <4>2. Kept(Approved, ctx.call.args)
                BY <1>4, <3>2, <4>1 DEF PipelineInv, Carries
            <4> QED BY <1>3, <1>4, <3>2, <4>2, ApprovedStays
        <3> QED BY <3>1, <3>2
    <2>2. Carries'
        BY <1>2, <1>3, <1>4, <2>1 DEF Carries
    <2> QED BY <1>1, <2>2 DEF PipelineInv
<1>5. CASE ticket # None /\ ctx' = Adopt(ctx, ticket.edit)
    <2>1. ctx.call = ticket.call /\ ticket.edit \in Edits \cup {None}
        BY <1>2, <1>5 DEF PipelineInv, GateHolds, Tickets
    <2>2. /\ Shape(ctx') /\ ctx'.grant = ctx.grant
          /\ ctx'.call.args = IF ticket.edit = None THEN ctx.call.args ELSE ticket.edit
        BY <1>3, <1>5, <2>1, AdoptShape
    <2>3. Approved' = ctx'.call.args
        BY <1>3, <1>5, <2>1, <2>2 DEF Approved
    <2>4. Carries'
        BY <1>2, <1>3, <2>2, <2>3, KeptIsAnOrder DEF Carries
    <2> QED BY <1>1, <2>4 DEF PipelineInv
<1> QED BY <1>4, <1>5

\* The arguments are validated under the grant of the execution.
LEMMA ValidateKeeps ==
    ASSUME PipelineInv, way = "in", Moves, UNCHANGED ticket, path[at] = "validate", ctx' = ctx,
           ctx.grant = None \/ Accepts(ctx.grant.schema, ctx.call.args)
    PROVE  PipelineInv'
<1>1. Travels' /\ GateHolds' /\ Delivered' /\ Guarded'
    BY MoveKeeps
<1>2. /\ ~Gated /\ ~Gated' /\ ~Passed(path, at, "validate")
      /\ Passed(path', at', "validate") /\ ~Passed(path', at', "materialize") /\ way' = "in"
    BY MovesOn, Surroundings DEF PipelineInv
<1>3. Shape(ctx) /\ ctx.grant # None /\ Travels /\ Sees /\ ticket' = ticket
    BY <1>2 DEF PipelineInv, Carries, Moves
<1>4. Kept(Approved', ctx.call.args)
    <2>1. CASE ticket = None /\ seen = <<>>
        BY <1>3, <2>1, ApprovedStays, KeptIsAnOrder
    <2>2. CASE ticket # None \/ seen # <<>>
        <3>1. Kept(Approved, ctx.call.args)
            BY <1>2, <2>2 DEF PipelineInv, Carries
        <3> QED BY <1>3, <2>2, <3>1, ApprovedStays
    <2> QED BY <2>1, <2>2
<1>5. PICK v \in 1..Len(seen') :
         seen'[v] = [step |-> "validate", args |-> ctx.call.args, grant |-> ctx.grant]
    <2>1. Len(seen) + 1 \in 1..Len(seen')
        BY <1>3, SeesAppends DEF Travels
    <2> QED BY <1>3, <2>1, SeesAppends DEF Travels
<1>6. Checked(v)'
    BY <1>3, <1>4, <1>5 DEF Checked, Shape
<1>7. Kept(IF Passed(path', at', "materialize") THEN Resolved(seen'[v].args) ELSE seen'[v].args,
           ctx'.call.args)
    BY <1>2, <1>5, KeptIsAnOrder
<1>8. Carries'
    BY <1>2, <1>3, <1>6, <1>7 DEF Carries
<1> QED BY <1>1, <1>8 DEF PipelineInv

\* The references of the validated arguments are resolved, and no others.
LEMMA MaterializeKeeps ==
    ASSUME PipelineInv, way = "in", Moves, UNCHANGED ticket, path[at] = "materialize",
           ctx' = [ctx EXCEPT !.call.args = Resolved(@)]
    PROVE  PipelineInv'
<1>1. Travels' /\ GateHolds' /\ Delivered' /\ Guarded'
    BY MoveKeeps
<1>2. /\ ~Gated /\ ~Gated' /\ Passed(path, at, "validate") /\ ~Passed(path, at, "materialize")
      /\ Passed(path', at', "validate") /\ Passed(path', at', "materialize") /\ way' = "in"
    BY MovesOn, Surroundings DEF PipelineInv
<1>3. Shape(ctx) /\ ctx.grant # None /\ Travels /\ Sees /\ ticket' = ticket
    BY <1>2 DEF PipelineInv, Carries, Moves
<1>4. /\ Shape(ctx') /\ ctx'.grant = ctx.grant /\ ctx'.call.args = Resolved(ctx.call.args)
      /\ ~Has(ctx'.call.args, "reference")
    BY <1>3, ResolvedShape, ResolvedKeeps DEF Shape
<1>5. PICK v \in 1..Len(seen) : Checked(v) /\ Kept(seen[v].args, ctx.call.args)
    BY <1>2 DEF PipelineInv, Carries
<1>6. Kept(Resolved(seen[v].args), ctx'.call.args)
    BY <1>3, <1>4, <1>5, ResolvedKeeps DEF Shape
<1>7. v \in 1..Len(seen') /\ seen'[v] = seen[v] /\ Approved' = Approved
    <2>1. Sequence(seen) /\ Len(seen) \in Nat /\ Len(seen') = Len(seen) + 1
          /\ \A i \in 1..Len(seen) : seen'[i] = seen[i]
        BY <1>3, SeesAppends DEF Travels
    <2>2. seen # <<>>
        BY <2>1
    <2> QED BY <1>3, <2>1, <2>2, ApprovedStays
<1>8. Checked(v)'
    BY <1>5, <1>7 DEF Checked
<1>9. Kept(IF Passed(path', at', "materialize") THEN Resolved(seen'[v].args) ELSE seen'[v].args,
           ctx'.call.args)
    BY <1>2, <1>6, <1>7
<1>10. Carries'
    BY <1>2, <1>3, <1>4, <1>7, <1>8, <1>9 DEF Carries
<1> QED BY <1>1, <1>10 DEF PipelineInv

\* A step answers: only the dispatch with what may repeat a secret, and the
\* redact step is then still to come on the way out.
LEMMA ReturnKeeps ==
    ASSUME PipelineInv, way = "in", Return(out'), out' \in Answers,
           path[at] # "dispatch" => out'.content # "secret",
           path[at] # "gate" => ticket' = ticket, ticket' \in Tickets \cup {None},
           ticket # None => ticket' # None /\ ticket'.result = ticket.result,
           ticket = None => ticket' = None \/ ticket'.result = None
    PROVE  PipelineInv'
<1>1. /\ Travels /\ Sees /\ at \in Nat /\ Len(path) \in Nat /\ at \in 1..Len(path) /\ Len(seen) = at - 1
      /\ at' = at - 1 /\ way' = "out" /\ path' = path /\ extra' = extra
    <2>1. Travels /\ at \in 0..Len(path) /\ at > 0 /\ Len(seen) = at - 1
        BY DEF PipelineInv, Travels
    <2> QED BY <2>1, OnAPath DEF Return
<1>2. /\ Sequence(seen') /\ Len(seen') = at
      /\ \A i \in 1..(at - 1) : seen'[i] = seen[i]
      /\ seen'[at] = [step |-> path[at], args |-> ctx.call.args, grant |-> ctx.grant]
    BY <1>1, SeesAppends DEF Travels
<1>3. Travels'
    <2>1. \A i \in 1..at : seen'[i].step = path[i]
        BY <1>1, <1>2 DEF Travels
    <2>2. path # <<>>
        BY <1>1
    <2> QED BY <1>1, <1>2, <2>1, <2>2 DEF Travels
<1>4. /\ Gated => path # PostApproval(extra) /\ path[at] # "dispatch"
      /\ path[at] = "gate" => Gated
      /\ path[at] = "dispatch" => Passed(path, at, "materialize") /\ \E i \in 1..(at - 1) : path[i] = "redact"
    BY <1>1, Surroundings
<1>5. GateHolds'
    <2>1. ticket' # ticket => path # PostApproval(extra)
        BY <1>4
    <2> QED BY <1>1, <2>1 DEF PipelineInv, GateHolds
<1>6. Carries'
    BY <1>1 DEF Carries
<1>7. Guarded'
    <2>1. out'.content = "secret" => path[at] = "dispatch" /\ seen'[Len(seen')].step = "dispatch"
        BY <1>1, <1>2
    <2>2. Leaks(out') => \E i \in 1..at' : path'[i] = "redact"
        BY <1>1, <1>4, <2>1 DEF Leaks
    <2>3. ticket' # None /\ ticket'.result # None => ~Leaks(ticket'.result)
        BY DEF PipelineInv, Guarded
    <2>4. /\ Leaks(out)' <=> Leaks(out')
          /\ Leaks(ticket.result)' <=> Leaks(ticket'.result)
        BY DEF Leaks
    <2> QED BY <1>1, <2>1, <2>2, <2>3, <2>4 DEF Guarded
<1>8. ASSUME path[at] = "dispatch" PROVE (ticket' # None => ticket'.verdict = "approved") /\ UpstreamGetsWhatWasChecked'
    <2>1. ticket' = ticket /\ ~Gated /\ Passed(path, at, "materialize")
        BY <1>4, <1>8
    <2>2. Passed(path, at, "validate") /\ ~Has(ctx.call.args, "reference")
        BY <2>1 DEF PipelineInv, Carries
    <2>3. PICK v \in 1..Len(seen) : Checked(v) /\ Kept(Resolved(seen[v].args), ctx.call.args)
        BY <2>1, <2>2 DEF PipelineInv, Carries
    <2>4. v \in 1..Len(seen') /\ seen'[v] = seen[v] /\ Approved' = Approved
        <3>1. seen # <<>>
            BY <1>1
        <3> QED BY <1>1, <1>2, <2>1, <3>1, ApprovedStays
    <2>5. seen'[Len(seen')].args = ctx.call.args
        BY <1>2
    <2>6. /\ seen'[v].step = "validate"
          /\ seen'[v].grant # None /\ Accepts(seen'[v].grant.schema, seen'[v].args)
          /\ Kept(Approved', seen'[v].args) /\ Kept(Resolved(seen'[v].args), seen'[Len(seen')].args)
          /\ ~Has(seen'[Len(seen')].args, "reference")
        BY <2>2, <2>3, <2>4, <2>5 DEF Checked
    <2>7. UpstreamGetsWhatWasChecked'
        BY <2>4, <2>6 DEF UpstreamGetsWhatWasChecked
    <2>8. ticket # None => ticket.verdict = "approved"
        BY <2>1 DEF PipelineInv, GateHolds
    <2> QED BY <2>1, <2>7, <2>8
<1>9. Delivered'
    <2>1. Len(seen') > 0 /\ seen'[Len(seen')].step = path[at]
        BY <1>1, <1>2
    <2> QED BY <1>8, <2>1 DEF Delivered
<1> QED BY <1>3, <1>5, <1>6, <1>7, <1>9 DEF PipelineInv

--------------------------------------------------------------------------------
(* A request begins.                                                        *)

LEMMA BeginTravels ==
    ASSUME PipelineInv, NEW steps \in {Full(extra), PostApproval(extra)}, NEW c, Begin(steps, c)
    PROVE  /\ Travels' /\ Delivered' /\ way' = "in" /\ at' = 1 /\ seen' = <<>> /\ ctx' = c
           /\ path' = steps /\ extra' = extra /\ extra \in Extras
           /\ \A x : ~Passed(path', at', x)
           /\ Gated' <=> steps # PostApproval(extra)
<1>1. /\ path' = steps /\ at' = 1 /\ way' = "in" /\ ctx' = c /\ seen' = <<>> /\ extra' = extra
      /\ extra \in Extras
    BY DEF Begin, PipelineInv, Travels
<1>2. Executing(steps)
    BY <1>1, FullPath, ResumePath
<1>3. Len(steps) \in Nat /\ Len(steps) > 0 /\ steps # <<>>
    BY <1>2 DEF Executing
<1>4. Sequence(<<>>)
    BY DEF Sequence
<1>5. Travels'
    BY <1>1, <1>3, <1>4 DEF Travels
<1>6. Delivered'
    BY <1>1 DEF Delivered
<1>7. \A x : ~Passed(path', at', x)
    BY <1>1 DEF Passed
<1>8. Gated' <=> steps # PostApproval(extra)
    <2>1. \A i \in 1..Len(PostApproval(extra)) : PostApproval(extra)[i] # "gate"
        BY <1>1, ResumePath DEF BuiltInNames
    <2>2. \E g \in 1..Len(Full(extra)) : Full(extra)[g] = "gate"
        BY <1>1, FullPath
    <2> QED BY <1>1, <2>1, <2>2 DEF Gated
<1> QED BY <1>1, <1>5, <1>6, <1>7, <1>8

LEMMA ArriveKeeps ==
    ASSUME PipelineInv, NEW call \in Requests, NEW block \in BOOLEAN, Arrive(call, block)
    PROVE  PipelineInv'
<1> DEFINE c == [call |-> call, grant |-> None, block |-> block, note |-> FALSE]
<1>1. way = "new" /\ Begin(Full(extra), c) /\ ticket' = ticket /\ ticket = None
    BY DEF Arrive, PipelineInv, GateHolds
<1>2. Shape(c) /\ c.call = call
    <2>1. "args" \in DOMAIN call /\ Sane(call.args)
        BY RequestsArePlain, PlainIsSane
    <2> QED BY <2>1 DEF Shape
<1> HIDE DEF c
<1>3. /\ Travels' /\ Delivered' /\ way' = "in" /\ seen' = <<>> /\ ctx' = c
      /\ path' = Full(extra) /\ extra' = extra /\ extra \in Extras
      /\ \A x : ~Passed(path', at', x)
      /\ Gated' <=> Full(extra) # PostApproval(extra)
    BY <1>1, BeginTravels
<1>4. Full(extra) # PostApproval(extra)
    BY <1>3, FullPath, ResumePath DEF BuiltInNames
<1>5. GateHolds'
    BY <1>1, <1>3, <1>4 DEF GateHolds
<1>6. call \in Snapshots
    BY DEF Snapshots
<1>7. Carries'
    BY <1>1, <1>2, <1>3, <1>4, <1>6 DEF Carries
<1>8. Guarded'
    BY <1>1, <1>3 DEF Guarded
<1> QED BY <1>3, <1>5, <1>7, <1>8 DEF PipelineInv

LEMMA ResumeKeeps ==
    ASSUME PipelineInv, Resume
    PROVE  PipelineInv'
<1> DEFINE grant == GrantFor(policy, ticket.call)
           c == [call |-> ticket.call, grant |-> grant, block |-> TRUE, note |-> FALSE]
           d == Adopt(c, ticket.edit)
<1>1. /\ ticket # None /\ ticket.verdict = "approved" /\ ticket.result = None /\ grant # None
      /\ Begin(PostApproval(extra), d) /\ ticket' = ticket
    BY DEF Resume, Unshared
<1>2. ticket \in Tickets /\ ticket.call \in Snapshots /\ ticket.edit \in Edits \cup {None}
    BY <1>1 DEF PipelineInv, GateHolds, Tickets
<1>3. Shape(c)
    <2>1. "args" \in DOMAIN ticket.call /\ Sane(ticket.call.args)
        BY <1>2, SnapshotsArePlain
    <2> QED BY <2>1 DEF Shape
<1>4. /\ Shape(d) /\ d.grant = grant
      /\ d.call.args = IF ticket.edit = None THEN ticket.call.args ELSE ticket.edit
    <2>1. c.grant = grant /\ c.call = ticket.call
        OBVIOUS
    <2> HIDE DEF c
    <2> QED BY <1>2, <1>3, <2>1, AdoptShape
<1> HIDE DEF grant, c, d
<1>5. /\ Travels' /\ Delivered' /\ way' = "in" /\ seen' = <<>> /\ ctx' = d
      /\ path' = PostApproval(extra) /\ extra' = extra
      /\ \A x : ~Passed(path', at', x)
      /\ ~Gated'
    BY <1>1, BeginTravels
<1>6. GateHolds'
    BY <1>1, <1>2, <1>5 DEF GateHolds
<1>7. Approved' = ctx'.call.args
    BY <1>1, <1>4, <1>5 DEF Approved
<1>8. Carries'
    BY <1>1, <1>4, <1>5, <1>7, KeptIsAnOrder DEF Carries
<1>9. Guarded'
    BY <1>1, <1>5 DEF Guarded
<1> QED BY <1>5, <1>6, <1>8, <1>9 DEF PipelineInv

--------------------------------------------------------------------------------
(* The way out, and what happens to the ticket meanwhile.                   *)

\* A ticket without a secret in its result, with the same call and edit, and a
\* verdict that is not taken back.
Settled == /\ ticket' \in Tickets \cup {None}
           /\ ticket = None => ticket' = None
           /\ ticket # None => /\ ticket' # None /\ ticket'.call = ticket.call /\ ticket'.edit = ticket.edit
                               /\ ticket'.verdict = ticket.verdict
           /\ ticket' # None /\ ticket'.result # None => ~Leaks(ticket'.result)

LEMMA SettledKeeps ==
    ASSUME PipelineInv, Settled, UNCHANGED <<path, seen, extra>>,
           way \in {"out", "idle"}, way' \in {"out", "idle"}
    PROVE  GateHolds' /\ Carries' /\ Delivered'
<1>1. GateHolds'
    BY DEF PipelineInv, GateHolds, Settled, Travels
<1>2. Carries'
    BY DEF Carries
<1>3. \/ (ticket' # None => ticket'.verdict = "approved") /\ UpstreamGetsWhatWasChecked'
      \/ ~(Len(seen) > 0 /\ seen[Len(seen)].step = "dispatch")
    <2>1. Approved' = Approved
        BY DEF Approved, Settled
    <2> QED BY <2>1 DEF PipelineInv, Delivered, UpstreamGetsWhatWasChecked, Settled
<1>4. Delivered'
    BY <1>3 DEF Delivered
<1> QED BY <1>1, <1>2, <1>4

LEMMA FailedIsSafe ==
    /\ Failed \in Answers /\ Waiting \in Answers
    /\ Failed.content # "secret" /\ Waiting.content # "secret"
    /\ ~Leaks(Failed) /\ ~Leaks(Waiting)
BY NoneIsNoData DEF Failed, Error, Waiting, Answers, Contents, Leaks

\* Back past one step.
LEMMA BackKeeps ==
    ASSUME PipelineInv, way = "out", at > 0, Back(out'), Settled, out' \in Answers,
           Leaks(out') => Leaks(out) /\ path[at] # "redact",
           out'.content = "secret" => out.content = "secret"
    PROVE  PipelineInv'
<1>1. /\ at \in Nat /\ Len(path) \in Nat /\ at' = at - 1 /\ way' = "out" /\ path' = path
      /\ seen' = seen /\ extra' = extra
    <2>1. Travels
        BY DEF PipelineInv
    <2> QED BY <2>1, OnAPath DEF Back
<1>2. Travels'
    BY <1>1 DEF PipelineInv, Travels
<1>3. GateHolds' /\ Carries' /\ Delivered'
    BY <1>1, SettledKeeps
<1>4. Guarded'
    <2>1. ASSUME Leaks(out') PROVE \E i \in 1..(at - 1) : path[i] = "redact"
        <3>1. PICK i \in 1..at : path[i] = "redact"
            BY <2>1 DEF PipelineInv, Guarded
        <3>2. i # at
            BY <2>1, <3>1
        <3> QED BY <1>1, <3>1, <3>2
    <2>2. Leaks(out)' <=> Leaks(out')
        BY DEF Leaks
    <2>3. Leaks(ticket.result)' <=> Leaks(ticket'.result)
        BY DEF Leaks
    <2> QED BY <1>1, <2>1, <2>2, <2>3 DEF PipelineInv, Guarded, Settled
<1> QED BY <1>2, <1>3, <1>4 DEF PipelineInv

\* At the gate what repeats a secret is stopped already: the gate comes before
\* the redact step, so the answer has been there.
LEMMA GateSeesNoSecret ==
    ASSUME PipelineInv, way = "out", at > 0, path[at] = "gate"
    PROVE  ~Leaks(out)
<1>1. /\ Travels /\ Executing(path) /\ Len(path) \in Nat /\ at \in 1..Len(path)
    <2>1. Travels /\ at \in 0..Len(path)
        BY DEF PipelineInv, Travels
    <2> QED BY <2>1, OnAPath
<1>2. Ahead(path, "gate", "validate")
    BY <1>1, OnAPath
<1>3. Ahead(path, "gate", "redact")
    <2>1. Ahead(path, "gate", "materialize")
        BY <1>1, <1>2, AheadOfThat DEF Executing
    <2> QED BY <1>1, <2>1, AheadOfThat DEF Executing
<1> SUFFICES ASSUME Leaks(out) PROVE FALSE
    OBVIOUS
<1>4. PICK r \in 1..at : path[r] = "redact"
    BY DEF PipelineInv, Guarded
<1>5. r \in 1..Len(path)
    BY <1>1
<1>6. PICK g \in 1..(r - 1) : path[g] = "gate"
    BY <1>3, <1>4, <1>5 DEF Ahead, Passed
<1>7. g \in 1..Len(path) /\ g < at
    BY <1>1, <1>5
<1> QED BY <1>1, <1>6, <1>7 DEF Executing

--------------------------------------------------------------------------------
(* Every step keeps the invariant.                                          *)

\* The operator decides: the ticket is pending, so its call waits in the gate
\* or went back from it.
LEMMA DecideKeeps ==
    ASSUME PipelineInv, NEW verdict \in {"approved", "rejected"}, NEW edit \in Edits \cup {None},
           Decide(verdict, edit)
    PROVE  PipelineInv'
<1>1. /\ ticket # None /\ ticket.verdict = "pending" /\ ticket \in Tickets
      /\ ticket' = [ticket EXCEPT !.verdict = verdict, !.edit = edit]
      /\ path' = path /\ at' = at /\ way' = way /\ ctx' = ctx /\ out' = out /\ seen' = seen /\ extra' = extra
    BY DEF Decide, PipelineInv, GateHolds, request
<1>2. /\ ticket' \in Tickets /\ ticket' # None
      /\ ticket'.call = ticket.call /\ ticket'.result = ticket.result
    BY <1>1, NoneIsNoData DEF Tickets
<1>3. Travels'
    BY <1>1 DEF PipelineInv, Travels
<1>4. Gated' <=> Gated
    BY <1>1 DEF Gated
<1>5. path # PostApproval(extra) /\ (way = "in" => Gated)
    BY <1>1 DEF PipelineInv, GateHolds
<1>6. GateHolds'
    BY <1>1, <1>2, <1>4, <1>5 DEF PipelineInv, GateHolds
<1>7. Carries'
    <2>1. way = "in" => ~Passed(path, at, "validate")
        BY <1>5, Surroundings DEF PipelineInv
    <2> QED BY <1>1, <1>2, <1>4, <1>5, <2>1 DEF PipelineInv, Carries
<1>8. Delivered'
    <2>1. ~(Len(seen) > 0 /\ seen[Len(seen)].step = "dispatch")
        BY <1>1 DEF PipelineInv, Delivered
    <2> QED BY <1>1, <2>1 DEF Delivered
<1>9. Guarded'
    BY <1>1, <1>2 DEF PipelineInv, Guarded
<1> QED BY <1>3, <1>6, <1>7, <1>8, <1>9 DEF PipelineInv

\* The gate files the call as the agent sent it, or as it is tagged.
LEMMA FileKeeps ==
    ASSUME PipelineInv, GateFiles
    PROVE  PipelineInv'
<1>1. /\ way = "in" /\ path[at] = "gate" /\ ctx.grant.mode # "auto" /\ ticket = None
      /\ ticket' = [call |-> ctx.call, verdict |-> "pending", edit |-> None, result |-> None]
      /\ \/ Return(Waiting)
         \/ UNCHANGED <<request, extra, vars>>
    BY DEF GateFiles, On
<1>2. Gated
    BY <1>1, Surroundings DEF PipelineInv
<1>3. ctx.call \in Snapshots
    BY <1>1, <1>2 DEF PipelineInv, Carries
<1>4. ticket' \in Tickets /\ ticket' # None /\ ticket'.result = None /\ ticket'.call = ctx.call
    BY <1>1, <1>3, NoneIsNoData DEF Tickets
<1>5. CASE Return(Waiting)
    <2>1. Return(out') /\ out' = Waiting
        BY <1>5 DEF Return
    <2> QED BY <1>1, <1>4, <2>1, FailedIsSafe, ReturnKeeps
<1>6. CASE UNCHANGED <<request, extra, vars>>
    <2>1. path' = path /\ at' = at /\ way' = way /\ ctx' = ctx /\ out' = out /\ seen' = seen /\ extra' = extra
        BY <1>6 DEF request
    <2>2. Gated' /\ path # PostApproval(extra) /\ ~Passed(path, at, "validate")
        BY <1>1, <1>2, <2>1, Surroundings DEF Gated, PipelineInv
    <2>3. Travels'
        BY <1>1, <2>1 DEF PipelineInv, Travels
    <2>4. GateHolds'
        BY <1>1, <1>4, <2>1, <2>2 DEF GateHolds
    <2>5. Carries'
        BY <1>1, <1>2, <1>4, <2>1, <2>2 DEF PipelineInv, Carries
    <2>6. Delivered'
        <3>1. ~Passed(path, at, "dispatch") /\ Travels
            BY <1>1, Surroundings DEF PipelineInv
        <3>2. Len(seen) > 0 => path[Len(seen)] # "dispatch"
            <4>1. Len(seen) = at - 1 /\ at \in Nat
                BY <1>1, <3>1, OnAPath DEF Travels
            <4> QED BY <3>1, <4>1 DEF Passed
        <3>3. Len(seen) > 0 => seen[Len(seen)].step = path[Len(seen)]
            <4>1. Len(seen) \in Nat
                BY <3>1 DEF Travels, Sequence
            <4> QED BY <3>1, <4>1 DEF Travels
        <3> QED BY <2>1, <3>2, <3>3 DEF Delivered
    <2>7. Guarded'
        BY <1>1, <1>4, <2>1 DEF Guarded
    <2> QED BY <2>3, <2>4, <2>5, <2>6, <2>7 DEF PipelineInv
<1> QED BY <1>1, <1>5, <1>6

LEMMA AnswerKeeps ==
    ASSUME PipelineInv, Answer
    PROVE  PipelineInv'
<1>1. /\ way = "out" /\ at = 0 /\ way' = "idle"
      /\ ticket' = IF path = PostApproval(extra) THEN Completed ELSE ticket
      /\ path' = path /\ at' = at /\ out' = out /\ seen' = seen /\ extra' = extra
    BY DEF Answer
<1>2. out \in Answers /\ ~Leaks(out)
    BY <1>1 DEF PipelineInv, Guarded
<1>3. Settled
    <2>1. CASE path = PostApproval(extra)
        <3>1. ticket \in Tickets /\ ticket # None
            BY <2>1 DEF PipelineInv, GateHolds
        <3> QED BY <1>1, <1>2, <2>1, <3>1, NoneIsNoData DEF Settled, Completed, Tickets
    <2>2. CASE path # PostApproval(extra)
        BY <1>1, <2>2 DEF Settled, PipelineInv, GateHolds, Guarded
    <2> QED BY <2>1, <2>2
<1>4. Travels'
    BY <1>1 DEF PipelineInv, Travels
<1>5. GateHolds' /\ Carries' /\ Delivered'
    BY <1>1, <1>3, SettledKeeps
<1>6. Guarded'
    <2>1. out.content = "secret" => seen[Len(seen)].step = "dispatch"
        BY <1>1 DEF PipelineInv, Guarded
    <2>2. /\ Leaks(out)' <=> Leaks(out')
          /\ Leaks(ticket.result)' <=> Leaks(ticket'.result)
        BY DEF Leaks
    <2> QED BY <1>1, <1>2, <1>3, <2>1, <2>2 DEF Guarded, Settled
<1> QED BY <1>4, <1>5, <1>6 DEF PipelineInv

LEMMA UnchangedKeeps ==
    ASSUME PipelineInv, UNCHANGED <<extra, ticket, request>>
    PROVE  PipelineInv'
<1>1. /\ path' = path /\ at' = at /\ way' = way /\ ctx' = ctx /\ out' = out /\ seen' = seen
      /\ extra' = extra /\ ticket' = ticket
    BY DEF request
<1>2. Gated' <=> Gated
    BY <1>1 DEF Gated
<1>3. Approved' = Approved
    BY <1>1 DEF Approved
<1>4. Travels'
    BY <1>1 DEF PipelineInv, Travels
<1>5. GateHolds'
    BY <1>1, <1>2 DEF PipelineInv, GateHolds
<1>6. Carries'
    <2>1. \A v : Checked(v) <=> Checked(v)'
        BY <1>1, <1>3 DEF Checked
    <2> QED BY <1>1, <1>2, <1>3, <2>1 DEF PipelineInv, Carries
<1>7. Delivered'
    BY <1>1, <1>3 DEF PipelineInv, Delivered, UpstreamGetsWhatWasChecked
<1>8. Guarded'
    BY <1>1 DEF PipelineInv, Guarded
<1> QED BY <1>4, <1>5, <1>6, <1>7, <1>8 DEF PipelineInv

\* Without a ticket of its own a step goes on or fails.
LEMMA FailKeeps ==
    ASSUME PipelineInv, way = "in", Return(Failed), UNCHANGED ticket
    PROVE  PipelineInv'
<1>1. Return(out') /\ out' = Failed
    BY DEF Return
<1>2. ticket \in Tickets \cup {None}
    BY DEF PipelineInv, GateHolds
<1> QED BY <1>1, <1>2, FailedIsSafe, ReturnKeeps

LEMMA ProceedMoves ==
    ASSUME NEW c, Proceed(c)
    PROVE  Moves /\ ctx' = c
BY DEF Proceed, Moves

LEMMA ChangesMoves ==
    ASSUME NEW c, Changes(c)
    PROVE  Moves /\ ctx' = c /\ UNCHANGED ticket
BY DEF Changes, Unshared, Proceed, Moves

LEMMA PassKeeps ==
    ASSUME PipelineInv, way = "in", Proceed(ctx), UNCHANGED ticket,
           path[at] \notin {"gate", "validate", "materialize", "dispatch", "authorize"}
    PROVE  PipelineInv'
<1>1. Moves /\ ctx' = ctx
    BY ProceedMoves
<1>2. Shape(ctx)
    BY DEF PipelineInv, Carries
<1> QED BY <1>1, <1>2, StepKeeps, KeptIsAnOrder

LEMMA StartIsSound == PipelineInit => PipelineInv
<1> SUFFICES ASSUME PipelineInit PROVE PipelineInv
    OBVIOUS
<1>1. /\ extra \in Extras /\ path = <<>> /\ at = 0 /\ way = "new" /\ ticket = None /\ seen = <<>>
    BY DEF PipelineInit
<1>2. Executing(Full(extra)) /\ Executing(PostApproval(extra))
    BY <1>1, FullPath, ResumePath
<1>3. PostApproval(extra) # <<>>
    BY <1>2 DEF Executing
<1>4. Sequence(<<>>)
    BY DEF Sequence
<1>5. Travels
    BY <1>1, <1>4 DEF Travels
<1>6. GateHolds /\ Carries /\ Delivered /\ Guarded
    BY <1>1, <1>3 DEF GateHolds, Carries, Delivered, Guarded
<1> QED BY <1>5, <1>6 DEF PipelineInv

LEMMA InwardKeeps ==
    ASSUME PipelineInv,
           Limit \/ Authorize \/ Validate \/ Materialize \/ Redact \/ Quota \/ Tagger \/ Dispatch
    PROVE  PipelineInv'
<1>1. CASE Limit
    BY <1>1, PassKeeps, FailKeeps DEF Limit, On
<1>2. CASE Authorize
    <2> DEFINE grant == GrantFor(policy, ctx.call)
    <2>1. way = "in" /\ path[at] = "authorize" /\ UNCHANGED ticket
        BY <1>2 DEF Authorize, On
    <2>2. CASE grant = None
        <3>1. Return(Failed)
            BY <1>2, <2>2 DEF Authorize
        <3> QED BY <2>1, <3>1, FailKeeps
    <2>3. CASE grant # None
        <3>1. Proceed([ctx EXCEPT !.grant = grant])
            BY <1>2, <2>3 DEF Authorize
        <3>2. Moves /\ ctx' = [ctx EXCEPT !.grant = grant]
            BY <3>1, ProceedMoves
        <3>3. Shape(ctx)
            BY <2>1 DEF PipelineInv, Carries
        <3> HIDE DEF grant
        <3>4. Shape(ctx') /\ ctx'.grant = grant /\ ctx'.call = ctx.call
            BY <3>2, <3>3 DEF Shape
        <3> QED BY <2>1, <2>3, <3>2, <3>4, StepKeeps, KeptIsAnOrder
    <2> QED BY <2>2, <2>3
<1>3. CASE Validate
    <2>1. way = "in" /\ path[at] = "validate" /\ UNCHANGED ticket
        BY <1>3 DEF Validate, On
    <2>2. CASE ctx.grant # None /\ ~Accepts(ctx.grant.schema, ctx.call.args)
        <3>1. Return(Failed)
            BY <1>3, <2>2 DEF Validate
        <3> QED BY <2>1, <3>1, FailKeeps
    <2>3. CASE ctx.grant = None \/ Accepts(ctx.grant.schema, ctx.call.args)
        <3>1. Proceed(ctx)
            BY <1>3, <2>3 DEF Validate
        <3>2. Moves /\ ctx' = ctx
            BY <3>1, ProceedMoves
        <3> QED BY <2>1, <2>3, <3>2, ValidateKeeps
    <2> QED BY <2>2, <2>3
<1>4. CASE Materialize
    <2>1. way = "in" /\ path[at] = "materialize"
        BY <1>4 DEF Materialize, On
    <2>2. CASE Return(Failed) /\ UNCHANGED ticket
        BY <2>1, <2>2, FailKeeps
    <2>3. CASE Changes([ctx EXCEPT !.call.args = Resolved(@)])
        <3>1. Moves /\ ctx' = [ctx EXCEPT !.call.args = Resolved(@)] /\ UNCHANGED ticket
            BY <2>3, ChangesMoves
        <3> QED BY <2>1, <3>1, MaterializeKeeps
    <2> QED BY <1>4, <2>2, <2>3 DEF Materialize
<1>5. CASE Redact \/ Quota
    BY <1>5, PassKeeps, FailKeeps DEF Redact, Quota, On
<1>6. CASE Tagger
    <2>1. way = "in" /\ path[at] = "tagger"
        BY <1>6 DEF Tagger, On
    <2>2. Moves /\ ctx' = [ctx EXCEPT !.call.args = Tagged(@)] /\ UNCHANGED ticket
        BY <1>6, ChangesMoves DEF Tagger
    <2>3. Shape(ctx)
        BY <2>1 DEF PipelineInv, Carries
    <2>4. /\ Shape(ctx') /\ ctx'.grant = ctx.grant
          /\ ctx'.call = [ctx.call EXCEPT !.args = Tagged(@)] /\ ctx'.call.args = Tagged(ctx.call.args)
        BY <2>2, <2>3, TaggedShape
    <2>5. /\ Kept(ctx.call.args, ctx'.call.args)
          /\ ~Has(ctx.call.args, "reference") => ~Has(ctx'.call.args, "reference")
          /\ ctx.call \in Snapshots => ctx'.call \in Snapshots
        BY <2>3, <2>4, TaggedKeeps, TaggedSnapshot DEF Shape
    <2> QED BY <2>1, <2>2, <2>4, <2>5, StepKeeps
<1>7. CASE Dispatch
    <2>1. way = "in" /\ path[at] = "dispatch" /\ UNCHANGED ticket /\ ticket \in Tickets \cup {None}
        BY <1>7 DEF Dispatch, On, PipelineInv, GateHolds
    <2>2. PICK content \in Contents : Return(Result(content, ctx.note)) \/ Return(Error(content))
        BY <1>7 DEF Dispatch
    <2>3. Return(out') /\ (out' = Result(content, ctx.note) \/ out' = Error(content))
        BY <2>2 DEF Return
    <2>4. out' \in Answers
        <3>1. ctx.note \in BOOLEAN
            BY <2>1 DEF PipelineInv, Carries, Shape
        <3> QED BY <2>3, <3>1 DEF Answers
    <2> QED BY <2>1, <2>3, <2>4, ReturnKeeps
<1> QED BY <1>1, <1>2, <1>3, <1>4, <1>5, <1>6, <1>7

LEMMA AtTheGateKeeps ==
    ASSUME PipelineInv, GatePasses \/ GateFiles \/ GateTimesOut \/ GateResolves
    PROVE  PipelineInv'
<1>1. CASE GatePasses
    <2>1. way = "in" /\ path[at] = "gate" /\ ctx.grant.mode = "auto" /\ Proceed(ctx) /\ UNCHANGED ticket
        BY <1>1 DEF GatePasses, On
    <2>2. Gated
        BY <2>1, Surroundings DEF PipelineInv
    <2>3. ticket = None
        BY <2>1, <2>2 DEF PipelineInv, GateHolds
    <2> QED BY <2>1, <2>3, ProceedMoves, GateKeeps
<1>2. CASE GateFiles
    BY <1>2, FileKeeps
<1>3. CASE GateTimesOut
    <2>1. /\ way = "in" /\ path[at] = "gate" /\ ticket # None
          /\ ticket' = [ticket EXCEPT !.verdict = "timeout"] /\ Return(Failed)
        BY <1>3 DEF GateTimesOut, On
    <2>2. ticket \in Tickets
        BY <2>1 DEF PipelineInv, GateHolds
    <2>3. ticket' \in Tickets /\ ticket'.result = ticket.result
        BY <2>1, <2>2 DEF Tickets
    <2>4. ticket' # None
        BY <2>3, NoneIsNoData
    <2>5. Return(out') /\ out' = Failed
        BY <2>1 DEF Return
    <2> QED BY <2>1, <2>3, <2>4, <2>5, FailedIsSafe, ReturnKeeps
<1>4. CASE GateResolves
    <2>1. way = "in" /\ path[at] = "gate" /\ ticket # None
        BY <1>4 DEF GateResolves, On
    <2>2. CASE ticket.verdict = "approved"
        <3>1. Changes(Adopt(ctx, ticket.edit))
            BY <1>4, <2>2 DEF GateResolves
        <3>2. Moves /\ ctx' = Adopt(ctx, ticket.edit) /\ UNCHANGED ticket
            BY <3>1, ChangesMoves
        <3> QED BY <2>1, <2>2, <3>2, GateKeeps
    <2>3. CASE ticket.verdict # "approved"
        <3>1. Return(Failed) /\ UNCHANGED ticket
            BY <1>4, <2>3 DEF GateResolves
        <3> QED BY <2>1, <3>1, FailKeeps
    <2> QED BY <2>2, <2>3
<1> QED BY <1>1, <1>2, <1>3, <1>4

LEMMA OutwardKeeps ==
    ASSUME PipelineInv, PassOut \/ RedactOut \/ GateOut \/ Answer
    PROVE  PipelineInv'
<1>1. way = "out" => out \in Answers
    BY DEF PipelineInv, Guarded
<1>2. UNCHANGED ticket => Settled
    BY DEF PipelineInv, GateHolds, Guarded, Settled
<1>3. CASE PassOut
    <2>1. way = "out" /\ at > 0 /\ path[at] # "redact" /\ Back(out) /\ UNCHANGED ticket
        BY <1>3 DEF PassOut
    <2>2. Back(out') /\ out' = out
        BY <2>1 DEF Back
    <2> QED BY <1>1, <1>2, <2>1, <2>2, BackKeeps
<1>4. CASE RedactOut
    <2>1. way = "out" /\ at > 0 /\ Back(Redacted(out)) /\ UNCHANGED ticket
        BY <1>4 DEF RedactOut
    <2>2. Back(out') /\ out' = Redacted(out)
        BY <2>1 DEF Back
    <2>3. out' \in Answers /\ ~Leaks(out') /\ (out'.content = "secret" => out.content = "secret")
        BY <1>1, <2>1, <2>2, FailedIsSafe DEF Redacted
    <2> QED BY <1>2, <2>1, <2>2, <2>3, BackKeeps
<1>5. CASE GateOut
    <2>1. /\ way = "out" /\ at > 0 /\ path[at] = "gate" /\ Back(out)
          /\ ticket' = IF ticket = None THEN None ELSE Completed
        BY <1>5 DEF GateOut
    <2>2. Back(out') /\ out' = out
        BY <2>1 DEF Back
    <2>3. ~Leaks(out) /\ out \in Answers
        BY <1>1, <2>1, GateSeesNoSecret
    <2>4. Settled
        <3>1. CASE ticket = None
            BY <2>1, <3>1 DEF Settled
        <3>2. CASE ticket # None
            <4>1. ticket \in Tickets
                BY <3>2 DEF PipelineInv, GateHolds
            <4> QED BY <2>1, <2>3, <3>2, <4>1, NoneIsNoData DEF Settled, Completed, Tickets
        <3> QED BY <3>1, <3>2
    <2> QED BY <2>1, <2>2, <2>3, <2>4, BackKeeps
<1>6. CASE Answer
    BY <1>6, AnswerKeeps
<1> QED BY <1>3, <1>4, <1>5, <1>6

THEOREM PipelineInvariant == PipelineSpec => []PipelineInv
<1>1. PipelineInit => PipelineInv
    BY StartIsSound
<1>2. PipelineInv /\ [PipelineNext]_allVars => PipelineInv'
    <2> SUFFICES ASSUME PipelineInv, [PipelineNext]_allVars PROVE PipelineInv'
        OBVIOUS
    <2>1. CASE UNCHANGED allVars \/ Replace
        BY <2>1, UnchangedKeeps DEF allVars, Replace
    <2>2. ASSUME NEW call \in Requests, NEW block \in BOOLEAN, Arrive(call, block) PROVE PipelineInv'
        BY <2>2, ArriveKeeps
    <2>3. CASE Resume
        BY <2>3, ResumeKeeps
    <2>4. CASE Limit \/ Authorize \/ Validate \/ Materialize \/ Redact \/ Quota \/ Tagger \/ Dispatch
        BY <2>4, InwardKeeps
    <2>5. CASE GatePasses \/ GateFiles \/ GateTimesOut \/ GateResolves
        BY <2>5, AtTheGateKeeps
    <2>6. CASE PassOut \/ RedactOut \/ GateOut \/ Answer
        BY <2>6, OutwardKeeps
    <2>7. CASE Decide("rejected", None)
        BY <2>7, DecideKeeps
    <2>8. ASSUME NEW edit \in Edits \cup {None}, Decide("approved", edit) PROVE PipelineInv'
        BY <2>8, DecideKeeps
    <2> QED BY <2>1, <2>2, <2>3, <2>4, <2>5, <2>6, <2>7, <2>8 DEF PipelineNext, Serve
<1> QED BY <1>1, <1>2, PTL DEF PipelineSpec

\* The request is somewhere on its path and the ticket is one that can be filed,
\* under whatever policy.
THEOREM PipelineTypeCorrect == PipelineSpec => []PipelineTypeOK
<1>1. PipelineInv /\ TypeOK => PipelineTypeOK
    BY DEF PipelineInv, Travels, GateHolds, PipelineTypeOK
<1> QED BY <1>1, PipelineInvariant, PolicyTypeCorrect, PTL

\* With any extra steps, in any order and stage, what the dispatch gets was
\* approved, then validated, then resolved.
THEOREM CheckedBeforeDispatch == PipelineSpec => []UpstreamGetsWhatWasChecked
<1>1. PipelineInv => UpstreamGetsWhatWasChecked
    BY DEF PipelineInv, Delivered, UpstreamGetsWhatWasChecked
<1> QED BY <1>1, PipelineInvariant, PTL

\* No ticket has the value of a secret in its call.
THEOREM TicketsAreWithoutSecrets == PipelineSpec => []TicketKeepsReferences
<1>1. PipelineInv => TicketKeepsReferences
    <2> SUFFICES ASSUME PipelineInv, ticket # None PROVE ~Has(ticket.call.args, "secret")
        BY DEF TicketKeepsReferences
    <2>1. ticket.call \in Snapshots
        BY DEF PipelineInv, GateHolds, Tickets
    <2> QED BY <2>1, SnapshotsArePlain
<1> QED BY <1>1, PipelineInvariant, PTL

\* A result that repeats a secret stops at the redact step, on a call or on a
\* resume, with any extra steps; a secret that still leaves is in the text of an
\* upstream that failed (Redact, Dispatch).
THEOREM LeakedResultsAreRejected == PipelineSpec => []ResultsAreRedacted
<1>1. PipelineInv => ResultsAreRedacted
    BY DEF PipelineInv, Guarded, ResultsAreRedacted
<1> QED BY <1>1, PipelineInvariant, PTL
================================================================================
