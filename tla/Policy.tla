-------------------------------- MODULE Policy --------------------------------
(***************************************************************************)
(* The declarative policy of one process: an ordered list of rules and a   *)
(* default, published as a document, compiled, and read by grant_for when  *)
(* a call is made and by may_call when the tools of an agent are listed.   *)
(*                                                                         *)
(* A glob is the set of names it matches.  A value is a number or a text   *)
(* that float() refuses; an annotation is what bool() makes of it.  An     *)
(* input schema is the set of the argument objects it accepts.             *)
(***************************************************************************)
EXTENDS Naturals, Sequences

CONSTANTS
    Owner,          \* Owner[t]: the upstream of the tool t, for every tool
    Agents,         \* identities of agents
    Arguments,      \* argument objects: functions from names to values
    Annotations,    \* annotation objects: functions from hints to BOOLEAN
    Documents,      \* what operators may publish
    MaxVersions,    \* bound on the publishes of a behaviour
    None            \* no policy loaded, no grant, no schema declared

ASSUME NoneIsNoMode == None \notin {"auto", "interactive", "async"}
ASSUME VersionsAreBounded == MaxVersions \in Nat

\* A document has a list of rules, and each says whether it denies.
HasRules(doc) ==
    /\ doc = [rules |-> doc.rules, default |-> doc.default, trust |-> doc.trust]
    /\ doc.rules \in Seq({doc.rules[i] : i \in DOMAIN doc.rules})
    /\ \A i \in DOMAIN doc.rules : doc.rules[i].deny \in BOOLEAN

ASSUME DocumentsHaveRules == \A doc \in Documents : HasRules(doc)

VARIABLES
    policy,         \* the policy in force (_compiled), None before the first
    version         \* how many documents were published (MemoryPolicySource)

vars == <<policy, version>>

Tools == DOMAIN Owner
Modes == {"auto", "interactive", "async"}
Ops   == {"eq", "ne", "gt", "ge", "lt", "le", "in"}
HintDefaults == [readOnlyHint |-> FALSE, destructiveHint |-> TRUE,
                 idempotentHint |-> FALSE, openWorldHint |-> TRUE]
Hints == DOMAIN HintDefaults
Calls == [tool : Tools, agent : Agents, args : Arguments, annotations : Annotations]

--------------------------------------------------------------------------------
(* Conditions and hints.                                                    *)

Compare(op, a, b) ==
    \/ op = "eq" /\ a = b
    \/ op = "ne" /\ a # b
    \/ op = "in" /\ a \in b
    \/ /\ op \in {"gt", "ge", "lt", "le"}
       /\ a.kind = "number" /\ b.kind = "number"
       /\ \/ op \in {"gt", "ge"} /\ a.n > b.n
          \/ op \in {"lt", "le"} /\ a.n < b.n
          \/ op \in {"ge", "le"} /\ a.n = b.n

\* An absent argument, or one that cannot be compared, fails the condition.
Holds(cond, args) == cond.arg \in DOMAIN args /\ Compare(cond.op, args[cond.arg], cond.value)

\* A missing hint takes its default, and what is read-only is never destructive.
Effective(annotations) ==
    LET said == [h \in Hints |-> IF h \in DOMAIN annotations THEN annotations[h] ELSE HintDefaults[h]]
    IN [said EXCEPT !.destructiveHint = @ /\ ~said.readOnlyHint]

NoClaims == [h \in {} |-> FALSE]

Trusted(p, call) == Owner[call.tool] \in p.trust

\* FAULTY: the claims of every upstream are believed.
TargetsOnClaims(rule, call, trusted) ==
    /\ call.tool \in rule.tools
    /\ call.agent \in rule.agents
    /\ \A h \in DOMAIN rule.hints : Effective(call.annotations)[h] = rule.hints[h]

\* Everything but the conditions on the arguments.
Targets(rule, call, trusted) ==
    /\ call.tool \in rule.tools
    /\ call.agent \in rule.agents
    /\ \A h \in DOMAIN rule.hints :
          Effective(IF trusted THEN call.annotations ELSE NoClaims)[h] = rule.hints[h]

Matches(rule, call, trusted) ==
    Targets(rule, call, trusted) /\ \A c \in rule.conds : Holds(c, call.args)

--------------------------------------------------------------------------------
(* Evaluation: the loops over the rules, by the rule they stop at.          *)

StopAt(S) == CHOOSE i \in S : \A j \in S : i <= j

\* What a rule, or the default, answers: no grant, or a mode and a schema.
Grant(mode, schema) == [mode |-> mode, schema |-> schema]
OfRule(rule)        == IF rule.deny THEN None ELSE Grant(rule.mode, rule.schema)
OfDefault(mode)     == IF mode = None THEN None ELSE Grant(mode, None)

GrantFor(p, call) ==
    IF p = None THEN None
    ELSE LET matching == {i \in DOMAIN p.rules : Matches(p.rules[i], call, Trusted(p, call))}
         IN IF matching = {} THEN OfDefault(p.default) ELSE OfRule(p.rules[StopAt(matching)])

\* FAULTY: a deny rule hides the tool, whatever it asks of the arguments.
FinalWhenTargeted(rule) == TRUE

\* A conditional deny might not apply to the call to come.
Final(rule) == rule.conds = {} \/ ~rule.deny

MayCall(p, call) ==
    /\ p # None
    /\ LET final == {i \in DOMAIN p.rules :
                        Targets(p.rules[i], call, Trusted(p, call)) /\ Final(p.rules[i])}
       IN IF final = {} THEN p.default # None ELSE ~p.rules[StopAt(final)].deny

\* tools/list: the call stands for the tool of the catalog, without arguments.
VisibleTools(p, specs) == {s \in specs : MayCall(p, s)}

AsListed(call) == [call EXCEPT !.args = NoClaims]

--------------------------------------------------------------------------------
(* Documents.                                                               *)

\* FAULTY: the mode of a rule is not looked at.
CompilesAnyMode(doc) ==
    /\ \A i \in DOMAIN doc.rules :
          /\ \A c \in doc.rules[i].conds : c.op \in Ops
          /\ DOMAIN doc.rules[i].hints \subseteq Hints
    /\ doc.default \in Modes \cup {"deny"}

\* The mode of a rule that denies is not read.
Compiles(doc) ==
    /\ \A i \in DOMAIN doc.rules :
          /\ doc.rules[i].deny \/ doc.rules[i].mode \in Modes
          /\ \A c \in doc.rules[i].conds : c.op \in Ops
          /\ DOMAIN doc.rules[i].hints \subseteq Hints
    /\ doc.default \in Modes \cup {"deny"}

Compile(doc) == [doc EXCEPT !.default = IF @ = "deny" THEN None ELSE @]

\* A document that does not compile changes nothing.
Publish(doc) ==
    /\ version < MaxVersions
    /\ Compiles(doc)
    /\ policy' = Compile(doc)
    /\ version' = version + 1

--------------------------------------------------------------------------------

Init == policy = None /\ version = 0

Next == \E doc \in Documents : Publish(doc)

Spec == Init /\ [][Next]_vars

\* What is in force is a compiled policy, whatever operators send.
TypeOK ==
    /\ version \in 0..MaxVersions
    /\ policy = None \/
        /\ policy.default \in Modes \cup {None}
        /\ \A c \in Calls : GrantFor(policy, c) = None \/ GrantFor(policy, c).mode \in Modes

\* A tool an agent can run with some arguments is in the list it is shown:
\* may_call stops at another rule than grant_for, and must not stop at a deny
\* that grant_for passes by (policy.py, may_call; ToolGateway.visible_tools).
GrantedIsListed ==
    \A c \in Calls :
        GrantFor(policy, c) # None => AsListed(c) \in VisibleTools(policy, {AsListed(c)})

\* What an upstream claims of its tools changes no grant and no list, unless
\* the policy trusts that upstream (trust_hints_from).
UntrustedClaimsIgnored ==
    \A c \in Calls, a \in Annotations :
        LET d == [c EXCEPT !.annotations = a]
        IN policy # None /\ ~Trusted(policy, c) =>
              /\ GrantFor(policy, c) = GrantFor(policy, d)
              /\ MayCall(policy, c) <=> MayCall(policy, d)
================================================================================
