------------------------------ MODULE MCPipeline ------------------------------
(* Documents of up to two rules for TLC, and a few of them to serve requests *)
(* under.                                                                    *)
EXTENDS Pipeline, TLC

CONSTANTS t1, t2, u1, u2, g1

MCOwner == (t1 :> u1) @@ (t2 :> u2)

Num(n) == [kind |-> "number", n |-> n]
Text   == [kind |-> "text", n |-> 0]
Ref(kind) == [kind |-> kind, n |-> 0]

MCArguments == {NoClaims} \cup {[amount |-> v] : v \in {Num(1), Num(2), Text}}
Keyed(n, kind) == [amount |-> Num(n), key |-> Ref(kind)]

MCAnnotations == {NoClaims, [readOnlyHint |-> TRUE], [readOnlyHint |-> FALSE, destructiveHint |-> FALSE]}

AtMost(n)    == [arg |-> "amount", op |-> "le", value |-> Num(n)]
OneOf(S)     == [arg |-> "amount", op |-> "in", value |-> S]
Unknown      == [arg |-> "amount", op |-> "~", value |-> Num(1)]

MCRules == [tools : {{t1}, {t1, t2}}, agents : {Agents},
            conds : {{}, {AtMost(1)}, {OneOf({Num(2), Text})}, {Unknown}},
            hints : {NoClaims, [readOnlyHint |-> TRUE], [destructiveHint |-> TRUE]},
            deny : {TRUE}, mode : {"auto"}, schema : {None}]
       \cup [tools : {{t1}, {t1, t2}}, agents : {Agents},
             conds : {{}, {AtMost(1)}, {AtMost(2), OneOf({Num(2), Text})}},
             hints : {NoClaims, [readOnlyHint |-> TRUE], [destructiveHint |-> TRUE]},
             deny : {FALSE}, mode : {"auto", "nonsense"}, schema : {None}]

MCDocuments ==
    [rules : {<<>>} \cup {<<r>> : r \in MCRules} \cup {<<r, s>> : r \in MCRules, s \in MCRules},
     default : {"deny", "async"}, trust : {{}, {u1}}]

--------------------------------------------------------------------------------

\* What schemas speak of: an amount that is a number, whatever else is there.
Amounts == {[amount |-> Num(n)] : n \in 1..2} \cup {Keyed(n, k) : n \in 1..2, k \in {"reference", "unknown"}}
NumericAmount == Amounts \cup {Tagged(a) : a \in Amounts}

Rule(mode, schema, conds, deny) ==
    [tools |-> {t1}, agents |-> Agents, conds |-> conds, hints |-> NoClaims,
     deny |-> deny, mode |-> mode, schema |-> schema]
Doc(rules) == [rules |-> rules, default |-> "deny", trust |-> {}]

MCServed == {Doc(<<>>)} \cup {Doc(<<Rule(m, NumericAmount, {}, FALSE)>>) : m \in Modes}
            \cup {Doc(<<Rule("auto", None, {AtMost(1)}, FALSE), Rule("async", NumericAmount, {}, FALSE)>>),
                  Doc(<<Rule("auto", None, {AtMost(1)}, TRUE), Rule("interactive", None, {}, FALSE)>>)}

MCRequests == [tool : {t1}, agent : Agents, annotations : {NoClaims},
               args : {NoClaims, [amount |-> Text]} \cup {Keyed(n, k) : n \in 1..2, k \in {"reference", "unknown"}}]

MCEdits == {Keyed(2, "reference"), [amount |-> Text], [amount |-> Num(1)]}

\* No extra step; ties with a built-in; before, between and after them; no stage.
MCExtras == { <<>>,
              <<Step("tagger", After, 50), Step("quota", Before, 120)>>,
              <<Step("tagger", After, 100), Step("quota", After, 200)>>,
              <<Step("quota", Before, 50), Step("tagger", Before, 75)>>,
              <<Step("quota", After, 300), Step("tagger", After, 250)>>,
              <<Step("quota", "whenever", 1)>> }
================================================================================
