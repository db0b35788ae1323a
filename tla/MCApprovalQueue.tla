---------------------------- MODULE MCApprovalQueue ----------------------------
(* An instance of ApprovalQueue for TLC: four tickets of short names and    *)
(* queries of each kind; ? and a pattern in capitals are not plain.         *)
EXTENDS ApprovalQueue

MCToolOf  == <<<<"b", "x">>, <<"b", "_">>, <<"x", "_">>, <<"b", "x">>>>
MCAgentOf == <<"ann", "bob", "ann", "ann">>

MCFold  == [l \in {"b", "x", "_", "?", "B"} |-> IF l = "B" THEN "b" ELSE l]
MCOneOf == [p \in {"?"} |-> DOMAIN MCFold]

MCQuery == [tool |-> <<"b", "*">>, agent |-> Anyone]

MCQueries ==
    {MCQuery} \cup
    [tool : {<<>>, <<"*", "_">>}, agent : {"ann"}] \cup
    [tool : {<<"b", "?">>, <<"B", "*">>}, agent : {Anyone}]
================================================================================
