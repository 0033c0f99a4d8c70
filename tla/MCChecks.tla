------------------------------ MODULE MCChecks ------------------------------
(* Values of the constants of Checks for model checking.                   *)
EXTENDS Checks

CONSTANTS t1, t2, early, late

Rules == [kind |-> "rules", rules |-> 2, cost |-> NoCost, confidence |-> 0]
NoRules == [Rules EXCEPT !.rules = 0]
Judge == [NoRules EXCEPT !.kind = "judge", !.cost = 1]
Schema == [NoRules EXCEPT !.kind = "schema"]
Custom == [NoRules EXCEPT !.kind = "custom", !.confidence = 5]
Layers == {Rules, NoRules, Judge, Schema, Custom}

\* A chain of instances, and one of names of which the second may not exist.
Given == {<<Schema, Custom>>, <<early, late>>}
Made == {NoRules}

\* Two handlers, one of them for everything, two checks, and a default chain.
Populated ==
    [subs |-> <<[id |-> 1, kind |-> "all"], [id |-> 2, kind |-> "health"]>>,
     checks |-> <<"db", "disk">>,
     factories |-> [name \in {early, late} |->
                       IF name = early THEN NoRules ELSE NoFactory],
     defaults |-> <<Rules, Judge>>]

Symmetry == Permutations(Thread)
=============================================================================
