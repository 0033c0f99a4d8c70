----------------------------- MODULE MCGuardian -----------------------------
(* Values of the constants of Guardian for model checking.                 *)
EXTENDS Guardian

CONSTANTS c1, c2, guarded

Plain(kind, tools) ==
    [kind |-> kind, tools |-> tools, ledger |-> "none", windows |-> <<>>,
     perCall |-> 0]
Rate(l, limit) ==
    [Plain("rate", {}) EXCEPT !.ledger = l,
                             !.windows = <<[span |-> 1, limit |-> limit]>>]
Cap(l, perCall, limit) ==
    [Plain("cap", {}) EXCEPT !.ledger = l, !.perCall = perCall,
                            !.windows = <<[span |-> 1, limit |-> limit]>>]
AllOf(ps) == [mode |-> "all", policies |-> ps]
AnyOf(ps) == [mode |-> "any", policies |-> ps]

\* An AnyOf over an allow list and a rate limit, and an AllOf with a schema for
\* the arguments of a search and for the result, which it replaces before it may
\* object.
GroupsOf ==
    [a \in {guarded} |->
        <<AnyOf(<<Plain("allow", {"search"}), Rate("rate", 2)>>),
          AllOf(<<Plain("redact", {}), Cap("cap", 2, 2),
                  Plain("schema", {"search"})>>)>>]

Calls(agent, tool) == [agent |-> agent, tool |-> tool]
Requests == {Calls(guarded, "search"), Calls(guarded, "shell")}

Returned(cost, shape, pii, valid) ==
    [cost |-> cost, shape |-> shape, pii |-> pii, valid |-> valid]

\* A string has no cost.
Results == {Returned(NoCost, "str", {"reached"}, TRUE),
            Returned(2, "dict", {"reached", "beyond"}, FALSE),
            Returned(3, "dict", {"reached"}, TRUE)}

Charges(times) == [i \in DOMAIN times |-> [at |-> times[i], amount |-> 1]]

\* The rate limit is used up, and one of its two charges is about to be old.
PastUses ==
    {[l \in {"rate", "cap"} |-> IF l = "rate" THEN Charges(<<-1, 0>>) ELSE <<>>]}
=============================================================================
