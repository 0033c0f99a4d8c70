------------------------------ MODULE MCAtlas -------------------------------
(* Values of the constants of Atlas for model checking.                    *)
EXTENDS Atlas

CONSTANTS p1, p2, t1, t2

Call(kind, names, all, accepts, bandit) ==
    [kind |-> kind, names |-> names, all |-> all, accepts |-> accepts,
     bandit |-> bandit]

Cascade(names) == Call("cascade", names, FALSE, Provider, FALSE)
Invoke(names) == Call("invoke", names, FALSE, Provider, FALSE)
ResetHealth(names) == Call("reset", names, FALSE, Provider, FALSE)

\* Every kind of call: over explicit names, through a filter, and with a
\* selector over every provider.
Requests ==
    {Invoke(<<p1, p2>>), Cascade(<<p1, p2>>), ResetHealth(<<p1>>),
     ResetHealth(<<>>),
     Call("route", <<p2, p1>>, FALSE, {p1}, FALSE),
     Call("invoke", <<>>, TRUE, {p1, p2}, TRUE)}

\* One cascade through two providers, as often as MaxCalls allows.
Cascades == {Cascade(<<p1, p2>>)}

\* The threads are interchangeable.
Threads == Permutations(Thread)
=============================================================================
