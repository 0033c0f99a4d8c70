----------------------------- MODULE MCPipeline -----------------------------
(* Values of the constants of Pipeline for model checking.                 *)
EXTENDS Pipeline

CONSTANTS a1, a2, c1

Asks(named, capability) ==
    [named |-> named, capability |-> capability, valid |-> TRUE,
     timed |-> FALSE]

\* What the steps below may ask for, named agent found or not.
Requests ==
    {Asks(<<>>, TRUE), Asks(<<>>, FALSE), Asks(<<a2>>, FALSE),
     Asks(<<a2>>, TRUE)}

Stage(agent, capability, raises) ==
    [agent |-> agent, capability |-> capability, raises |-> raises]

\* By capability then by name, by both, and one with a raising transform.
Plans ==
    {<<Stage(NoAgent, TRUE, FALSE), Stage(a2, FALSE, FALSE)>>,
     <<Stage(a2, TRUE, FALSE), Stage(NoAgent, TRUE, TRUE)>>, <<>>}

=============================================================================
