---------------------------- MODULE MCConductor -----------------------------
(* Values of the constants of Conductor for model checking.                *)
EXTENDS Conductor

CONSTANTS a1, a2, c1

Asks(named, capability, valid, timed) ==
    [named |-> named, capability |-> capability, valid |-> valid,
     timed |-> timed]

\* By capability or by name, with and without a timeout, and one refused.
Requests ==
    {Asks(<<>>, TRUE, TRUE, TRUE), Asks(<<a2>>, FALSE, TRUE, FALSE),
     Asks(<<a2, a1>>, TRUE, FALSE, FALSE)}
=============================================================================
