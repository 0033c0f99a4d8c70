------------------------------- MODULE MCStore -------------------------------
(* Values of the constants of Store for model checking.                    *)
EXTENDS Store

CONSTANTS t1, t2, user, tool, f1, f2, a, b, d1, d2

Keys == {user, tool}
Profiles == ProfileOf
Values == Profiles \cup {d1, d2}

\* The user has set one field in an earlier process.
Before ==
    {[k \in Keys |-> IF k = user THEN [NoProfile EXCEPT ![f1] = Entry(a, Explicit)]
                                 ELSE None]}

\* The model finds one fact about each field.
Found == {[f \in {f1, f2} |-> b]}

\* The first half of the connections is t1's.
Owners == [c \in 1..6 |-> IF c <= 3 THEN t1 ELSE t2]
=============================================================================
