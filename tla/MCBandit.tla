------------------------------ MODULE MCBandit ------------------------------
(* Values of the constants of Bandit for model checking.                   *)
EXTENDS Bandit

CONSTANTS t1, t2, p1, p2, k0, k1, ucb1, thompson

KindOf == [b \in Bandits |-> IF b = ucb1 THEN "ucb1" ELSE "thompson"]

\* Both providers are healthy, or only the second.
Healthy == {<<p1, p2>>, <<p2>>}

\* UCB1 had explored both providers in one partition.
Saved ==
    {[b \in Bandits |->
        IF b # ucb1 THEN None
        ELSE [a \in Arm |->
                IF a[1] = k0 THEN NoArm
                ELSE [successes |-> 1, failures |-> 0, reward |-> 10, pulls |-> 1]]]}

\* A success without a reward, and a failure with one.
Reported == {[success |-> TRUE, reward |-> 0], [success |-> FALSE, reward |-> 4]}
=============================================================================
