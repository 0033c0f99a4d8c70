---------------------------- MODULE HealthMonitor ----------------------------
(***************************************************************************)
(* The health monitor of Harness: named checks, run one after the other,   *)
(* each result published on the bus before the next check is run.          *)
(***************************************************************************)
EXTENDS EventBus

CONSTANTS
    CheckName,
    CheckOutcome,   \* what a check may do: a status, or "raise"
    HealthRun       \* EventKind.HEALTH_CHECK_RUN

VARIABLE
    checks          \* the names in _checks, in the order of the dict

\* _STATUS_ORDER
Severity == [HEALTHY |-> 0, UNKNOWN |-> 1, DEGRADED |-> 2, UNHEALTHY |-> 3]

ASSUME HealthAssumption ==
    /\ CheckOutcome \subseteq DOMAIN Severity \cup {"raise"}
    /\ HealthRun \in EventKind

\* A check of that name may be there: it is replaced in its place.
RegisterCheck(t, name) ==
    /\ InUserCode(t)
    /\ checks' = IF name \in Range(checks) THEN checks ELSE Append(checks, name)
    /\ UNCHANGED <<stack, busVars>>

UnregisterCheck(t, name) ==
    /\ InUserCode(t)
    /\ \E i \in DOMAIN checks : checks[i] = name /\ checks' = RemoveAt(checks, i)
    /\ stack' = LET Note(frame) == IF frame.op = "health"
                                   THEN [frame EXCEPT !.stayed = @ \ {name}] ELSE frame
                IN Everywhere(stack, Note)
    /\ UNCHANGED busVars

\* "raw" and "stayed" are history: what the checks did, and the names that were
\* there at the snapshot and still are.
Monitoring(names) ==
    [op |-> "health", inside |-> FALSE, left |-> names, results |-> <<>>,
     raw |-> <<>>, stayed |-> Range(names)]

\* run_all and overall_status copy the dict, run looks one name up.
RunAll(t) ==
    /\ MayCall(t)
    /\ Push(t, Monitoring(checks))
    /\ UNCHANGED <<checks, busVars>>

RunOne(t, name) ==
    /\ MayCall(t)
    /\ name \in Range(checks)
    /\ Push(t, Monitoring(<<name>>))
    /\ UNCHANGED <<checks, busVars>>

CallCheck(t) ==
    /\ Running(t, "health") /\ Top(t).left # <<>>
    /\ Becomes(t, [Top(t) EXCEPT !.inside = TRUE])
    /\ UNCHANGED <<checks, busVars>>

\* Mutant: a check that raises said nothing.
StatusOf_Unknown(outcome) == IF outcome = "raise" THEN "UNKNOWN" ELSE outcome

\* _run_one: a check that raises is UNHEALTHY.
StatusOf(outcome) == IF outcome = "raise" THEN "UNHEALTHY" ELSE outcome

\* The check is over, and its result is published.
CheckDone(t) ==
    /\ stack[t] # <<>> /\ Top(t).op = "health" /\ Top(t).inside
    /\ \E outcome \in CheckOutcome :
          LET frame == [Top(t) EXCEPT
                           !.inside = FALSE, !.left = Tail(@),
                           !.results = Append(@, StatusOf(outcome)),
                           !.raw = Append(@, <<Head(Top(t).left), outcome>>)]
          IN stack' = [stack EXCEPT ![t] =
                          <<Publication(HealthRun), frame>> \o Tail(@)]
    /\ UNCHANGED <<checks, busVars>>

EndHealth(t) ==
    /\ Running(t, "health") /\ Top(t).left = <<>>
    /\ Pop(t)
    /\ UNCHANGED <<checks, busVars>>

HealthStep(t) == CallCheck(t) \/ CheckDone(t) \/ EndHealth(t)

\* overall_status
Overall(results) ==
    IF results = <<>> THEN "UNKNOWN"
    ELSE CHOOSE s \in Range(results) :
            \A r \in Range(results) : Severity[s] >= Severity[r]

------------------------------------------------------------------------------
(* Properties                                                              *)

HealthFrame ==
    [op : {"health"}, inside : BOOLEAN, left : Seq(CheckName),
     results : Seq(DOMAIN Severity), raw : Seq(CheckName \X CheckOutcome),
     stayed : SUBSET CheckName]

\* Types; a name is in the dict once.
HealthTypeOK ==
    /\ checks \in Seq(CheckName)
    /\ \A i, j \in DOMAIN checks : checks[i] = checks[j] => i = j

\* Every check that was registered throughout a run_all has been run once when
\* it ends, whatever the checks and the handlers of their events registered
\* and unregistered meanwhile, and the overall status is no better than what any
\* check said: a check that raised makes it UNHEALTHY.
OverallIsHonest ==
    \A t \in Thread : \A i \in DOMAIN stack[t] :
        LET run == stack[t][i] IN
        (run.op = "health" /\ run.left = <<>>) =>
            LET overall == Severity[Overall(run.results)]
                Ran(name) == {j \in DOMAIN run.raw : run.raw[j][1] = name}
            IN /\ \A name \in run.stayed : Cardinality(Ran(name)) = 1
               /\ \A j \in DOMAIN run.raw :
                     IF run.raw[j][2] = "raise" THEN overall = Severity["UNHEALTHY"]
                     ELSE overall >= Severity[run.raw[j][2]]
=============================================================================
