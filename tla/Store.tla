-------------------------------- MODULE Store --------------------------------
(***************************************************************************)
(* Continuity and the tool registry over one SQLiteStorage: several        *)
(* threads call them and close the store, and the process may be           *)
(* restarted.                                                              *)
(***************************************************************************)
EXTENDS Continuity, ToolRegistry

CONSTANTS
    Files,          \* what the file may hold at the start
    MaxCalls,       \* bound: calls ever begun
    MaxRestarts     \* bound: restarts of the process

\* The keys of profiles and of tools have different prefixes, and under each
\* is what its component has put there.
ASSUME StoreAssumption ==
    /\ User \cap Tool = {}
    /\ Files \subseteq [Key -> Value \cup {None}]
    /\ \A file \in Files :
          /\ \A u \in User : file[u] \in ProfileOf \cup {None}
          /\ \A x \in Tool : file[x] \in Description \cup {None}
    /\ MaxCalls \in Nat /\ MaxRestarts \in Nat

VARIABLES
    calls,          \* calls begun
    restarts

vars == <<sqliteVars, task, toolVars, calls, restarts>>

Init ==
    /\ disk \in Files
    /\ Opened
    /\ ContinuityInit
    /\ ToolInit
    /\ calls = 0 /\ restarts = 0

CallContinuity(t) ==
    /\ calls < MaxCalls
    /\ calls' = calls + 1
    /\ \/ \E u \in User, op \in {"update", "learn"} : BeginChange(t, op, u)
       \/ \E u \in User : BeginDelete(t, u)
       \/ BeginListUsers(t)
    /\ UNCHANGED <<toolVars, restarts>>

CallRegistry(t) ==
    /\ calls < MaxCalls
    /\ calls' = calls + 1
    /\ \/ \E x \in Tool, d \in Description, stored \in BOOLEAN : Register(t, x, d, stored)
       \/ \E x \in Tool, stored \in BOOLEAN : Unregister(t, x, stored)
       \/ BeginLoad(t)
    /\ UNCHANGED <<task, restarts>>

CallClose(t) ==
    /\ calls < MaxCalls
    /\ calls' = calls + 1
    /\ Idle(t)
    /\ Ask(t, Close)
    /\ StoreUnchanged
    /\ UNCHANGED <<task, toolVars, restarts>>

CloseReturns(t) ==
    /\ call[t].st = "done" /\ call[t].req = Close
    /\ call' = [call EXCEPT ![t] = NoCall]
    /\ StoreUnchanged
    /\ UNCHANGED <<task, toolVars, calls, restarts>>

\* The process ends anywhere and is started again.
Restart ==
    /\ restarts < MaxRestarts
    /\ restarts' = restarts + 1
    /\ Reopen
    /\ task' = [t \in Thread |-> NoTask]
    /\ ToolReopen
    /\ UNCHANGED calls

Step(t) ==
    \/ StoreStep(t) /\ UNCHANGED <<task, toolVars, calls, restarts>>
    \/ ContinuityStep(t) /\ UNCHANGED <<toolVars, calls, restarts>>
    \/ ToolStep(t) /\ UNCHANGED <<task, calls, restarts>>
    \/ CloseReturns(t)

\* All calls that the bound allows have ended.
Rest ==
    /\ calls = MaxCalls /\ \A t \in Thread : Idle(t)
    /\ UNCHANGED vars

Next ==
    \/ \E t \in Thread :
          \/ CallContinuity(t) \/ CallRegistry(t) \/ CallClose(t)
          \/ Step(t)
    \/ Restart
    \/ Rest

Spec == Init /\ [][Next]_vars

\* A call of the store has one caller.
CallerOK(t) ==
    /\ task[t] = NoTask \/ chore[t] = NoChore
    /\ call[t].req = Close => task[t] = NoTask /\ chore[t] = NoChore
    /\ task[t] = NoTask /\ chore[t] = NoChore => Idle(t) \/ call[t].req = Close

\* The types of all three.
TypeOK ==
    /\ SqliteTypeOK /\ ContinuityTypeOK /\ ToolTypeOK
    /\ \A t \in Thread : CallerOK(t)

\* To the threads above it SQLiteStorage is an atomic map: a call that returned
\* has taken effect once, whole, between its begin and its end, a call that
\* raised has not, whatever close() and a restart do in between.
KeepsPromise == Promise!Spec
=============================================================================
