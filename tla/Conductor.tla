----------------------------- MODULE Conductor ------------------------------
(***************************************************************************)
(* Conductor.delegate: threads of the host program delegate tasks to       *)
(* agents, which may delegate in turn; a delegation with a timeout runs    *)
(* its agent on a worker thread that outlives the timeout.                 *)
(*                                                                         *)
(* The registry has one lock, a trajectory another; the rest of a          *)
(* delegation is local to the threads that run it.  A step is the work     *)
(* between two points where another thread can see a difference.           *)
(*                                                                         *)
(* Left out: spans, and the events on the bus (they are published by the   *)
(* step that begins or finishes the delegation and change none of this     *)
(* state); the event of unregister_agent; agents that open a trajectory or *)
(* catch what their own delegations raise.                                 *)
(***************************************************************************)
EXTENDS Naturals, Sequences, FiniteSets

CONSTANTS
    Agent,          \* agents, known by their names
    Advertises,     \* those whose card has the capability asked for
    Strict,         \* those whose capability has an input schema
    Caller,         \* threads of the host program
    Request,        \* the calls of delegate, see ConductorAssumption
    MaxDelegations, \* bound: delegations ever begun
    MaxRegistrations \* bound: registrations ever made

\* A call names agents or not, asks for the capability or not, gives an input
\* that satisfies its schema or not, and has a timeout or not.
ASSUME ConductorAssumption ==
    /\ Strict \subseteq Advertises
    /\ Advertises \subseteq Agent
    /\ Request \subseteq [named : Seq(Agent), capability : BOOLEAN,
                          valid : BOOLEAN, timed : BOOLEAN]
    /\ MaxDelegations \in Nat
    /\ MaxRegistrations \in Nat
    /\ Caller \cap Nat = {}

VARIABLES
    since,      \* AgentRegistry._agents: when each agent was registered, or
                \*   NotRegistered
    registered, \* how many registrations were made
    deleg,      \* every delegation begun so far
    begun,      \* how many of them
    stack,      \* each thread's calls of delegate, innermost last; the
                \*   worker of a delegation has its number
    worker,     \* the worker thread of each timed delegation
    scope,      \* whether a host thread's current_trajectory is set
    steps       \* the AGENT_HANDOFF steps of each host thread's trajectory

registry == <<since, registered>>
vars == <<registry, deleg, begun, stack, worker, scope, steps>>

NotRegistered == 0
NoAgent == "none"
None == 0
Id == 1..MaxDelegations
Thread == Caller \cup Id

NoRequest == [named |-> <<>>, capability |-> FALSE, valid |-> TRUE,
              timed |-> FALSE]
NoDelegation ==
    [pc |-> "none", req |-> NoRequest, by |-> None, parent |-> None,
     to |-> NoAgent, body |-> "none", status |-> "none", reason |-> FALSE,
     scoped |-> FALSE]

Init ==
    /\ since = [a \in Agent |-> NotRegistered]
    /\ registered = 0
    /\ deleg = [d \in Id |-> NoDelegation]
    /\ begun = 0
    /\ stack = [t \in Thread |-> <<>>]
    /\ worker = [d \in Id |-> "none"]
    /\ scope = [c \in Caller |-> FALSE]
    /\ steps = [c \in Caller |-> <<>>]

-----------------------------------------------------------------------------
(* The registry and the trajectory scope                                   *)

Register(a) ==
    /\ since[a] = NotRegistered         \* a duplicate raises ValueError
    /\ registered < MaxRegistrations
    /\ registered' = registered + 1
    /\ since' = [since EXCEPT ![a] = registered']
    /\ UNCHANGED <<deleg, begun, stack, worker, scope, steps>>

Unregister(a) ==
    /\ since[a] # NotRegistered
    /\ since' = [since EXCEPT ![a] = NotRegistered]
    /\ UNCHANGED <<registered, deleg, begun, stack, worker, scope, steps>>

\* with Conductor.set_active_trajectory(...): in host code, between calls.
Enter(c) ==
    /\ ~scope[c]
    /\ stack[c] = <<>>
    /\ scope' = [scope EXCEPT ![c] = TRUE]
    /\ UNCHANGED <<registry, deleg, begun, stack, worker, steps>>

Leave(c) ==
    /\ scope[c]
    /\ stack[c] = <<>>
    /\ scope' = [scope EXCEPT ![c] = FALSE]
    /\ UNCHANGED <<registry, deleg, begun, stack, worker, steps>>

-----------------------------------------------------------------------------
(* _resolve_target                                                         *)

\* find_by_capability lists the dict in insertion order.
Found == {a \in Advertises : since[a] # NotRegistered}

\* The first of the named agents, those with the capability before others;
\* without names the first registered one with the capability.
Target(r) ==
    LET able == {i \in DOMAIN r.named : r.named[i] \in Advertises}
        pool == IF r.capability /\ able # {} THEN able ELSE DOMAIN r.named
    IN IF r.named # <<>>
       THEN r.named[CHOOSE i \in pool : \A j \in pool : i <= j]
       ELSE IF r.capability /\ Found # {}
       THEN CHOOSE a \in Found : \A b \in Found : since[a] <= since[b]
       ELSE NoAgent

\* The capability's input schema is checked if the target's card has one.
Refused(r) ==
    \/ Target(r) = NoAgent
    \/ r.capability /\ Target(r) \in Strict /\ ~r.valid

-----------------------------------------------------------------------------
(* delegate                                                                *)

Top(t) == stack[t][Len(stack[t])]
Push(t, d) == Append(stack[t], d)
Pop(t) == SubSeq(stack[t], 1, Len(stack[t]) - 1)

\* The thread that runs the agent of d.
Host(d) == IF deleg[d].req.timed THEN d ELSE deleg[d].by

\* t runs the agent of its innermost delegation.
InBody(t) ==
    /\ stack[t] # <<>>
    /\ Host(Top(t)) = t
    /\ deleg[Top(t)].body = "running"

\* t is in delegate itself, past the agent of its innermost delegation.
At(t, pc) == stack[t] # <<>> /\ deleg[Top(t)].by = t /\ deleg[Top(t)].pc = pc

\* The delegation t begins with request r.  It happens inside a trajectory
\* if t is in the scope of one, or works for a delegation that does.
Begins(t, r) ==
    LET outer == IF stack[t] = <<>> THEN None ELSE Top(t)
        inside == IF outer = None THEN scope[t]
                  ELSE deleg[outer].scoped /\ deleg[outer].pc # "done"
        d == [NoDelegation EXCEPT !.req = r, !.by = t, !.parent = outer,
                                  !.scoped = inside]
    IN IF Refused(r)
       THEN [d EXCEPT !.pc = "finish", !.status = "REFUSED", !.reason = TRUE]
       ELSE [d EXCEPT !.pc = IF r.timed THEN "join" ELSE "agent",
                      !.to = Target(r), !.body = "running"]

\* Resolve the target and call the agent, on this thread or a new one.
Delegate(t, r) ==
    /\ begun < MaxDelegations
    /\ begun' = begun + 1
    /\ deleg' = [deleg EXCEPT ![begun'] = Begins(t, r)]
    /\ LET apart == r.timed /\ ~Refused(r) IN
       /\ worker' = [worker EXCEPT ![begun'] = IF apart THEN "running" ELSE @]
       /\ stack' = [stack EXCEPT
             ![begun'] = IF apart THEN <<begun'>> ELSE @,
             ![t] = Push(t, begun')]
    /\ UNCHANGED <<registry, scope, steps>>

\* A host thread delegates, or an agent does.
HostDelegates(c) ==
    /\ stack[c] = <<>>
    /\ \E r \in Request : Delegate(c, r)

AgentDelegates(t) ==
    /\ InBody(t)
    /\ \E r \in Request : Delegate(t, r)

\* The agent of t's innermost delegation returns or raises: the result, or
\* the end of a worker, whose result waits in the outcome dict.
BodyEnds(t, body, status) ==
    LET d == Top(t) IN
    /\ InBody(t)
    /\ IF deleg[d].req.timed
       THEN /\ deleg' = [deleg EXCEPT ![d].body = body]
            /\ worker' = [worker EXCEPT ![d] = "ended"]
            /\ stack' = [stack EXCEPT ![t] = <<>>]
       ELSE /\ deleg' = [deleg EXCEPT ![d] =
                  [@ EXCEPT !.body = body, !.pc = "finish", !.status = status,
                            !.reason = (status # "SUCCESS")]]
            /\ UNCHANGED <<worker, stack>>
    /\ UNCHANGED <<registry, begun, scope, steps>>

AgentReturns(t) == BodyEnds(t, "returned", "SUCCESS")

AgentRaises(t) == BodyEnds(t, "raised", "FAILED")

\* It raises a BaseException that is no Exception, sys.exit() for one: no
\* delegate on this thread catches it.
AgentExits(t) ==
    /\ InBody(t)
    /\ deleg' = [d \in Id |->
          IF \E k \in DOMAIN stack[t] : stack[t][k] = d
          THEN [deleg[d] EXCEPT !.body = "exited",
                                !.pc = IF @ = "agent" THEN "lost" ELSE @]
          ELSE deleg[d]]
    /\ worker' = [d \in Id |-> IF d = t THEN "ended" ELSE worker[d]]
    /\ stack' = [stack EXCEPT ![t] = <<>>]
    /\ UNCHANGED <<registry, begun, scope, steps>>

\* The worker thread is gone: it is alive a little longer than its agent.
WorkerDies(d) ==
    /\ worker[d] = "ended"
    /\ worker' = [worker EXCEPT ![d] = "dead"]
    /\ UNCHANGED <<registry, deleg, begun, stack, scope, steps>>

Results(t, status, reason) ==
    /\ deleg' = [deleg EXCEPT ![Top(t)] =
          [@ EXCEPT !.pc = "finish", !.status = status, !.reason = reason]]
    /\ UNCHANGED <<registry, begun, stack, worker, scope, steps>>

\* Mutant: the outcome is read without a look at the worker.
Joined_Early(t) ==
    /\ At(t, "join")
    /\ LET body == deleg[Top(t)].body IN
          Results(t, IF body = "returned" THEN "SUCCESS" ELSE "FAILED",
                  body = "raised")

\* worker.join() returned with the worker dead: its outcome is the result.
\* Without a status in it the delegation FAILED, and the reason is None.
Joined(t) ==
    /\ At(t, "join")
    /\ worker[Top(t)] = "dead"
    /\ LET body == deleg[Top(t)].body IN
          Results(t, IF body = "returned" THEN "SUCCESS" ELSE "FAILED",
                  body = "raised")

\* Mutant: waits for the worker.
TimesOut_Never(t) ==
    /\ At(t, "join")
    /\ worker[Top(t)] = "ended"
    /\ Results(t, "TIMEOUT", TRUE)

\* The timeout passed and the worker is alive, though its agent may be done.
TimesOut(t) ==
    /\ At(t, "join")
    /\ worker[Top(t)] # "dead"
    /\ Results(t, "TIMEOUT", TRUE)

Returns(t) ==
    /\ At(t, "finish")
    /\ deleg' = [deleg EXCEPT ![Top(t)].pc = "done"]
    /\ stack' = [stack EXCEPT ![t] = Pop(t)]
    /\ UNCHANGED <<registry, begun, worker, scope>>

\* Mutant: a worker runs in a copy of the context that started it.
Finish_Inherits(t) ==
    /\ Returns(t)
    /\ steps' = [c \in Caller |->
          IF \/ t = c /\ scope[c]
             \/ t \in Id /\ deleg[t].by = c /\ deleg[t].scoped
          THEN Append(steps[c], Top(t)) ELSE steps[c]]

\* _record_handoff on the trajectory of this context - a worker's is empty -
\* and the result goes to the caller.
Finish(t) ==
    /\ Returns(t)
    /\ steps' = [c \in Caller |->
          IF c = t /\ scope[c] THEN Append(steps[c], Top(t)) ELSE steps[c]]

-----------------------------------------------------------------------------
AgentStep(t) ==
    AgentDelegates(t) \/ AgentReturns(t) \/ AgentRaises(t) \/ AgentExits(t)

DelegateStep(t) == Joined(t) \/ TimesOut(t) \/ Finish(t)

Delegations ==
    \/ \E a \in Agent : Register(a) \/ Unregister(a)
    \/ \E c \in Caller : Enter(c) \/ Leave(c)
    \/ \E t \in Thread : AgentStep(t) \/ DelegateStep(t)
    \/ \E d \in Id : WorkerDies(d)

Next == Delegations \/ \E c \in Caller : HostDelegates(c)

Spec == Init /\ [][Next]_vars

\* A thread inside delegate runs on and a join ends with its timeout.
\* Nothing is assumed of the agents: they may never return.
Fairness == \A t \in Thread : WF_vars(DelegateStep(t))

FairSpec == Spec /\ Fairness

-----------------------------------------------------------------------------
(* Properties                                                              *)

Delegation ==
    [pc : {"none", "agent", "join", "finish", "done", "lost"},
     req : Request \cup {NoRequest}, by : Thread \cup {None},
     parent : Id \cup {None}, to : Agent \cup {NoAgent},
     body : {"none", "running", "returned", "raised", "exited"},
     status : {"none", "SUCCESS", "FAILED", "REFUSED", "TIMEOUT"},
     reason : BOOLEAN, scoped : BOOLEAN]

RegistryOK ==
    registered \in 0..MaxRegistrations /\ since \in [Agent -> 0..registered]

\* The delegations with a number up to begun, and no other, have begun.
DelegationsOK ==
    /\ begun \in 0..MaxDelegations
    /\ deleg \in [Id -> Delegation]
    /\ worker \in [Id -> {"none", "running", "ended", "dead"}]
    /\ \A d \in Id : /\ d > begun => deleg[d] = NoDelegation
                     /\ d <= begun => deleg[d].pc # "none"

StacksOK ==
    /\ stack \in [Thread -> Seq(Id)]
    /\ \A t \in Thread : \A k \in DOMAIN stack[t] : stack[t][k] <= begun

ScopesOK == scope \in [Caller -> BOOLEAN] /\ steps \in [Caller -> Seq(Id)]

\* The types of the variables.
TypeOK == RegistryOK /\ DelegationsOK /\ StacksOK /\ ScopesOK

\* What a result says of the agent.  The agent may end at any time, before
\* the timeout, after it, or between the join and the look at the worker;
\* whichever way that goes, a SUCCESS is an agent that returned, a FAILED one
\* that did not, and a refused delegation never called one.  No late answer
\* turns one result into another.  A result that is no SUCCESS has a reason,
\* but for the worker whose agent left by SystemExit or the like.
ResultIsTrue ==
    \A d \in Id :
        /\ deleg[d].status = "SUCCESS" => deleg[d].body = "returned"
        /\ deleg[d].status = "FAILED" => deleg[d].body \in {"raised", "exited"}
        /\ deleg[d].status = "REFUSED" => deleg[d].body = "none"
        /\ deleg[d].status \in {"FAILED", "REFUSED", "TIMEOUT"} =>
              deleg[d].reason \/ deleg[d].body = "exited"

Over(d) == deleg[d].pc \in {"done", "lost"}

\* A delegation that has a result other than TIMEOUT has nothing left
\* running under it: whatever its agent delegated, on whichever thread, is
\* over, down to the delegations of those agents - unless one of these timed
\* out, and then the work below it goes on.
NothingRunsBelow ==
    \A d \in Id :
        /\ deleg[d].status \notin {"none", "TIMEOUT"}
        => \A e \in Id : deleg[e].parent = d => Over(e)

Index(c, d) == {k \in DOMAIN steps[c] : steps[c][k] = d}

\* Every delegation that a thread makes inside its scope is a step of its
\* trajectory once it is over, whatever its outcome; and no delegation is
\* there twice, before it is over, after that of the agent that made it, or
\* when it was begun outside: what a worker that outlives its delegation goes
\* on to delegate is on no trajectory.  Of what a worker delegates in time
\* nothing is said: the code does not record it.
HandoffsAreComplete ==
    \A c \in Caller, d \in Id :
        /\ deleg[d].by = c /\ deleg[d].pc = "done" /\ deleg[d].scoped
              => Index(c, d) # {}
        /\ \A i, j \in Index(c, d) : i = j
        /\ Index(c, d) # {} => deleg[d].pc = "done" /\ deleg[d].scoped
        /\ \A e \in Id : deleg[d].parent = e /\ deleg[e].status # "TIMEOUT" =>
              \A i \in Index(c, d), j \in Index(c, e) : i < j

\* A delegation with a timeout returns although its agent never may.
TimedDelegationsReturn ==
    \A d \in Id : deleg[d].pc = "join" ~> deleg[d].pc = "done"
=============================================================================
