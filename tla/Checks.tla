------------------------------- MODULE Checks -------------------------------
(***************************************************************************)
(* The parts that call user code in one process: the event bus, the health *)
(* monitor, which publishes on it, and the verifier.  User code of any of  *)
(* them may call any of them.                                              *)
(***************************************************************************)
EXTENDS HealthMonitor, Verifier

CONSTANTS
    Start,          \* what is subscribed, registered and set at the start
    MaxCalls        \* bound: calls ever made by user code

ASSUME ChecksAssumption ==
    /\ MaxSubs \in Nat /\ Len(Start.subs) <= MaxSubs
    /\ Start.subs \in Seq(Sub) /\ Start.checks \in Seq(CheckName)
    /\ \A i \in DOMAIN Start.subs : Start.subs[i].id = i
    /\ \A i, j \in DOMAIN Start.checks :
          Start.checks[i] = Start.checks[j] => i = j
    /\ Start.factories \in [LayerName -> Factories \cup {NoFactory}]
    /\ Start.defaults \in Seq(Layer)

VARIABLE calls

vars == <<stack, busVars, checks, verifierVars, calls>>

Init ==
    /\ stack = [t \in Thread |-> <<>>]
    /\ subs = Start.subs /\ issued = Len(Start.subs)
    /\ checks = Start.checks
    /\ factories = Start.factories
    /\ defaults = Start.defaults
    /\ calls = 0

CallBus(t) ==
    /\ \/ \E kind \in EventKind \cup {Wildcard} : Subscribe(t, kind)
       \/ \E id \in 1..issued : Unsubscribe(t, id)
       \/ \E kind \in EventKind : Publish(t, kind)
    /\ UNCHANGED <<checks, verifierVars>>

CallMonitor(t) ==
    /\ \/ \E name \in CheckName :
             RegisterCheck(t, name) \/ UnregisterCheck(t, name) \/ RunOne(t, name)
       \/ RunAll(t)
    /\ UNCHANGED verifierVars

CallVerifier(t) ==
    /\ \/ \E name \in LayerName, layer \in Factories : RegisterVerifier(t, name, layer)
       \/ \E items \in Chains : Audit(t, items) \/ SetDefaultLayers(t, items)
       \/ AuditByDefault(t)
    /\ UNCHANGED <<busVars, checks>>

UserCode(t) ==
    /\ calls < MaxCalls
    /\ calls' = calls + 1
    /\ CallBus(t) \/ CallMonitor(t) \/ CallVerifier(t)

Step(t) ==
    /\ \/ BusStep(t) /\ UNCHANGED <<checks, verifierVars>>
       \/ HealthStep(t) /\ UNCHANGED verifierVars
       \/ AuditStep(t) /\ UNCHANGED <<busVars, checks>>
    /\ UNCHANGED calls

\* All calls that the bound allows have returned.
Rest ==
    /\ calls = MaxCalls /\ \A t \in Thread : stack[t] = <<>>
    /\ UNCHANGED vars

Next == (\E t \in Thread : UserCode(t) \/ Step(t)) \/ Rest

Spec == Init /\ [][Next]_vars

------------------------------------------------------------------------------
(* Properties                                                              *)

\* The types of all of them.
Frame == PublishFrame \cup HealthFrame \cup AuditFrame
TypeOK ==
    /\ BusTypeOK /\ HealthTypeOK /\ VerifierTypeOK
    /\ stack \in [Thread -> Seq(Frame)]
=============================================================================
