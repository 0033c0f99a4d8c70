------------------------------ MODULE Callbacks ------------------------------
(***************************************************************************)
(* Threads inside code that calls user code: handlers of the event bus,    *)
(* health checks, verifier layers and rules.  Each copies what it will     *)
(* call under a lock and calls it without, so that user code may call back *)
(* into any of them, on the same thread or another.  (The locks are never  *)
(* held across a call: each critical section is one step.)                 *)
(***************************************************************************)
EXTENDS Integers, SequencesExt

CONSTANTS
    Thread,
    MaxDepth    \* bound: calls of one thread inside each other

VARIABLE
    stack       \* the calls each thread is in, the innermost first

\* A call is a record with a field "inside": it is waiting for user code.
Top(t) == Head(stack[t])
Running(t, op) == stack[t] # <<>> /\ Top(t).op = op /\ ~Top(t).inside
InUserCode(t) == stack[t] # <<>> => Top(t).inside

Push(t, frame) == stack' = [stack EXCEPT ![t] = <<frame>> \o @]
Replaced(t, frame) == [stack EXCEPT ![t] = <<frame>> \o Tail(@)]
Becomes(t, frame) == stack' = Replaced(t, frame)
Pop(t) == stack' = [stack EXCEPT ![t] = Tail(@)]

\* User code makes a call.
MayCall(t) == InUserCode(t) /\ Len(stack[t]) < MaxDepth

\* The calls under way, changed one by one: for history in them.
Everywhere(st, Note(_)) ==
    [t \in Thread |-> [i \in DOMAIN st[t] |-> Note(st[t][i])]]
=============================================================================
