------------------------------ MODULE EventBus ------------------------------
(* The process-wide bus: synchronous, in the publisher's thread.           *)
EXTENDS Callbacks

CONSTANTS
    EventKind,
    Wildcard,       \* subscribe(None, ...)
    MaxSubs         \* bound: subscriptions ever made

VARIABLES
    subs,           \* _subscriptions, in the order they were made
    issued          \* subscription ids given out

busVars == <<subs, issued>>

Sub == [id : Nat, kind : EventKind \cup {Wildcard}]
Ids(list) == {list[i].id : i \in DOMAIN list}

\* "called" and "stayed" are history: the subscriptions whose handlers have been
\* called, and those that were there at the snapshot and still are.
Publication(kind) ==
    [op |-> "publish", inside |-> FALSE, kind |-> kind, left |-> subs,
     called |-> <<>>, stayed |-> Ids(subs)]

Matches(sub, kind) == sub.kind \in {kind, Wildcard}

Subscribe(t, kind) ==
    /\ InUserCode(t)
    /\ issued < MaxSubs
    /\ issued' = issued + 1
    /\ subs' = Append(subs, [id |-> issued + 1, kind |-> kind])
    /\ UNCHANGED stack

\* Any thread may take any subscription away, a handler its own as well.
Unsubscribe(t, id) ==
    /\ InUserCode(t)
    /\ \E i \in DOMAIN subs : subs[i].id = id /\ subs' = RemoveAt(subs, i)
    /\ stack' = LET Note(frame) == IF frame.op = "publish"
                                   THEN [frame EXCEPT !.stayed = @ \ {id}] ELSE frame
                IN Everywhere(stack, Note)
    /\ UNCHANGED issued

\* publish copies the subscriptions, ...
Publish(t, kind) ==
    /\ MayCall(t)
    /\ Push(t, Publication(kind))
    /\ UNCHANGED busVars

\* ... passes over those of another kind ...
PassOver(t) ==
    /\ Running(t, "publish")
    /\ Top(t).left # <<>> /\ ~Matches(Head(Top(t).left), Top(t).kind)
    /\ Becomes(t, [Top(t) EXCEPT !.left = Tail(@)])
    /\ UNCHANGED busVars

\* ... and calls the others in their order; ...
Call(t) ==
    /\ Running(t, "publish")
    /\ Top(t).left # <<>> /\ Matches(Head(Top(t).left), Top(t).kind)
    /\ Becomes(t, [Top(t) EXCEPT !.left = Tail(@), !.inside = TRUE,
                                 !.called = Append(@, Head(Top(t).left).id)])
    /\ UNCHANGED busVars

\* Mutant: what a handler raises is not suppressed, and ends the publication.
Returned_Raises(t) ==
    /\ stack[t] # <<>> /\ Top(t).op = "publish" /\ Top(t).inside
    /\ \E left \in {Top(t).left, <<>>} :
          Becomes(t, [Top(t) EXCEPT !.inside = FALSE, !.left = left])
    /\ UNCHANGED busVars

\* ... a handler that raises is like one that returns.
Returned(t) ==
    /\ stack[t] # <<>> /\ Top(t).op = "publish" /\ Top(t).inside
    /\ Becomes(t, [Top(t) EXCEPT !.inside = FALSE])
    /\ UNCHANGED busVars

EndPublish(t) ==
    /\ Running(t, "publish") /\ Top(t).left = <<>>
    /\ Pop(t)
    /\ UNCHANGED busVars

BusStep(t) == PassOver(t) \/ Call(t) \/ Returned(t) \/ EndPublish(t)

------------------------------------------------------------------------------
(* Properties                                                              *)

PublishFrame ==
    [op : {"publish"}, inside : BOOLEAN, kind : EventKind, left : Seq(Sub),
     called : Seq(Nat), stayed : SUBSET Nat]

\* Types; ids are never given out twice, and subs is in their order.
BusTypeOK ==
    /\ subs \in Seq(Sub)
    /\ issued \in 0..MaxSubs
    /\ \A i \in DOMAIN subs : subs[i] \in Sub /\ subs[i].id \in 1..issued
    /\ \A i, j \in DOMAIN subs : i < j => subs[i].id < subs[j].id

\* A publication calls each handler at most once, in the order of subscription,
\* and when it ends it has called every matching handler that was subscribed
\* all the while: a handler that takes itself, or another, away does not make
\* it skip a third.
EachHandlerOnce ==
    \A t \in Thread : \A i \in DOMAIN stack[t] :
        LET pub == stack[t][i] IN
        pub.op = "publish" =>
            /\ \A m, n \in DOMAIN pub.called : m < n => pub.called[m] < pub.called[n]
            /\ pub.left = <<>> =>
                 \A j \in DOMAIN subs :
                    subs[j].id \in pub.stayed /\ Matches(subs[j], pub.kind) =>
                        subs[j].id \in Range(pub.called)
=============================================================================
