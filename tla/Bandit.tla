------------------------------- MODULE Bandit -------------------------------
(***************************************************************************)
(* The bandit selectors of Atlas: what invoke, the cascade and feedback do *)
(* with the active selector, from several threads, while it is replaced,   *)
(* saved and loaded.  A call reads the active selector twice, before it    *)
(* chooses and again before it reports; save and load take the bandit's    *)
(* lock around the arms and not around the store.                          *)
(*                                                                         *)
(* Atlas has the registry and the health of the providers; here the        *)
(* healthy candidates of a call are given.  An arm that does not exist is  *)
(* an arm of zeros.  Rewards are in tenths.                                *)
(***************************************************************************)
EXTENDS Integers, SequencesExt

CONSTANTS
    Thread,
    Prov,           \* providers
    Part,           \* the values of bandit_context_key
    Bandits,        \* instances, each with a name of its own
    Kind,           \* the class of each: "ucb1" or "thompson"
    Installed,      \* the selector that the program sets when it starts
    Candidates,     \* the healthy names a call may find, in order
    Feedback,       \* what callers report: success and reward
    Past,           \* what earlier processes may have saved
    None,
    Named,          \* context["selector"] is a string
    Made, Remade,   \* the instances that a named one makes at each look-up
    MaxCalls,       \* bound: calls ever begun
    MaxRestarts     \* bound: restarts of the process

VARIABLES
    selector,   \* _active_selector
    arms,       \* _arms of each bandit
    saved,      \* what the store holds for each bandit, or None
    call,       \* the locals of the call each thread is in
    calls, restarts,
    reported,   \* history: the arms whose outcome has come back to each
                \* bandit since it was constructed or loaded
    stale       \* history: the bandits that a restart has emptied and no load
                \* has filled, or whose last load overlapped a save

history == <<reported, stale>>
vars == <<selector, arms, saved, call, calls, restarts, history>>

Arm == Part \X Prov
Counters == [successes : Nat, failures : Nat, reward : Nat, pulls : Nat]
Memory == [Arm -> Counters]

\* The counters of an arm go together: only UCB1 keeps pulls and rewards.
ArmOK(b, arm) ==
    IF Kind[b] = "thompson" THEN arm.pulls = 0 /\ arm.reward = 0
    ELSE arm.pulls = arm.successes + arm.failures /\ arm.reward <= 10 * arm.pulls

MemoryOK(b, memory) == memory \in Memory /\ \A a \in Arm : ArmOK(b, memory[a])

ASSUME BanditAssumption ==
    /\ Kind \in [Bandits -> {"ucb1", "thompson"}]
    /\ Installed \in Bandits \cup {None}
    /\ None \notin Bandits \cup Memory /\ Named \notin Bandits \cup {None}
    /\ Made \notin Bandits \cup {None} /\ Remade \notin Bandits \cup {None, Made}
    /\ Candidates \subseteq Seq(Prov) \ {<<>>}
    /\ Feedback \subseteq [success : BOOLEAN, reward : 0..10]
    /\ \A past \in Past :
          /\ past \in [Bandits -> Memory \cup {None}]
          /\ \A b \in Bandits : past[b] = None \/ MemoryOK(b, past[b])
    /\ MaxCalls \in Nat /\ MaxRestarts \in Nat

\* What a call may bring as its selector, and what a look-up may return.
Override == Bandits \cup {None, Named}
Selector == Bandits \cup {None, Made, Remade}

NoArm == [successes |-> 0, failures |-> 0, reward |-> 0, pulls |-> 0]
NoArms == [a \in Arm |-> NoArm]
Idle ==
    [pc |-> "idle", part |-> None, override |-> None, cands |-> <<>>,
     chooser |-> None, chosen |-> None, feeds |-> None, bandit |-> None,
     payload |-> None, changed |-> FALSE, suspect |-> FALSE]

Init ==
    /\ selector = Installed
    /\ arms = [b \in Bandits |-> NoArms]
    /\ saved \in Past
    /\ call = [t \in Thread |-> Idle]
    /\ calls = 0 /\ restarts = 0
    /\ reported = [b \in Bandits |-> {}]
    /\ stale = {b \in Bandits : saved[b] # None}

Begins(t) == call[t].pc = "idle" /\ calls < MaxCalls /\ calls' = calls + 1

\* The selector of a call: its own, if it brings an instance, or the active one.
\* A name makes an instance for this one look-up, which nobody else knows.
SelectorFor(override, fresh) ==
    IF override = None THEN selector ELSE IF override = Named THEN fresh ELSE override

\* UCB1: an arm without pulls scores infinity.
Beats(b, p, q, part) ==
    LET x == arms[b][<<part, p>>]
        y == arms[b][<<part, q>>]
    IN \/ x.pulls = 0 /\ y.pulls > 0
       \/ /\ x.pulls > 0 /\ y.pulls >= x.pulls
          /\ x.reward * y.pulls > y.reward * x.pulls

Ties(b, p, q, part) ==
    LET x == arms[b][<<part, p>>]
        y == arms[b][<<part, q>>]
    IN \/ x.pulls = 0 /\ y.pulls = 0
       \/ x.pulls = y.pulls /\ x.reward = y.reward

\* What select may return: whatever the exploration constant, so long as it is
\* not negative, an arm that no other has both a higher mean and no more pulls
\* than, the first of equals.
\* A Thompson sample may favour any of them.
Selectable(b, cands, part) ==
    IF b = Made THEN Range(cands)
    ELSE IF Kind[b] = "thompson" THEN Range(cands)
    ELSE {cands[i] : i \in {j \in DOMAIN cands :
            /\ \A k \in DOMAIN cands : ~Beats(b, cands[k], cands[j], part)
            /\ \A k \in 1..(j - 1) : ~Ties(b, cands[k], cands[j], part)}}

\* Atlas.invoke: _decide resolves the selector, ...
BeginInvoke(t, part, override, cands) ==
    /\ Begins(t)
    /\ call' = [call EXCEPT ![t] =
                   [Idle EXCEPT !.pc = "select", !.part = part,
                                !.override = override, !.cands = cands,
                                !.chooser = SelectorFor(override, Made)]]
    /\ UNCHANGED <<selector, arms, saved, restarts, history>>

\* ... which chooses under its own lock (without one, the first is taken), ...
Select(t) ==
    LET b == call[t].chooser IN
    /\ call[t].pc = "select"
    /\ \E p \in IF b = None THEN {Head(call[t].cands)}
                ELSE Selectable(b, call[t].cands, call[t].part) :
          /\ call' = [call EXCEPT ![t].pc = "resolve", ![t].chosen = p,
                                  ![t].cands = <<>>]
    /\ UNCHANGED <<selector, arms, saved, calls, restarts, history>>

\* A slip: the report goes to the active selector.
ResolveAgain_Default(t) ==
    /\ call[t].pc = "resolve"
    /\ call' = [call EXCEPT ![t].pc = "report", ![t].feeds = selector]
    /\ UNCHANGED <<selector, arms, saved, calls, restarts, history>>

\* ... and invoke resolves it again for the report ...
ResolveAgain(t) ==
    /\ call[t].pc = "resolve"
    /\ call' = [call EXCEPT ![t].pc = "report",
                            ![t].feeds = SelectorFor(call[t].override, Remade)]
    /\ UNCHANGED <<selector, arms, saved, calls, restarts, history>>

\* ... unless the provider is gone by then.  Atlas.route ends here as well.
EndUnreported(t) ==
    /\ call[t].pc = "resolve"
    /\ call' = [call EXCEPT ![t] = Idle]
    /\ UNCHANGED <<selector, arms, saved, calls, restarts, history>>

\* A cascade tries a provider that no bandit has chosen, and reports it to
\* whatever selector is active afterwards, whatever its context says.
BeginAttempt(t, part, p) ==
    /\ Begins(t)
    /\ call' = [call EXCEPT ![t] = [Idle EXCEPT !.pc = "attempt", !.part = part,
                                                !.chosen = p]]
    /\ UNCHANGED <<selector, arms, saved, restarts, history>>

EndAttempt(t) ==
    /\ call[t].pc = "attempt"
    /\ call' = [call EXCEPT ![t].pc = "conclude", ![t].feeds = selector]
    /\ UNCHANGED <<selector, arms, saved, calls, restarts, history>>

\* update of each class.  UCB1 takes a success without a reward for a full one.
Updated(b, arm, outcome) ==
    LET reward == IF outcome.reward = 0 /\ outcome.success THEN 10
                                                          ELSE outcome.reward
        counted == IF outcome.success THEN [arm EXCEPT !.successes = @ + 1]
                                      ELSE [arm EXCEPT !.failures = @ + 1]
    IN IF Kind[b] = "thompson" THEN counted
       ELSE [counted EXCEPT !.pulls = @ + 1, !.reward = @ + reward]

\* A slip: the outcome does not carry the partition of the call.
Feed_Mixed(b, part, p, outcome) ==
    arms' = IF b \in Bandits
            THEN [arms EXCEPT ![b][<<CHOOSE k \in Part : TRUE, p>>] = Updated(b, @, outcome)]
            ELSE arms

Feed(b, part, p, outcome) ==
    arms' = IF b \in Bandits
            THEN [arms EXCEPT ![b][<<part, p>>] = Updated(b, @, outcome)]
            ELSE arms

\* The provider has answered or raised; _safe_update under the bandit's lock.
\* What a named selector learns is lost with it.
Report(t) ==
    LET b == call[t].feeds
        part == call[t].part
    IN
    /\ call[t].pc \in {"report", "conclude"}
    /\ \E success \in BOOLEAN :
          Feed(b, part, call[t].chosen,
               [success |-> success, reward |-> IF success THEN 10 ELSE 0])
    /\ reported' = IF b \in Bandits
                   THEN [reported EXCEPT ![b] = @ \cup {<<part, call[t].chosen>>}]
                   ELSE reported
    /\ call' = [call EXCEPT ![t] = Idle]
    /\ UNCHANGED <<selector, saved, calls, restarts, stale>>

\* Atlas.feedback: get_selector, and then the update.
BeginFeedback(t) ==
    /\ Begins(t)
    /\ call' = [call EXCEPT ![t] = [Idle EXCEPT !.pc = "feedback",
                                                !.feeds = selector]]
    /\ UNCHANGED <<selector, arms, saved, restarts, history>>

EndFeedback(t) ==
    /\ call[t].pc = "feedback"
    /\ \E part \in Part, p \in Prov, outcome \in Feedback :
          Feed(call[t].feeds, part, p, outcome)
    /\ call' = [call EXCEPT ![t] = Idle]
    /\ UNCHANGED <<selector, saved, calls, restarts, history>>

SetSelector(t, b) ==
    /\ Begins(t)
    /\ selector' = b
    /\ call' = [u \in Thread |-> [call[u] EXCEPT !.changed = call[u].pc # "idle"]]
    /\ UNCHANGED <<arms, saved, restarts, history>>

\* save takes its snapshot under the lock, ...
BeginSave(t, b) ==
    /\ Begins(t)
    /\ call' = [call EXCEPT ![t] = [Idle EXCEPT !.pc = "put", !.bandit = b,
                                                !.payload = arms[b],
                                                !.suspect = b \in stale]]
    /\ UNCHANGED <<selector, arms, saved, restarts, history>>

\* The call ends, and others hold a copy from before: (history)
EndBefore(t, b) ==
    call' = [u \in Thread |->
                IF u = t THEN Idle
                ELSE [call[u] EXCEPT !.suspect = @ \/ call[u].bandit = b]]

\* ... and puts it without.
Put(t) ==
    LET b == call[t].bandit IN
    /\ call[t].pc = "put"
    /\ saved' = [saved EXCEPT ![b] = call[t].payload]
    /\ EndBefore(t, b)
    /\ stale' = IF call[t].suspect THEN stale \cup {b} ELSE stale
    /\ UNCHANGED <<selector, arms, calls, restarts, reported>>

PutFails(t) ==
    /\ call[t].pc = "put"
    /\ call' = [call EXCEPT ![t] = Idle]
    /\ UNCHANGED <<selector, arms, saved, calls, restarts, history>>

\* load gets what was saved (nothing: the arms stay), ...
BeginLoad(t, b) ==
    /\ Begins(t)
    /\ saved[b] # None
    /\ call' = [call EXCEPT ![t] = [Idle EXCEPT !.pc = "replace", !.bandit = b,
                                                !.payload = saved[b]]]
    /\ UNCHANGED <<selector, arms, saved, restarts, history>>

\* A slip: a provider's partitions replace each other as they are read.
Replace_One(t) ==
    LET b == call[t].bandit
        k == CHOOSE k \in Part : TRUE
    IN
    /\ call[t].pc = "replace"
    /\ arms' = [arms EXCEPT ![b] =
                   [a \in Arm |-> IF a[1] = k THEN call[t].payload[a] ELSE NoArm]]
    /\ reported' = [reported EXCEPT ![b] = {}]
    /\ stale' = IF call[t].suspect THEN stale \cup {b} ELSE stale \ {b}
    /\ EndBefore(t, b)
    /\ UNCHANGED <<selector, saved, calls, restarts>>

\* ... and replaces all arms under the lock.
Replace(t) ==
    LET b == call[t].bandit IN
    /\ call[t].pc = "replace"
    /\ arms' = [arms EXCEPT ![b] = call[t].payload]
    /\ reported' = [reported EXCEPT ![b] = {}]
    /\ stale' = IF call[t].suspect THEN stale \cup {b} ELSE stale \ {b}
    /\ EndBefore(t, b)
    /\ UNCHANGED <<selector, saved, calls, restarts>>

\* The process is started again: what was learned and not saved is gone.
Restart ==
    /\ restarts < MaxRestarts
    /\ restarts' = restarts + 1
    /\ selector' = Installed
    /\ arms' = [b \in Bandits |-> NoArms]
    /\ call' = [t \in Thread |-> Idle]
    /\ reported' = [b \in Bandits |-> {}]
    /\ stale' = Bandits
    /\ UNCHANGED <<saved, calls>>

\* All calls that the bound allows have ended.
Rest ==
    /\ calls = MaxCalls /\ \A t \in Thread : call[t].pc = "idle"
    /\ UNCHANGED vars

Next ==
    \/ \E t \in Thread :
          \/ \E part \in Part, o \in Override, c \in Candidates :
                BeginInvoke(t, part, o, c)
          \/ Select(t) \/ ResolveAgain(t) \/ EndUnreported(t)
          \/ \E part \in Part, p \in Prov : BeginAttempt(t, part, p)
          \/ EndAttempt(t) \/ Report(t)
          \/ BeginFeedback(t) \/ EndFeedback(t)
          \/ \E b \in Bandits \cup {None} : SetSelector(t, b)
          \/ \E b \in Bandits : BeginSave(t, b) \/ BeginLoad(t, b)
          \/ Put(t) \/ PutFails(t) \/ Replace(t)
    \/ Restart
    \/ Rest

Spec == Init /\ [][Next]_vars

------------------------------------------------------------------------------
(* Properties                                                              *)

CallType ==
    [pc : {"idle", "select", "resolve", "report", "attempt", "conclude", "feedback",
           "put", "replace"},
     part : Part \cup {None}, override : Override, cands : Seq(Prov),
     chooser : Selector, chosen : Prov \cup {None},
     feeds : Selector, bandit : Bandits \cup {None},
     payload : Memory \cup {None}, changed : BOOLEAN, suspect : BOOLEAN]

\* What each place of a call has at hand.
CallOK(c) ==
    /\ c \in CallType
    /\ c.pc = "idle" => c = Idle
    /\ c.pc = "select" => c.cands # <<>>
    /\ c.pc \in {"select", "resolve", "report", "attempt", "conclude"} => c.part \in Part
    /\ c.pc \in {"resolve", "report", "attempt", "conclude"} => c.chosen \in Prov
    /\ c.pc \in {"put", "replace"} <=> c.bandit # None
    /\ c.bandit # None => MemoryOK(c.bandit, c.payload)

DataOK ==
    /\ selector \in Bandits \cup {None}
    /\ arms \in [Bandits -> Memory] /\ saved \in [Bandits -> Memory \cup {None}]
    /\ \A b \in Bandits :
          MemoryOK(b, arms[b]) /\ (saved[b] = None \/ MemoryOK(b, saved[b]))
    /\ calls \in Nat /\ restarts \in Nat
    /\ reported \in [Bandits -> SUBSET Arm] /\ stale \subseteq Bandits

CallsOK == DOMAIN call = Thread /\ \A t \in Thread : CallOK(call[t])

\* The types, and what each call has at hand.
TypeOK == DataOK /\ CallsOK

\* The outcome of an invoke goes to the bandit that has chosen the provider,
\* although the selector is resolved twice, unless the active selector was set
\* during the call: a bandit learns from its own choices.  A selector given by
\* name is made anew at each look-up and the one that chose learns nothing, but
\* neither does a bandit that did not choose.
OutcomeToItsChooser ==
    \A t \in Thread :
        call[t].pc = "report" /\ ~call[t].changed =>
            \/ call[t].feeds = call[t].chooser
            \/ call[t].override = Named /\ call[t].feeds \notin Bandits

\* UCB1 explores each option before it picks one again, as far as concurrent
\* calls allow: it does not pick an arm whose outcome has come back to it while
\* another candidate has none, in the same partition.
RepeatsAfterAll(t) ==
    LET b == call[t].chooser
        part == call[t].part
    IN (/\ call[t].pc = "select" /\ call'[t].pc = "resolve"
        /\ b \in Bandits /\ Kind[b] = "ucb1"
        /\ <<part, call'[t].chosen>> \in reported[b])
       => \A p \in Range(call[t].cands) : arms[b][<<part, p>>].pulls > 0

ExploresFirst == [][\A t \in Thread : RepeatsAfterAll(t)]_call

Trials(arm) == arm.successes + arm.failures
Covers(some, others) ==
    others # None => \A a \in Arm : Trials(some[a]) >= Trials(others[a])

\* A bandit knows at least what the store holds of it, unless it was started
\* again and not loaded, or loaded and saved at the same time.
MemoryCoversStore == \A b \in Bandits \ stale : Covers(arms[b], saved[b])
=============================================================================
