---------------------------- MODULE BanditProofs ----------------------------
(***************************************************************************)
(* Proofs about Bandit: the types, that an outcome goes to the bandit that *)
(* chose, that a bandit covers what the store holds of it, and that UCB1   *)
(* explores first.                                                         *)
(***************************************************************************)
EXTENDS Bandit, TLAPS

USE DEF Begins, history

\* What the constants are.
LEMMA Constants ==
    /\ None \notin Bandits /\ Named \notin Bandits /\ Named # None /\ None \notin Memory
    /\ Made \notin Bandits /\ Remade \notin Bandits
    /\ \A b \in Bandits : Kind[b] # "thompson" => Kind[b] = "ucb1"
    /\ Candidates \subseteq Seq(Prov) \ {<<>>}
    /\ Installed \in Bandits \cup {None}
  BY BanditAssumption DEF BanditAssumption

------------------------------------------------------------------------------
(* Types                                                                   *)

\* A thread that is in no call.
LEMMA IdleOK ==
    /\ Idle \in CallType /\ CallOK(Idle) /\ Idle.pc = "idle" /\ Idle.bandit = None
    /\ Idle.changed = FALSE /\ Idle.suspect = FALSE
  BY DEF CallOK, CallType, Idle, Selector, Override

\* A bandit that was just made.
LEMMA NoArmsOK == \A b \in Bandits : MemoryOK(b, NoArms)
  BY DEF MemoryOK, Memory, Counters, NoArms, NoArm, ArmOK

\* The call of feedback as it begins.
LEMMA FeedbackCall ==
    ASSUME NEW s \in Selector
    PROVE  CallOK([Idle EXCEPT !.pc = "feedback", !.feeds = s])
<1> DEFINE d == [Idle EXCEPT !.pc = "feedback", !.feeds = s]
<1>0. Idle \in CallType
  BY IdleOK
<1>1. d \in CallType
  BY <1>0 DEF CallType
<1>2. d.pc = "feedback" /\ d.bandit = None
  BY IdleOK DEF CallType
<1> HIDE DEF d
<1>3. CallOK(d)
  BY <1>1, <1>2 DEF CallOK
<1> QED
  BY <1>3 DEF d

\* The calls of save and load as they begin.
LEMMA StoreCalls ==
    ASSUME NEW b \in Bandits, NEW memory, MemoryOK(b, memory), NEW suspect \in BOOLEAN
    PROVE  /\ CallOK([Idle EXCEPT !.pc = "put", !.bandit = b, !.payload = memory,
                                  !.suspect = suspect])
           /\ CallOK([Idle EXCEPT !.pc = "replace", !.bandit = b, !.payload = memory])
<1>0. Idle \in CallType
  BY IdleOK
<1>1. memory \in Memory \cup {None}
  BY DEF MemoryOK
<1>3. CallOK([Idle EXCEPT !.pc = "put", !.bandit = b, !.payload = memory,
                          !.suspect = suspect])
  <2> DEFINE d == [Idle EXCEPT !.pc = "put", !.bandit = b, !.payload = memory,
                               !.suspect = suspect]
  <2>1. d \in CallType
    BY <1>0, <1>1 DEF CallType
  <2>2. d.pc = "put" /\ d.bandit = b /\ d.payload = memory
    BY <1>0 DEF CallType
  <2> HIDE DEF d
  <2>3. CallOK(d)
    BY <2>1, <2>2, Constants DEF CallOK
  <2> QED
    BY <2>3 DEF d
<1>4. CallOK([Idle EXCEPT !.pc = "replace", !.bandit = b, !.payload = memory])
  <2> DEFINE d == [Idle EXCEPT !.pc = "replace", !.bandit = b, !.payload = memory]
  <2>1. d \in CallType
    BY <1>0, <1>1 DEF CallType
  <2>2. d.pc = "replace" /\ d.bandit = b /\ d.payload = memory
    BY <1>0 DEF CallType
  <2> HIDE DEF d
  <2>3. CallOK(d)
    BY <2>1, <2>2, Constants DEF CallOK
  <2> QED
    BY <2>3 DEF d
<1> QED
  BY <1>3, <1>4

\* What an arm of a bandit is.
LEMMA MemoryFacts ==
    ASSUME NEW b \in Bandits, NEW memory, MemoryOK(b, memory), NEW a \in Arm
    PROVE  memory[a] \in Counters /\ ArmOK(b, memory[a])
  BY DEF MemoryOK, Memory

\* An update keeps the counters of an arm together.
LEMMA UpdatedOK ==
    ASSUME NEW b \in Bandits, NEW arm \in Counters, ArmOK(b, arm),
           NEW o \in [success : BOOLEAN, reward : 0..10]
    PROVE  /\ Updated(b, arm, o) \in Counters /\ ArmOK(b, Updated(b, arm, o))
           /\ Trials(Updated(b, arm, o)) = Trials(arm) + 1
           /\ Kind[b] = "ucb1" => Updated(b, arm, o).pulls > 0
           /\ Updated(b, arm, o).pulls >= arm.pulls
<1> DEFINE counted == IF o.success THEN [arm EXCEPT !.successes = @ + 1]
                                   ELSE [arm EXCEPT !.failures = @ + 1]
           reward == IF o.reward = 0 /\ o.success THEN 10 ELSE o.reward
<1>1. /\ counted \in Counters /\ Trials(counted) = Trials(arm) + 1
      /\ counted.pulls = arm.pulls /\ counted.reward = arm.reward
  BY DEF Counters, Trials
<1>2. reward \in 0..10
  OBVIOUS
<1>3. Updated(b, arm, o) = IF Kind[b] = "thompson" THEN counted
                           ELSE [counted EXCEPT !.pulls = @ + 1, !.reward = @ + reward]
  BY DEF Updated
<1> HIDE DEF counted, reward
<1>4. CASE Kind[b] = "thompson"
  BY <1>1, <1>3, <1>4 DEF ArmOK, Counters
<1>5. CASE Kind[b] # "thompson"
  <2> DEFINE new == Updated(b, arm, o)
  <2>1. new = [counted EXCEPT !.pulls = @ + 1, !.reward = @ + reward]
    BY <1>3, <1>5
  <2>2. new \in Counters /\ new.successes = counted.successes /\ new.failures = counted.failures
        /\ new.pulls = counted.pulls + 1 /\ new.reward = counted.reward + reward
    <3>1. counted.reward + reward \in Nat /\ counted.pulls + 1 \in Nat
      BY <1>1, <1>2 DEF Counters
    <3> QED
      BY <1>1, <2>1, <3>1 DEF Counters
  <2> HIDE DEF new
  <2>3. Trials(new) = Trials(counted)
    BY <2>2 DEF Trials
  <2>4. ArmOK(b, new)
    <3>1. arm.pulls = Trials(arm) /\ arm.reward <= 10 * arm.pulls /\ arm \in Counters
      BY <1>5 DEF ArmOK, Trials
    <3>2. new.pulls = Trials(new)
      BY <1>1, <2>2, <2>3, <3>1
    <3>3. new.reward <= 10 * new.pulls
      BY <1>1, <1>2, <2>2, <3>1 DEF Counters
    <3> QED
      BY <1>5, <3>2, <3>3 DEF ArmOK, Trials
  <2>5. new.pulls > 0 /\ new.pulls >= arm.pulls
    BY <1>1, <2>2 DEF Counters
  <2> QED
    BY <1>1, <1>5, Constants, <2>2, <2>3, <2>4, <2>5 DEF new
<1> QED
  BY <1>4, <1>5

\* What an outcome changes: one arm of the bandit it goes to, if that is one
\* of the program's.
LEMMA FeedOK ==
    ASSUME DataOK, NEW b, NEW part \in Part, NEW p \in Prov,
           NEW o \in [success : BOOLEAN, reward : 0..10], Feed(b, part, p, o)
    PROVE  /\ arms' \in [Bandits -> Memory]
           /\ \A d \in Bandits : MemoryOK(d, arms'[d])
           /\ \A d \in Bandits, a \in Arm :
                 /\ Trials(arms'[d][a]) >= Trials(arms[d][a])
                 /\ arms'[d][a].pulls >= arms[d][a].pulls
           /\ b \in Bandits /\ Kind[b] = "ucb1" => arms'[b][<<part, p>>].pulls > 0
<1>0. \A d \in Bandits, a \in Arm :
          /\ arms[d][a] \in Counters /\ ArmOK(d, arms[d][a])
          /\ Trials(arms[d][a]) >= Trials(arms[d][a])
          /\ arms[d][a].pulls >= arms[d][a].pulls
  <2> SUFFICES ASSUME NEW d \in Bandits, NEW a \in Arm
               PROVE  /\ arms[d][a] \in Counters /\ ArmOK(d, arms[d][a])
                      /\ Trials(arms[d][a]) >= Trials(arms[d][a])
                      /\ arms[d][a].pulls >= arms[d][a].pulls
    OBVIOUS
  <2>1. arms[d][a] \in Counters /\ ArmOK(d, arms[d][a])
    BY MemoryFacts DEF DataOK
  <2> QED
    BY <2>1 DEF Counters, Trials
<1>1. CASE b \notin Bandits
  <2>1. arms' = arms
    BY <1>1 DEF Feed
  <2> QED
    BY <1>0, <1>1, <2>1 DEF DataOK
<1>2. CASE b \in Bandits
  <2> DEFINE x == <<part, p>>
             new == Updated(b, arms[b][x], o)
  <2>1. arms' = [arms EXCEPT ![b] = [@ EXCEPT ![x] = new]]
    BY <1>2 DEF Feed
  <2>2. x \in Arm
    BY DEF Arm
  <2>3. arms[b] \in Memory /\ arms[b][x] \in Counters /\ ArmOK(b, arms[b][x])
    BY <1>0, <1>2, <2>2 DEF DataOK
  <2>4. /\ new \in Counters /\ ArmOK(b, new) /\ Trials(new) = Trials(arms[b][x]) + 1
        /\ new.pulls >= arms[b][x].pulls
        /\ Kind[b] = "ucb1" => new.pulls > 0
        /\ Trials(arms[b][x]) \in Nat
    BY <1>2, <2>3, UpdatedOK DEF Trials, Counters
  <2> HIDE DEF new, x
  <2>5. /\ arms'[b] = [arms[b] EXCEPT ![x] = new]
        /\ \A d \in Bandits \ {b} : arms'[d] = arms[d]
        /\ arms' = [d \in Bandits |-> arms'[d]]
    BY <1>2, <2>1 DEF DataOK
  <2>6. /\ arms'[b] \in Memory /\ arms'[b][x] = new
        /\ \A a \in Arm \ {x} : arms'[b][a] = arms[b][a]
    BY <2>2, <2>3, <2>4, <2>5 DEF Memory
  <2>7. ASSUME NEW d \in Bandits
        PROVE  MemoryOK(d, arms'[d]) /\ arms'[d] \in Memory
    <3>1. CASE d = b
      BY <1>0, <2>4, <2>6, <3>1 DEF MemoryOK
    <3>2. CASE d # b
      BY <2>5, <3>2 DEF DataOK
    <3> QED
      BY <3>1, <3>2
  <2>8. ASSUME NEW d \in Bandits, NEW a \in Arm
        PROVE  /\ Trials(arms'[d][a]) >= Trials(arms[d][a])
               /\ arms'[d][a].pulls >= arms[d][a].pulls
    <3>1. CASE d = b /\ a = x
      BY <2>4, <2>6, <3>1
    <3>2. CASE ~(d = b /\ a = x)
      <4>1. arms'[d][a] = arms[d][a]
        BY <2>5, <2>6, <3>2
      <4> QED
        BY <1>0, <4>1
    <3> QED
      BY <3>1, <3>2
  <2>9. Kind[b] = "ucb1" => arms'[b][x].pulls > 0
    BY <2>4, <2>6
  <2> QED
    BY <1>2, <2>5, <2>7, <2>8, <2>9 DEF x
<1> QED
  BY <1>1, <1>2

\* The outcome a call reports goes to the arm it chose.
LEMMA ReportFeeds ==
    ASSUME TypeOK, NEW t \in Thread, Report(t)
    PROVE  /\ call[t].part \in Part /\ call[t].chosen \in Prov
           /\ \E o \in [success : BOOLEAN, reward : 0..10] :
                  Feed(call[t].feeds, call[t].part, call[t].chosen, o)
<1>1. PICK success \in BOOLEAN :
          Feed(call[t].feeds, call[t].part, call[t].chosen,
               [success |-> success, reward |-> IF success THEN 10 ELSE 0])
  BY DEF Report
<1>2. [success |-> success, reward |-> IF success THEN 10 ELSE 0]
          \in [success : BOOLEAN, reward : 0..10]
  OBVIOUS
<1>3. call[t].part \in Part /\ call[t].chosen \in Prov
  BY DEF Report, TypeOK, CallsOK, CallOK
<1> QED
  BY <1>1, <1>2, <1>3

\* A step that leaves one call in another place.
LEMMA CallTypes ==
    ASSUME CallsOK, NEW t \in Thread, NEW c, CallOK(c), call' = [call EXCEPT ![t] = c]
    PROVE  CallsOK'
  BY DEF CallsOK

\* A call begins: its record is Idle with some fields set.
LEMMA BeginTypes ==
    ASSUME TypeOK, NEW t \in Thread,
           \/ \E part \in Part, o \in Override, c \in Candidates :
                 BeginInvoke(t, part, o, c)
           \/ \E part \in Part, p \in Prov : BeginAttempt(t, part, p)
           \/ BeginFeedback(t)
           \/ \E b \in Bandits : BeginSave(t, b) \/ BeginLoad(t, b)
    PROVE  CallsOK'
<1>0. selector \in Bandits \cup {None} /\ selector \in Selector
  BY DEF TypeOK, DataOK, Selector
<1>1. ASSUME NEW part \in Part, NEW o \in Override, NEW c \in Candidates,
             BeginInvoke(t, part, o, c)
      PROVE  CallsOK'
  <2> DEFINE s == SelectorFor(o, Made)
             d == [Idle EXCEPT !.pc = "select", !.part = part, !.override = o,
                               !.cands = c, !.chooser = s]
  <2>1. s \in Selector /\ c \in Seq(Prov) /\ c # <<>>
    BY <1>0, Constants DEF SelectorFor, Selector, Override
  <2> HIDE DEF s
  <2>2. d \in CallType
    <3> DEFINE e == [Idle EXCEPT !.pc = "select", !.part = part, !.override = o, !.cands = c]
    <3>1. e \in CallType
      BY <2>1, IdleOK DEF CallType
    <3>2. d = [e EXCEPT !.chooser = s]
      BY IdleOK DEF CallType
    <3> HIDE DEF e, d
    <3> QED
      BY <2>1, <3>1, <3>2 DEF CallType
  <2>3. d.pc = "select" /\ d.part = part /\ d.cands = c /\ d.bandit = None
    BY IdleOK DEF CallType
  <2> HIDE DEF d
  <2>4. CallOK(d)
    BY <2>1, <2>2, <2>3 DEF CallOK
  <2>5. call' = [call EXCEPT ![t] = d]
    BY <1>1 DEF BeginInvoke, d, s
  <2> QED
    BY <2>4, <2>5, CallTypes DEF TypeOK
<1>2. ASSUME NEW part \in Part, NEW p \in Prov, BeginAttempt(t, part, p)
      PROVE  CallsOK'
  <2> DEFINE d == [Idle EXCEPT !.pc = "attempt", !.part = part, !.chosen = p]
  <2>1. d \in CallType
    BY IdleOK DEF CallType
  <2>2. d.pc = "attempt" /\ d.part = part /\ d.chosen = p /\ d.bandit = None
    BY IdleOK DEF CallType
  <2> HIDE DEF d
  <2>3. CallOK(d)
    BY <2>1, <2>2 DEF CallOK
  <2>4. call' = [call EXCEPT ![t] = d]
    BY <1>2 DEF BeginAttempt, d
  <2> QED
    BY <2>3, <2>4, CallTypes DEF TypeOK
<1>3. CASE BeginFeedback(t)
  <2>1. CallOK([Idle EXCEPT !.pc = "feedback", !.feeds = selector])
    BY <1>0, FeedbackCall
  <2>2. call' = [call EXCEPT ![t] = [Idle EXCEPT !.pc = "feedback", !.feeds = selector]]
    BY <1>3 DEF BeginFeedback
  <2> QED
    BY <2>1, <2>2, CallTypes DEF TypeOK
<1>4. ASSUME NEW b \in Bandits, BeginSave(t, b)
      PROVE  CallsOK'
  <2> DEFINE s == b \in stale
             d == [Idle EXCEPT !.pc = "put", !.bandit = b, !.payload = arms[b], !.suspect = s]
  <2>1. call' = [call EXCEPT ![t] = d]
    BY <1>4 DEF BeginSave
  <2>2. MemoryOK(b, arms[b]) /\ s \in BOOLEAN
    BY DEF TypeOK, DataOK
  <2> HIDE DEF s
  <2>3. CallOK(d)
    BY <2>2, StoreCalls
  <2> HIDE DEF d
  <2> QED
    BY <2>1, <2>3, CallTypes DEF TypeOK
<1>5. ASSUME NEW b \in Bandits, BeginLoad(t, b)
      PROVE  CallsOK'
  <2> DEFINE d == [Idle EXCEPT !.pc = "replace", !.bandit = b, !.payload = saved[b]]
  <2>1. call' = [call EXCEPT ![t] = d]
    BY <1>5 DEF BeginLoad
  <2>2. MemoryOK(b, saved[b])
    BY <1>5 DEF BeginLoad, TypeOK, DataOK
  <2>3. CallOK(d)
    BY <2>2, StoreCalls
  <2> HIDE DEF d
  <2> QED
    BY <2>1, <2>3, CallTypes DEF TypeOK
<1> QED
  BY <1>1, <1>2, <1>3, <1>4, <1>5

\* A call goes on: some of its fields change.
LEMMA MoveTypes ==
    ASSUME TypeOK, NEW t \in Thread,
           \/ Select(t) \/ ResolveAgain(t) \/ EndUnreported(t) \/ EndAttempt(t)
           \/ Report(t) \/ EndFeedback(t) \/ PutFails(t)
    PROVE  CallsOK'
<1>0. /\ selector \in Bandits \cup {None} /\ selector \in Selector
      /\ call[t] \in CallType /\ CallOK(call[t])
  BY DEF TypeOK, DataOK, CallsOK, CallOK, Selector
<1>1. CASE Select(t)
  <2>1. call[t].cands \in Seq(Prov) /\ call[t].cands # <<>> /\ call[t].part \in Part
    BY <1>0, <1>1 DEF Select, CallOK, CallType
  <2>2. \A p \in Range(call[t].cands) : p \in Prov
    BY <2>1 DEF Range
  <2>3. Head(call[t].cands) \in Prov
    BY <2>1
  <2>4. PICK p \in IF call[t].chooser = None THEN {Head(call[t].cands)}
                   ELSE Selectable(call[t].chooser, call[t].cands, call[t].part) :
               call' = [call EXCEPT ![t] = [@ EXCEPT !.pc = "resolve", !.chosen = p,
                                                     !.cands = <<>>]]
    BY <1>1 DEF Select
  <2>5. p \in Prov
    BY <2>2, <2>3 DEF Selectable, Range
  <2> DEFINE d == [call[t] EXCEPT !.pc = "resolve", !.chosen = p, !.cands = <<>>]
  <2>6. d \in CallType
    <3> DEFINE none == <<>>
    <3>1. none \in Seq(Prov) /\ d = [call[t] EXCEPT !.pc = "resolve", !.chosen = p, !.cands = none]
      OBVIOUS
    <3> HIDE DEF none, d
    <3> QED
      BY <1>0, <2>5, <3>1 DEF CallType
  <2>7. d.pc = "resolve" /\ d.part = call[t].part /\ d.chosen = p /\ d.bandit = call[t].bandit
    BY <1>0 DEF CallType
  <2>8. call' = [call EXCEPT ![t] = d]
    BY <2>4
  <2> HIDE DEF d
  <2>9. CallOK(d)
    BY <1>0, <1>1, <2>1, <2>5, <2>6, <2>7 DEF CallOK, Select
  <2> QED
    BY <2>8, <2>9, CallTypes DEF TypeOK
<1>2. CASE ResolveAgain(t) \/ EndAttempt(t)
  <2>1. PICK pc \in {"report", "conclude"}, b \in Selector :
            call' = [call EXCEPT ![t] = [@ EXCEPT !.pc = pc, !.feeds = b]]
    <3> DEFINE s == SelectorFor(call[t].override, Remade)
    <3>1. s \in Selector
      BY <1>0 DEF SelectorFor, CallType, Selector, Override
    <3>2. \/ call' = [call EXCEPT ![t] = [@ EXCEPT !.pc = "report", !.feeds = s]]
          \/ call' = [call EXCEPT ![t] = [@ EXCEPT !.pc = "conclude", !.feeds = selector]]
      BY <1>2 DEF ResolveAgain, EndAttempt
    <3> HIDE DEF s
    <3> QED
      BY <1>0, <3>1, <3>2
  <2> DEFINE d == [call[t] EXCEPT !.pc = pc, !.feeds = b]
  <2>2. d \in CallType
    BY <1>0 DEF CallType
  <2>3. d.pc = pc /\ d.part = call[t].part /\ d.chosen = call[t].chosen
        /\ d.bandit = call[t].bandit
    BY <1>0 DEF CallType
  <2>4. call' = [call EXCEPT ![t] = d]
    BY <2>1
  <2> HIDE DEF d
  <2>5. call[t].pc \in {"resolve", "attempt"}
    BY <1>2 DEF ResolveAgain, EndAttempt
  <2>6. CallOK(d)
    BY <1>0, <2>2, <2>3, <2>5 DEF CallOK
  <2> QED
    BY <2>4, <2>6, CallTypes DEF TypeOK
<1>3. CASE EndUnreported(t) \/ Report(t) \/ EndFeedback(t) \/ PutFails(t)
  <2>1. call' = [call EXCEPT ![t] = Idle]
    BY <1>3 DEF EndUnreported, Report, EndFeedback, PutFails
  <2> QED
    BY <2>1, IdleOK, CallTypes DEF TypeOK
<1> QED
  BY <1>1, <1>2, <1>3

\* The steps that change a flag in every call.
LEMMA FlagTypes ==
    ASSUME TypeOK, NEW t \in Thread,
           \/ \E b \in Bandits \cup {None} : SetSelector(t, b)
           \/ Put(t) \/ Replace(t)
    PROVE  CallsOK'
<1>1. ASSUME NEW u \in Thread
      PROVE  CallOK([call[u] EXCEPT !.changed = call[u].pc # "idle"])
  <2> DEFINE c == call[u].pc # "idle"
             d == [call[u] EXCEPT !.changed = c]
  <2>1. call[u] \in CallType /\ CallOK(call[u]) /\ c \in BOOLEAN
    BY DEF TypeOK, CallsOK, CallOK
  <2>2. call[u].pc = "idle" => d = call[u]
    BY <2>1, IdleOK DEF CallOK, CallType
  <2> HIDE DEF c
  <2>3. d \in CallType
    BY <2>1 DEF CallType
  <2>4. /\ d.pc = call[u].pc /\ d.part = call[u].part /\ d.chosen = call[u].chosen
        /\ d.bandit = call[u].bandit /\ d.cands = call[u].cands /\ d.payload = call[u].payload
    BY <2>1 DEF CallType
  <2> HIDE DEF d
  <2>5. CallOK(d)
    BY <2>1, <2>2, <2>3, <2>4 DEF CallOK
  <2> QED
    BY <2>5 DEF c, d
<1>2. ASSUME NEW u \in Thread, NEW b \in Bandits
      PROVE  CallOK([call[u] EXCEPT !.suspect = @ \/ call[u].bandit = b])
  <2> DEFINE c == call[u].suspect \/ call[u].bandit = b
             d == [call[u] EXCEPT !.suspect = c]
  <2>1. call[u] \in CallType /\ CallOK(call[u]) /\ c \in BOOLEAN
    BY DEF TypeOK, CallsOK, CallOK
  <2>2. call[u].pc = "idle" => ~c /\ ~call[u].suspect
    BY <2>1, IdleOK, Constants DEF CallOK
  <2> HIDE DEF c
  <2>3. d \in CallType
    BY <2>1 DEF CallType
  <2>4. /\ d.pc = call[u].pc /\ d.part = call[u].part /\ d.chosen = call[u].chosen
        /\ d.bandit = call[u].bandit /\ d.cands = call[u].cands /\ d.payload = call[u].payload
    BY <2>1 DEF CallType
  <2>5. call[u].pc = "idle" => d = call[u]
    BY <2>1, <2>2 DEF CallType
  <2> HIDE DEF d
  <2>6. CallOK(d)
    BY <2>1, <2>3, <2>4, <2>5 DEF CallOK
  <2> QED
    BY <2>6 DEF c, d
<1>3. ASSUME NEW b \in Bandits \cup {None}, SetSelector(t, b)
      PROVE  CallsOK'
  BY <1>1, <1>3 DEF SetSelector, CallsOK
<1>4. CASE Put(t) \/ Replace(t)
  <2>1. EndBefore(t, call[t].bandit)
    BY <1>4 DEF Put, Replace
  <2>2. call[t].bandit \in Bandits
    BY <1>4 DEF Put, Replace, TypeOK, CallsOK, CallOK, CallType
  <2> QED
    BY <1>2, <2>1, <2>2, IdleOK DEF EndBefore, CallsOK
<1> QED
  BY <1>3, <1>4

\* The data keeps its types in every step.
LEMMA DataTypes ==
    ASSUME TypeOK, Next
    PROVE  DataOK'
<1>1. ASSUME NEW t \in Thread, Report(t)
      PROVE  DataOK'
  <2>1. PICK o \in [success : BOOLEAN, reward : 0..10] :
            Feed(call[t].feeds, call[t].part, call[t].chosen, o)
    BY <1>1, ReportFeeds
  <2>2. call[t].part \in Part /\ call[t].chosen \in Prov
    BY <1>1, ReportFeeds
  <2>3. arms' \in [Bandits -> Memory] /\ \A d \in Bandits : MemoryOK(d, arms'[d])
    BY <2>1, <2>2, FeedOK DEF TypeOK
  <2>4. reported' \in [Bandits -> SUBSET Arm]
    BY <1>1, <2>2 DEF Report, TypeOK, DataOK, Arm
  <2> QED
    BY <1>1, <2>3, <2>4 DEF Report, TypeOK, DataOK
<1>2. ASSUME NEW t \in Thread, EndFeedback(t)
      PROVE  DataOK'
  <2>1. PICK part \in Part, p \in Prov, o \in Feedback : Feed(call[t].feeds, part, p, o)
    BY <1>2 DEF EndFeedback
  <2>2. o \in [success : BOOLEAN, reward : 0..10]
    BY BanditAssumption DEF BanditAssumption
  <2>3. arms' \in [Bandits -> Memory] /\ \A d \in Bandits : MemoryOK(d, arms'[d])
    BY <2>1, <2>2, FeedOK DEF TypeOK
  <2> QED
    BY <1>2, <2>3 DEF EndFeedback, TypeOK, DataOK
<1>3. ASSUME NEW t \in Thread, Put(t) \/ Replace(t)
      PROVE  DataOK'
  <2> DEFINE b == call[t].bandit
             memory == call[t].payload
  <2>1. b \in Bandits /\ MemoryOK(b, memory) /\ memory \in Memory
    BY <1>3 DEF Put, Replace, TypeOK, CallsOK, CallOK, CallType, MemoryOK
  <2>2. CASE Put(t)
    <3>1. saved' = [saved EXCEPT ![b] = memory] /\ stale' \in {stale, stale \cup {b}}
          /\ UNCHANGED <<selector, arms, calls, restarts, reported>>
      BY <2>2 DEF Put
    <3> HIDE DEF b, memory
    <3> QED
      BY <2>1, <3>1 DEF TypeOK, DataOK
  <2>3. CASE Replace(t)
    <3>1. arms' = [arms EXCEPT ![b] = memory] /\ stale' \in {stale \cup {b}, stale \ {b}}
          /\ reported' = [reported EXCEPT ![b] = {}]
          /\ UNCHANGED <<selector, saved, calls, restarts>>
      BY <2>3 DEF Replace
    <3> HIDE DEF b, memory
    <3> QED
      BY <2>1, <3>1 DEF TypeOK, DataOK
  <2> QED
    BY <1>3, <2>2, <2>3
<1>4. CASE Restart
  BY <1>4, NoArmsOK, Constants DEF Restart, TypeOK, DataOK, MemoryOK
<1>5. ASSUME NEW t \in Thread, NEW b \in Bandits \cup {None}, SetSelector(t, b)
      PROVE  DataOK'
  BY <1>5 DEF SetSelector, TypeOK, DataOK
<1>6. ASSUME UNCHANGED <<selector, arms, saved, restarts, history>>, calls' \in Nat
      PROVE  DataOK'
  BY <1>6 DEF TypeOK, DataOK
<1>7. calls \in Nat
  BY DEF TypeOK, DataOK
<1>8. ASSUME NEW t \in Thread,
             \/ \E part \in Part, o \in Override, c \in Candidates :
                   BeginInvoke(t, part, o, c)
             \/ Select(t) \/ ResolveAgain(t) \/ EndUnreported(t)
             \/ \E part \in Part, p \in Prov : BeginAttempt(t, part, p)
             \/ EndAttempt(t) \/ BeginFeedback(t)
             \/ \E b \in Bandits : BeginSave(t, b) \/ BeginLoad(t, b)
             \/ PutFails(t)
      PROVE  DataOK'
  <2>1. UNCHANGED <<selector, arms, saved, restarts, history>> /\ calls' \in {calls, calls + 1}
    BY <1>8 DEF BeginInvoke, Select, ResolveAgain, EndUnreported, BeginAttempt, EndAttempt,
       BeginFeedback, BeginSave, BeginLoad, PutFails
  <2> QED
    BY <1>6, <1>7, <2>1
<1>9. CASE Rest
  BY <1>6, <1>7, <1>9 DEF Rest, vars
<1> QED
  BY <1>1, <1>2, <1>3, <1>4, <1>5, <1>8, <1>9 DEF Next

\* A step keeps the calls' types.
LEMMA CallStepTypes ==
    ASSUME TypeOK, Next
    PROVE  CallsOK'
<1>1. CASE Restart
  BY <1>1, IdleOK DEF Restart, CallsOK
<1>2. CASE Rest
  BY <1>2 DEF Rest, vars, TypeOK, CallsOK
<1> QED
  BY <1>1, <1>2, BeginTypes, MoveTypes, FlagTypes DEF Next

\* The types: every arm's counters go together, and each call has at hand what
\* its next step uses.
THEOREM TypeCorrect == Spec => []TypeOK
<1>1. Init => TypeOK
  <2> SUFFICES ASSUME Init PROVE TypeOK
    OBVIOUS
  <2>1. CallsOK
    BY IdleOK DEF Init, CallsOK
  <2>2. /\ saved \in [Bandits -> Memory \cup {None}]
        /\ \A b \in Bandits : saved[b] = None \/ MemoryOK(b, saved[b])
    BY BanditAssumption DEF BanditAssumption, Init
  <2>3. DataOK
    BY <2>2, NoArmsOK, Constants DEF Init, DataOK, MemoryOK
  <2> QED
    BY <2>1, <2>3 DEF TypeOK
<1>2. TypeOK /\ [Next]_vars => TypeOK'
  <2>1. CASE UNCHANGED vars
    BY <2>1 DEF TypeOK, DataOK, CallsOK, vars
  <2> QED
    BY <2>1, DataTypes, CallStepTypes DEF TypeOK
<1> QED
  BY <1>1, <1>2, PTL DEF Spec

------------------------------------------------------------------------------
(* Outcomes                                                                *)

\* Until it reports, the selector that a call has chosen with is still the one
\* it would be given, unless the active one was set since or it has a name.
ChoiceOK(c, active) ==
    /\ c.pc \in {"select", "resolve"} /\ ~c.changed /\ c.override # Named =>
          c.chooser = IF c.override = None THEN active ELSE c.override
    /\ c.pc = "report" /\ ~c.changed =>
          c.feeds = c.chooser \/ (c.override = Named /\ c.feeds \notin Bandits)

ChoicesOK == \A t \in Thread : ChoiceOK(call[t], selector)

\* A call that is at another place, or that knows the selector was set.
LEMMA ChoiceElsewhere ==
    ASSUME NEW c, NEW active, c.pc \notin {"select", "resolve", "report"} \/ c.changed = TRUE
    PROVE  ChoiceOK(c, active)
  BY DEF ChoiceOK

\* One call takes a step and the active selector stays.
LEMMA ChoiceStep ==
    ASSUME TypeOK, ChoicesOK, NEW t \in Thread, NEW c, UNCHANGED selector,
           call' = [call EXCEPT ![t] = c], ChoiceOK(c, selector)
    PROVE  ChoicesOK'
  BY DEF ChoicesOK, TypeOK, CallsOK

\* An outcome goes to the bandit that has chosen, or to one that was made for
\* it from a name.  The selector that is found
\* at the second look-up is the first one, since setting it marks every call.
THEOREM OutcomesCorrect == Spec => []OutcomeToItsChooser
<1>1. Init => ChoicesOK
  BY IdleOK, ChoiceElsewhere DEF Init, ChoicesOK
<1>2. TypeOK /\ ChoicesOK /\ [Next]_vars => ChoicesOK'
  <2> SUFFICES ASSUME TypeOK, ChoicesOK, [Next]_vars  PROVE ChoicesOK'
    OBVIOUS
  <2>1. \A t \in Thread : call[t] \in CallType
    BY DEF TypeOK, CallsOK, CallOK
  <2>2. ASSUME NEW t \in Thread, NEW part \in Part, NEW o \in Override,
               NEW cands \in Candidates, BeginInvoke(t, part, o, cands)
        PROVE  ChoicesOK'
    <3> DEFINE d == [Idle EXCEPT !.pc = "select", !.part = part, !.override = o,
                                 !.cands = cands, !.chooser = SelectorFor(o, Made)]
    <3>1. d.pc = "select" /\ d.override = o /\ d.chooser = SelectorFor(o, Made)
      BY IdleOK DEF CallType
    <3>2. call' = [call EXCEPT ![t] = d] /\ UNCHANGED selector
      BY <2>2 DEF BeginInvoke
    <3> HIDE DEF d
    <3>3. ChoiceOK(d, selector)
      BY <3>1 DEF ChoiceOK, SelectorFor
    <3> QED
      BY <3>2, <3>3, ChoiceStep
  <2>3. ASSUME NEW t \in Thread, Select(t)
        PROVE  ChoicesOK'
    <3>1. PICK p : call' = [call EXCEPT ![t] = [@ EXCEPT !.pc = "resolve", !.chosen = p,
                                                         !.cands = <<>>]]
      BY <2>3 DEF Select
    <3> DEFINE d == [call[t] EXCEPT !.pc = "resolve", !.chosen = p, !.cands = <<>>]
    <3>2. d.pc = "resolve" /\ d.override = call[t].override /\ d.chooser = call[t].chooser
          /\ d.changed = call[t].changed
      BY <2>1 DEF CallType
    <3>3. call' = [call EXCEPT ![t] = d] /\ UNCHANGED selector
      BY <2>3, <3>1 DEF Select
    <3> HIDE DEF d
    <3>4. ChoiceOK(d, selector)
      BY <2>3, <3>2 DEF ChoicesOK, ChoiceOK, Select
    <3> QED
      BY <3>3, <3>4, ChoiceStep
  <2>4. ASSUME NEW t \in Thread, ResolveAgain(t)
        PROVE  ChoicesOK'
    <3> DEFINE d == [call[t] EXCEPT !.pc = "report", !.feeds = SelectorFor(call[t].override, Remade)]
    <3>1. d.pc = "report" /\ d.feeds = SelectorFor(call[t].override, Remade)
          /\ d.chooser = call[t].chooser /\ d.changed = call[t].changed
          /\ d.override = call[t].override
      BY <2>1 DEF CallType
    <3>2. call' = [call EXCEPT ![t] = d] /\ UNCHANGED selector
      BY <2>4 DEF ResolveAgain
    <3> HIDE DEF d
    <3>3. ChoiceOK(d, selector)
      <4>1. CASE call[t].override = Named
        <5>1. d.feeds \notin Bandits
          BY <3>1, <4>1, Constants DEF SelectorFor
        <5> QED
          BY <3>1, <4>1, <5>1 DEF ChoiceOK
      <4>2. CASE call[t].override # Named
        <5>1. ~call[t].changed => call[t].chooser = SelectorFor(call[t].override, Remade)
          BY <2>4, <4>2 DEF ChoicesOK, ChoiceOK, ResolveAgain, SelectorFor
        <5>2. d.changed <=> call[t].changed
          BY <3>1
        <5>3. ~d.changed => d.feeds = d.chooser
          BY <3>1, <5>1, <5>2
        <5>4. d.pc \notin {"select", "resolve"}
          BY <3>1
        <5> QED
          BY <5>3, <5>4, Zenon DEF ChoiceOK
      <4> QED
        BY <4>1, <4>2
    <3> QED
      BY <3>2, <3>3, ChoiceStep
  <2>5. ASSUME NEW t \in Thread,
               \/ \E part \in Part, p \in Prov : BeginAttempt(t, part, p)
               \/ BeginFeedback(t)
               \/ \E b \in Bandits : BeginSave(t, b) \/ BeginLoad(t, b)
               \/ EndUnreported(t) \/ EndAttempt(t) \/ Report(t) \/ EndFeedback(t)
               \/ PutFails(t)
        PROVE  ChoicesOK'
    <3>1. PICK d : /\ call' = [call EXCEPT ![t] = d] /\ UNCHANGED selector
                   /\ d.pc \notin {"select", "resolve", "report"}
      <4>1. ASSUME NEW part \in Part, NEW p \in Prov, BeginAttempt(t, part, p)
            PROVE  \E d : /\ call' = [call EXCEPT ![t] = d] /\ UNCHANGED selector
                          /\ d.pc \notin {"select", "resolve", "report"}
        <5> WITNESS [Idle EXCEPT !.pc = "attempt", !.part = part, !.chosen = p]
        <5> QED
          BY <4>1, IdleOK DEF BeginAttempt, CallType
      <4>2. CASE BeginFeedback(t)
        <5> WITNESS [Idle EXCEPT !.pc = "feedback", !.feeds = selector]
        <5> QED
          BY <4>2, IdleOK DEF BeginFeedback, CallType
      <4>3. ASSUME NEW b \in Bandits, BeginSave(t, b)
            PROVE  \E d : /\ call' = [call EXCEPT ![t] = d] /\ UNCHANGED selector
                          /\ d.pc \notin {"select", "resolve", "report"}
        <5> WITNESS [Idle EXCEPT !.pc = "put", !.bandit = b, !.payload = arms[b],
                                 !.suspect = b \in stale]
        <5> QED
          BY <4>3, IdleOK DEF BeginSave, CallType
      <4>4. ASSUME NEW b \in Bandits, BeginLoad(t, b)
            PROVE  \E d : /\ call' = [call EXCEPT ![t] = d] /\ UNCHANGED selector
                          /\ d.pc \notin {"select", "resolve", "report"}
        <5> WITNESS [Idle EXCEPT !.pc = "replace", !.bandit = b, !.payload = saved[b]]
        <5> QED
          BY <4>4, IdleOK DEF BeginLoad, CallType
      <4>5. CASE EndAttempt(t)
        <5> WITNESS [call[t] EXCEPT !.pc = "conclude", !.feeds = selector]
        <5> QED
          BY <2>1, <4>5 DEF EndAttempt, CallType
      <4>6. CASE EndUnreported(t) \/ Report(t) \/ EndFeedback(t) \/ PutFails(t)
        <5> WITNESS Idle
        <5> QED
          BY <4>6, IdleOK DEF EndUnreported, Report, EndFeedback, PutFails
      <4> QED
        BY <2>5, <4>1, <4>2, <4>3, <4>4, <4>5, <4>6
    <3> QED
      BY <3>1, ChoiceElsewhere, ChoiceStep
  <2>6. ASSUME NEW t \in Thread, NEW b \in Bandits \cup {None}, SetSelector(t, b)
        PROVE  ChoicesOK'
    <3> SUFFICES ASSUME NEW u \in Thread  PROVE ChoiceOK(call'[u], selector')
      BY DEF ChoicesOK
    <3>1. call'[u] = [call[u] EXCEPT !.changed = call[u].pc # "idle"]
      BY <2>6 DEF SetSelector
    <3>2. call'[u].pc = call[u].pc /\ (call[u].pc # "idle" => call'[u].changed = TRUE)
      BY <2>1, <3>1 DEF CallType
    <3> QED
      BY <3>2, ChoiceElsewhere
  <2>7. ASSUME NEW t \in Thread, Put(t) \/ Replace(t)
        PROVE  ChoicesOK'
    <3> SUFFICES ASSUME NEW u \in Thread  PROVE ChoiceOK(call'[u], selector')
      BY DEF ChoicesOK
    <3>1. UNCHANGED selector /\ EndBefore(t, call[t].bandit)
      BY <2>7 DEF Put, Replace
    <3>2. CASE u = t
      BY <3>1, <3>2, IdleOK, ChoiceElsewhere DEF EndBefore
    <3>3. CASE u # t
      <4>1. call'[u] = [call[u] EXCEPT !.suspect = @ \/ call[u].bandit = call[t].bandit]
        BY <3>1, <3>3 DEF EndBefore
      <4>2. /\ call'[u].pc = call[u].pc /\ call'[u].changed = call[u].changed
            /\ call'[u].chooser = call[u].chooser /\ call'[u].override = call[u].override
            /\ call'[u].feeds = call[u].feeds
        BY <2>1, <4>1 DEF CallType
      <4> QED
        BY <3>1, <4>2 DEF ChoicesOK, ChoiceOK
    <3> QED
      BY <3>2, <3>3
  <2>8. CASE Restart
    BY <2>8, IdleOK, ChoiceElsewhere DEF Restart, ChoicesOK
  <2>9. CASE UNCHANGED vars
    BY <2>9 DEF vars, ChoicesOK
  <2> QED
    BY <2>2, <2>3, <2>4, <2>5, <2>6, <2>7, <2>8, <2>9 DEF Next, Rest
<1>3. ChoicesOK => OutcomeToItsChooser
  BY DEF ChoicesOK, ChoiceOK, OutcomeToItsChooser
<1> QED
  BY <1>1, <1>2, <1>3, TypeCorrect, PTL DEF Spec

------------------------------------------------------------------------------
(* Exploration                                                             *)

\* An arm of UCB1 whose outcome has come back has a pull.
ExploredOK ==
    \A b \in Bandits : Kind[b] = "ucb1" => \A a \in reported[b] : arms[b][a].pulls > 0

\* A step keeps that.
LEMMA ExploredStep ==
    ASSUME TypeOK, ExploredOK, Next
    PROVE  ExploredOK'
<1>0. reported \in [Bandits -> SUBSET Arm]
  BY DEF TypeOK, DataOK
<1>1. ASSUME NEW part \in Part, NEW p \in Prov, NEW b, NEW rep,
             NEW o \in [success : BOOLEAN, reward : 0..10], Feed(b, part, p, o),
             \/ reported' = reported
             \/ b \in Bandits /\ reported' = [reported EXCEPT ![b] = @ \cup {<<part, p>>}]
      PROVE  ExploredOK'
  <2> SUFFICES ASSUME NEW d \in Bandits, Kind[d] = "ucb1", NEW a \in reported'[d]
               PROVE  arms'[d][a].pulls > 0
    BY DEF ExploredOK
  <2>1. /\ \A e \in Bandits, x \in Arm : arms'[e][x].pulls >= arms[e][x].pulls
        /\ b \in Bandits /\ Kind[b] = "ucb1" => arms'[b][<<part, p>>].pulls > 0
    BY <1>1, FeedOK DEF TypeOK
  <2>2. CASE a \in reported[d]
    <3>1. a \in Arm /\ arms[d][a].pulls > 0 /\ arms'[d][a].pulls >= arms[d][a].pulls
      BY <1>0, <2>1, <2>2 DEF ExploredOK
    <3>2. arms[d][a] \in Counters
      BY <3>1 DEF TypeOK, DataOK, Memory
    <3>3. arms'[d][a] \in Counters
      <4>1. arms' \in [Bandits -> Memory]
        BY <1>1, FeedOK DEF TypeOK
      <4> QED
        BY <3>1, <4>1 DEF Memory
    <3> QED
      BY <3>1, <3>2, <3>3 DEF Counters
  <2>3. CASE a \notin reported[d]
    BY <1>0, <1>1, <2>1, <2>3
  <2> QED
    BY <2>2, <2>3
<1>2. ASSUME NEW t \in Thread, Report(t)
      PROVE  ExploredOK'
  <2>1. /\ call[t].part \in Part /\ call[t].chosen \in Prov
        /\ \E o \in [success : BOOLEAN, reward : 0..10] :
               Feed(call[t].feeds, call[t].part, call[t].chosen, o)
    BY <1>2, ReportFeeds
  <2>2. \/ reported' = reported
        \/ /\ call[t].feeds \in Bandits
           /\ reported' = [reported EXCEPT ![call[t].feeds] =
                              @ \cup {<<call[t].part, call[t].chosen>>}]
    BY <1>2 DEF Report
  <2> QED
    BY <1>1, <2>1, <2>2
<1>3. ASSUME NEW t \in Thread, EndFeedback(t)
      PROVE  ExploredOK'
  <2>1. Feedback \subseteq [success : BOOLEAN, reward : 0..10] /\ reported' = reported
    BY <1>3, BanditAssumption DEF BanditAssumption, EndFeedback
  <2>2. PICK part \in Part, p \in Prov, o \in Feedback : Feed(call[t].feeds, part, p, o)
    BY <1>3 DEF EndFeedback
  <2> QED
    BY <1>1, <2>1, <2>2
<1>4. ASSUME NEW t \in Thread, Replace(t)
      PROVE  ExploredOK'
  <2>1. /\ \A d \in Bandits : d # call[t].bandit => arms'[d] = arms[d] /\ reported'[d] = reported[d]
        /\ \A d \in Bandits : d = call[t].bandit => reported'[d] = {}
    BY <1>0, <1>4 DEF Replace, TypeOK, DataOK
  <2> QED
    BY <2>1 DEF ExploredOK
<1>5. CASE Restart
  BY <1>5 DEF Restart, ExploredOK
<1>6. CASE UNCHANGED <<arms, reported>>
  BY <1>6 DEF ExploredOK
<1>7. \/ \E t \in Thread : Report(t) \/ EndFeedback(t) \/ Replace(t)
      \/ Restart \/ UNCHANGED <<arms, reported>>
  BY DEF Next, BeginInvoke, Select, ResolveAgain, EndUnreported, BeginAttempt, EndAttempt,
     BeginFeedback, SetSelector, BeginSave, BeginLoad, Put, PutFails, Rest, vars
<1> QED
  BY <1>2, <1>3, <1>4, <1>5, <1>6, <1>7

\* A choice of UCB1: no other candidate beats it.
LEMMA SelectExplores ==
    ASSUME TypeOK, ExploredOK, NEW t \in Thread, Select(t)
    PROVE  RepeatsAfterAll(t)
<1> DEFINE b == call[t].chooser
           part == call[t].part
           cands == call[t].cands
           p == call'[t].chosen
<1> SUFFICES ASSUME b \in Bandits, Kind[b] = "ucb1", <<part, p>> \in reported[b],
                    NEW q \in Range(cands)
             PROVE  arms[b][<<part, q>>].pulls > 0
  BY DEF RepeatsAfterAll
<1>1. call[t] \in CallType /\ part \in Part /\ cands \in Seq(Prov) /\ DOMAIN call = Thread
  BY DEF Select, TypeOK, CallsOK, CallOK, CallType
<1>2. p \in Selectable(b, cands, part)
  <2>1. PICK x \in Selectable(b, cands, part) :
            call' = [call EXCEPT ![t] = [@ EXCEPT !.pc = "resolve", !.chosen = x,
                                                  !.cands = <<>>]]
    BY Constants DEF Select
  <2>2. p = x
    BY <1>1, <2>1 DEF CallType
  <2> QED
    BY <2>2
<1>3. PICK j \in DOMAIN cands : p = cands[j] /\ \A k \in DOMAIN cands : ~Beats(b, cands[k], p, part)
  BY <1>2, Constants DEF Selectable
<1>4. PICK k \in DOMAIN cands : q = cands[k]
  BY DEF Range
<1>5. ~Beats(b, q, p, part)
  BY <1>3, <1>4
<1>6. arms[b][<<part, p>>].pulls > 0
  BY DEF ExploredOK
<1>7. arms[b][<<part, q>>].pulls \in Nat
  <2>1. q \in Prov
    BY <1>1, <1>4
  <2>2. <<part, q>> \in Arm
    BY <1>1, <2>1 DEF Arm
  <2>3. arms[b][<<part, q>>] \in Counters
    BY <2>2 DEF TypeOK, DataOK, Memory
  <2> QED
    BY <2>3 DEF Counters
<1>8. arms[b][<<part, q>>].pulls # 0
  BY <1>5, <1>6 DEF Beats
<1> QED
  BY <1>7, <1>8

\* No other step ends a selection.
LEMMA OnlySelectChooses ==
    ASSUME TypeOK, Next, NEW t \in Thread, call[t].pc = "select", call'[t].pc = "resolve"
    PROVE  Select(t)
<1>0. DOMAIN call = Thread /\ \A u \in Thread : call[u] \in CallType
  BY DEF TypeOK, CallsOK, CallOK
<1>1. CASE Restart
  BY <1>1, IdleOK DEF Restart
<1>2. CASE Rest
  BY <1>2 DEF Rest, vars
<1>3. ASSUME NEW u \in Thread, NEW b \in Bandits \cup {None}, SetSelector(u, b)
      PROVE  FALSE
  BY <1>0, <1>3 DEF SetSelector, CallType
<1>4. ASSUME NEW u \in Thread, Put(u) \/ Replace(u)
      PROVE  FALSE
  <2>1. EndBefore(u, call[u].bandit)
    BY <1>4 DEF Put, Replace
  <2>2. CASE u = t
    BY <2>1, <2>2, IdleOK DEF EndBefore
  <2>3. CASE u # t
    BY <1>0, <2>1, <2>3 DEF EndBefore, CallType
  <2> QED
    BY <2>2, <2>3
<1>5. ASSUME NEW u \in Thread, u # t,
             \E d : call' = [call EXCEPT ![u] = d]
      PROVE  FALSE
  BY <1>5
<1>6. ASSUME NEW u \in Thread,
             \/ \E part \in Part, o \in Override, c \in Candidates :
                   BeginInvoke(u, part, o, c)
             \/ ResolveAgain(u) \/ EndUnreported(u)
             \/ \E part \in Part, p \in Prov : BeginAttempt(u, part, p)
             \/ EndAttempt(u) \/ Report(u) \/ BeginFeedback(u) \/ EndFeedback(u)
             \/ \E b \in Bandits : BeginSave(u, b) \/ BeginLoad(u, b)
             \/ PutFails(u)
      PROVE  FALSE
  <2>1. call[u].pc # "select"
    BY <1>6 DEF BeginInvoke, ResolveAgain, EndUnreported, BeginAttempt, EndAttempt, Report,
       BeginFeedback, EndFeedback, BeginSave, BeginLoad, PutFails
  <2>2. \E d : call' = [call EXCEPT ![u] = d]
    BY <1>6 DEF BeginInvoke, ResolveAgain, EndUnreported, BeginAttempt, EndAttempt, Report,
       BeginFeedback, EndFeedback, BeginSave, BeginLoad, PutFails
  <2> QED
    BY <1>5, <2>1, <2>2
<1>7. ASSUME NEW u \in Thread, Select(u), u # t
      PROVE  FALSE
  <2>1. \E d : call' = [call EXCEPT ![u] = d]
    BY <1>7 DEF Select
  <2> QED
    BY <1>5, <1>7, <2>1
<1> QED
  BY <1>1, <1>2, <1>3, <1>4, <1>6, <1>7 DEF Next

\* UCB1 picks no arm whose outcome has come back to it while another candidate
\* of the partition has none.
THEOREM ExplorationCorrect == Spec => ExploresFirst
<1>1. Init => ExploredOK
  BY DEF Init, ExploredOK
<1>2. TypeOK /\ ExploredOK /\ [Next]_vars => ExploredOK'
  <2>1. ASSUME ExploredOK, UNCHANGED vars PROVE ExploredOK'
    BY <2>1 DEF ExploredOK, vars
  <2> QED
    BY <2>1, ExploredStep
<1>3. TypeOK /\ ExploredOK /\ [Next]_vars => [\A t \in Thread : RepeatsAfterAll(t)]_call
  <2> SUFFICES ASSUME TypeOK, ExploredOK, [Next]_vars, call' # call, NEW t \in Thread
               PROVE  RepeatsAfterAll(t)
    OBVIOUS
  <2>1. Next
    BY DEF vars
  <2>2. CASE Select(t)
    BY <2>2, SelectExplores
  <2>3. CASE ~Select(t)
    BY <2>1, <2>3, OnlySelectChooses DEF RepeatsAfterAll
  <2> QED
    BY <2>2, <2>3
<1> QED
  BY <1>1, <1>2, <1>3, TypeCorrect, PTL DEF Spec, ExploresFirst

------------------------------------------------------------------------------
(* What is stored                                                          *)

\* A copy on its way to the store is covered by the bandit it was taken from,
\* one on its way to the bandit is what is stored, unless they overlapped with
\* another save or load of that bandit.
CopyOK(c, forgotten, memory, stored) ==
    /\ c.pc = "put" /\ ~c.suspect /\ c.bandit \notin forgotten =>
          Covers(memory[c.bandit], c.payload)
    /\ c.pc = "replace" /\ ~c.suspect => c.payload = stored[c.bandit]

CopiesOK == \A t \in Thread : CopyOK(call[t], stale, arms, saved)

\* A call that copies nothing, or that knows of an overlap.
LEMMA CopyElsewhere ==
    ASSUME NEW c, NEW forgotten, NEW memory, NEW stored,
           c.pc \notin {"put", "replace"} \/ c.suspect = TRUE
    PROVE  CopyOK(c, forgotten, memory, stored)
  BY DEF CopyOK

\* A memory covers itself.
LEMMA CoversItself ==
    ASSUME NEW memory \in Memory
    PROVE  Covers(memory, memory)
<1>1. \A a \in Arm : memory[a] \in Counters
  BY DEF Memory
<1> QED
  BY <1>1 DEF Covers, Trials, Counters

\* What has learned more covers no less.
LEMMA CoversMore ==
    ASSUME NEW f \in Memory, NEW g \in Memory, NEW m \in Memory \cup {None}, Covers(f, m),
           \A a \in Arm : Trials(g[a]) >= Trials(f[a])
    PROVE  Covers(g, m)
<1> SUFFICES ASSUME m # None, NEW a \in Arm
             PROVE  Trials(g[a]) >= Trials(m[a])
  BY DEF Covers
<1>1. f[a] \in Counters /\ g[a] \in Counters /\ m[a] \in Counters
  BY DEF Memory
<1>2. Trials(f[a]) \in Nat /\ Trials(g[a]) \in Nat /\ Trials(m[a]) \in Nat
  BY <1>1 DEF Trials, Counters
<1>3. Trials(f[a]) >= Trials(m[a])
  BY DEF Covers
<1> QED
  BY <1>2, <1>3

\* An outcome makes no bandit cover less.
LEMMA FeedCovers ==
    ASSUME TypeOK, CopiesOK, MemoryCoversStore, NEW b, NEW part \in Part, NEW p \in Prov,
           NEW o \in [success : BOOLEAN, reward : 0..10], Feed(b, part, p, o),
           NEW t \in Thread, call' = [call EXCEPT ![t] = Idle], UNCHANGED <<saved, stale>>
    PROVE  CopiesOK' /\ MemoryCoversStore'
<1>1. /\ arms \in [Bandits -> Memory] /\ arms' \in [Bandits -> Memory]
      /\ saved \in [Bandits -> Memory \cup {None}]
      /\ \A d \in Bandits, a \in Arm : Trials(arms'[d][a]) >= Trials(arms[d][a])
  BY FeedOK DEF TypeOK, DataOK
<1>2. \A d \in Bandits, m \in Memory \cup {None} : Covers(arms[d], m) => Covers(arms'[d], m)
  BY <1>1, CoversMore
<1>3. MemoryCoversStore'
  BY <1>1, <1>2 DEF MemoryCoversStore
<1>4. ASSUME NEW u \in Thread
      PROVE  CopyOK(call'[u], stale, arms', saved)
  <2>1. CASE u = t
    BY <2>1, IdleOK, CopyElsewhere DEF TypeOK, CallsOK
  <2>2. CASE u # t
    <3>1. call'[u] = call[u]
      BY <2>2 DEF TypeOK, CallsOK
    <3>2. CASE call[u].pc = "put" /\ ~call[u].suspect /\ call[u].bandit \notin stale
      <4>1. Covers(arms[call[u].bandit], call[u].payload)
        BY <3>2 DEF CopiesOK, CopyOK
      <4>2. call[u].bandit \in Bandits /\ call[u].payload \in Memory \cup {None}
        BY <3>2 DEF TypeOK, CallsOK, CallOK, CallType
      <4> QED
        BY <1>2, <3>1, <3>2, <4>1, <4>2 DEF CopyOK
    <3>3. CASE ~(call[u].pc = "put" /\ ~call[u].suspect /\ call[u].bandit \notin stale)
      BY <3>1, <3>3 DEF CopiesOK, CopyOK
    <3> QED
      BY <3>2, <3>3
  <2> QED
    BY <2>1, <2>2
<1> QED
  BY <1>3, <1>4 DEF CopiesOK

\* One call takes a step and what is learned and stored stays.
LEMMA CopyStep ==
    ASSUME TypeOK, CopiesOK, NEW t \in Thread, NEW c, UNCHANGED <<arms, saved, stale>>,
           call' = [call EXCEPT ![t] = c], CopyOK(c, stale, arms, saved)
    PROVE  CopiesOK'
  BY DEF CopiesOK, TypeOK, CallsOK

\* The calls that save or load: whatever another call of them had copied of the
\* same bandit is marked.
LEMMA EndBeforeCopies ==
    ASSUME TypeOK, NEW t \in Thread, NEW b \in Bandits, EndBefore(t, b), NEW u \in Thread
    PROVE  \/ call'[u].pc \notin {"put", "replace"}
           \/ call'[u].suspect = TRUE
           \/ /\ call'[u].pc = call[u].pc /\ call'[u].bandit = call[u].bandit
              /\ call'[u].payload = call[u].payload /\ call'[u].suspect = call[u].suspect
              /\ call[u].bandit \in Bandits \ {b}
<1>1. CASE u = t
  BY <1>1, IdleOK DEF EndBefore
<1>2. CASE u # t
  <2> DEFINE s == call[u].suspect \/ call[u].bandit = b
  <2>1. call[u] \in CallType /\ CallOK(call[u]) /\ s \in BOOLEAN /\ call[u].suspect \in BOOLEAN
    BY DEF TypeOK, CallsOK, CallOK, CallType
  <2>2. call'[u] = [call[u] EXCEPT !.suspect = s]
    BY <1>2 DEF EndBefore
  <2>3. /\ call'[u].pc = call[u].pc /\ call'[u].bandit = call[u].bandit
        /\ call'[u].payload = call[u].payload /\ call'[u].suspect = s
    BY <2>1, <2>2 DEF CallType
  <2>4. call[u].pc \in {"put", "replace"} => call[u].bandit \in Bandits
    BY <2>1 DEF CallOK, CallType
  <2>5. CASE call[u].bandit = b
    BY <2>3, <2>5
  <2>6. CASE call[u].bandit # b
    <3>1. s = call[u].suspect
      BY <2>1, <2>6
    <3> QED
      BY <2>3, <2>4, <2>6, <3>1
  <2> QED
    BY <2>5, <2>6
<1> QED
  BY <1>1, <1>2

\* A save ends.
LEMMA PutCovers ==
    ASSUME TypeOK, CopiesOK, MemoryCoversStore, NEW t \in Thread, Put(t)
    PROVE  CopiesOK' /\ MemoryCoversStore'
<1> DEFINE b == call[t].bandit
           m == call[t].payload
<1>1. /\ b \in Bandits /\ arms' = arms /\ saved' = [saved EXCEPT ![b] = m]
      /\ EndBefore(t, b) /\ stale \subseteq stale'
      /\ stale' = IF call[t].suspect THEN stale \cup {b} ELSE stale
      /\ DOMAIN saved = Bandits
  BY DEF Put, TypeOK, DataOK, CallsOK, CallOK, CallType
<1>2. b \notin stale' => Covers(arms[b], m)
  BY <1>1 DEF CopiesOK, CopyOK, Put
<1>3. saved'[b] = m /\ \A d \in Bandits \ {b} : saved'[d] = saved[d]
  BY <1>1
<1> HIDE DEF b, m
<1>4. MemoryCoversStore'
  <2> SUFFICES ASSUME NEW d \in Bandits, d \notin stale'  PROVE Covers(arms'[d], saved'[d])
    BY DEF MemoryCoversStore
  <2>1. CASE d = b
    BY <1>1, <1>2, <1>3, <2>1
  <2>2. CASE d # b
    BY <1>1, <1>3, <2>2 DEF MemoryCoversStore
  <2> QED
    BY <2>1, <2>2
<1>5. ASSUME NEW u \in Thread
      PROVE  CopyOK(call'[u], stale', arms', saved')
  <2>1. CASE call'[u].pc \notin {"put", "replace"} \/ call'[u].suspect = TRUE
    BY <2>1, CopyElsewhere
  <2>2. CASE /\ call'[u].pc = call[u].pc /\ call'[u].bandit = call[u].bandit
             /\ call'[u].payload = call[u].payload /\ call'[u].suspect = call[u].suspect
             /\ call[u].bandit \in Bandits \ {b}
    BY <1>1, <1>3, <2>2 DEF CopiesOK, CopyOK
  <2> QED
    BY <1>1, <2>1, <2>2, EndBeforeCopies
<1> QED
  BY <1>4, <1>5 DEF CopiesOK

\* A load ends.
LEMMA ReplaceCovers ==
    ASSUME TypeOK, CopiesOK, MemoryCoversStore, NEW t \in Thread, Replace(t)
    PROVE  CopiesOK' /\ MemoryCoversStore'
<1> DEFINE b == call[t].bandit
           m == call[t].payload
<1>1. /\ b \in Bandits /\ saved' = saved /\ arms' = [arms EXCEPT ![b] = m]
      /\ EndBefore(t, b) /\ stale \ {b} \subseteq stale'
      /\ stale' = IF call[t].suspect THEN stale \cup {b} ELSE stale \ {b}
      /\ DOMAIN arms = Bandits /\ m \in Memory
  BY DEF Replace, TypeOK, DataOK, CallsOK, CallOK, CallType, MemoryOK
<1>2. b \notin stale' => m = saved[b]
  BY <1>1 DEF CopiesOK, CopyOK, Replace
<1>3. arms'[b] = m /\ \A d \in Bandits \ {b} : arms'[d] = arms[d]
  BY <1>1
<1> HIDE DEF b, m
<1>4. MemoryCoversStore'
  <2> SUFFICES ASSUME NEW d \in Bandits, d \notin stale'  PROVE Covers(arms'[d], saved'[d])
    BY DEF MemoryCoversStore
  <2>1. CASE d = b
    BY <1>1, <1>2, <1>3, <2>1, CoversItself
  <2>2. CASE d # b
    BY <1>1, <1>3, <2>2 DEF MemoryCoversStore
  <2> QED
    BY <2>1, <2>2
<1>5. ASSUME NEW u \in Thread
      PROVE  CopyOK(call'[u], stale', arms', saved')
  <2>1. CASE call'[u].pc \notin {"put", "replace"} \/ call'[u].suspect = TRUE
    BY <2>1, CopyElsewhere
  <2>2. CASE /\ call'[u].pc = call[u].pc /\ call'[u].bandit = call[u].bandit
             /\ call'[u].payload = call[u].payload /\ call'[u].suspect = call[u].suspect
             /\ call[u].bandit \in Bandits \ {b}
    <3>1. CopyOK(call[u], stale, arms, saved)
      BY DEF CopiesOK
    <3>2. arms'[call[u].bandit] = arms[call[u].bandit]
          /\ (call[u].bandit \notin stale' => call[u].bandit \notin stale)
      BY <1>1, <1>3, <2>2
    <3> QED
      BY <1>1, <2>2, <3>1, <3>2 DEF CopyOK
  <2> QED
    BY <1>1, <2>1, <2>2, EndBeforeCopies
<1> QED
  BY <1>4, <1>5 DEF CopiesOK

\* Calls that change nothing but themselves.
LEMMA OtherCovers ==
    ASSUME TypeOK, CopiesOK, NEW t \in Thread,
           \/ \E part \in Part, o \in Override, c \in Candidates :
                 BeginInvoke(t, part, o, c)
           \/ Select(t) \/ ResolveAgain(t) \/ EndUnreported(t)
           \/ \E part \in Part, p \in Prov : BeginAttempt(t, part, p)
           \/ EndAttempt(t) \/ BeginFeedback(t) \/ PutFails(t)
           \/ \E b \in Bandits : BeginSave(t, b) \/ BeginLoad(t, b)
    PROVE  CopiesOK'
<1>0. call[t] \in CallType
  BY DEF TypeOK, CallsOK, CallOK
<1>1. UNCHANGED <<arms, saved, stale>>
  BY DEF BeginInvoke, Select, ResolveAgain, EndUnreported, BeginAttempt, EndAttempt,
     BeginFeedback, PutFails, BeginSave, BeginLoad
<1>2. ASSUME NEW b \in Bandits, BeginSave(t, b)
      PROVE  CopiesOK'
  <2> DEFINE s == b \in stale
             d == [Idle EXCEPT !.pc = "put", !.bandit = b, !.payload = arms[b], !.suspect = s]
  <2>1. call' = [call EXCEPT ![t] = d]
    BY <1>2 DEF BeginSave
  <2>2. d.pc = "put" /\ d.bandit = b /\ d.payload = arms[b] /\ d.suspect = s
    BY IdleOK DEF CallType
  <2>3. Covers(arms[b], arms[b])
    BY CoversItself DEF TypeOK, DataOK
  <2> HIDE DEF d
  <2>4. CopyOK(d, stale, arms, saved)
    BY <2>2, <2>3 DEF CopyOK
  <2> QED
    BY <1>1, <2>1, <2>4, CopyStep
<1>3. ASSUME NEW b \in Bandits, BeginLoad(t, b)
      PROVE  CopiesOK'
  <2> DEFINE d == [Idle EXCEPT !.pc = "replace", !.bandit = b, !.payload = saved[b]]
  <2>1. call' = [call EXCEPT ![t] = d]
    BY <1>3 DEF BeginLoad
  <2>2. d.pc = "replace" /\ d.bandit = b /\ d.payload = saved[b]
    BY IdleOK DEF CallType
  <2> HIDE DEF d
  <2>3. CopyOK(d, stale, arms, saved)
    BY <2>2 DEF CopyOK
  <2> QED
    BY <1>1, <2>1, <2>3, CopyStep
<1>4. ASSUME NEW d, call' = [call EXCEPT ![t] = d], d.pc \notin {"put", "replace"}
      PROVE  CopiesOK'
  BY <1>1, <1>4, CopyElsewhere, CopyStep
<1>5. ASSUME NEW part \in Part, NEW o \in Override, NEW c \in Candidates,
             BeginInvoke(t, part, o, c)
      PROVE  CopiesOK'
  <2> DEFINE d == [Idle EXCEPT !.pc = "select", !.part = part, !.override = o,
                               !.cands = c, !.chooser = SelectorFor(o, Made)]
  <2>1. d.pc = "select" /\ call' = [call EXCEPT ![t] = d]
    BY <1>5, IdleOK DEF BeginInvoke, CallType
  <2> QED
    BY <1>4, <2>1
<1>6. ASSUME NEW part \in Part, NEW p \in Prov, BeginAttempt(t, part, p)
      PROVE  CopiesOK'
  <2> DEFINE d == [Idle EXCEPT !.pc = "attempt", !.part = part, !.chosen = p]
  <2>1. d.pc = "attempt" /\ call' = [call EXCEPT ![t] = d]
    BY <1>6, IdleOK DEF BeginAttempt, CallType
  <2> QED
    BY <1>4, <2>1
<1>7. CASE BeginFeedback(t)
  <2> DEFINE d == [Idle EXCEPT !.pc = "feedback", !.feeds = selector]
  <2>1. d.pc = "feedback" /\ call' = [call EXCEPT ![t] = d]
    BY <1>7, IdleOK DEF BeginFeedback, CallType
  <2> QED
    BY <1>4, <2>1
<1>8. CASE Select(t)
  <2>1. PICK p : call' = [call EXCEPT ![t] = [@ EXCEPT !.pc = "resolve", !.chosen = p,
                                                       !.cands = <<>>]]
    BY <1>8 DEF Select
  <2> DEFINE d == [call[t] EXCEPT !.pc = "resolve", !.chosen = p, !.cands = <<>>]
  <2>2. d.pc = "resolve" /\ call' = [call EXCEPT ![t] = d]
    BY <1>0, <2>1 DEF CallType
  <2> QED
    BY <1>4, <2>2
<1>9. CASE ResolveAgain(t)
  <2> DEFINE d == [call[t] EXCEPT !.pc = "report", !.feeds = SelectorFor(call[t].override, Remade)]
  <2>1. d.pc = "report" /\ call' = [call EXCEPT ![t] = d]
    BY <1>0, <1>9 DEF ResolveAgain, CallType
  <2> QED
    BY <1>4, <2>1
<1>10. CASE EndAttempt(t)
  <2> DEFINE d == [call[t] EXCEPT !.pc = "conclude", !.feeds = selector]
  <2>1. d.pc = "conclude" /\ call' = [call EXCEPT ![t] = d]
    BY <1>0, <1>10 DEF EndAttempt, CallType
  <2> QED
    BY <1>4, <2>1
<1>11. CASE EndUnreported(t) \/ PutFails(t)
  <2>1. call' = [call EXCEPT ![t] = Idle] /\ Idle.pc \notin {"put", "replace"}
    BY <1>11, IdleOK DEF EndUnreported, PutFails
  <2> QED
    BY <1>4, <2>1
<1> QED
  BY <1>2, <1>3, <1>5, <1>6, <1>7, <1>8, <1>9, <1>10, <1>11

\* A bandit knows at least what the store holds of it, unless it was started
\* again and not loaded, or loaded and saved at the same time.
THEOREM MemoryCorrect == Spec => []MemoryCoversStore
<1>1. Init => CopiesOK /\ MemoryCoversStore
  <2> SUFFICES ASSUME Init  PROVE CopiesOK /\ MemoryCoversStore
    OBVIOUS
  <2>1. CopiesOK
    BY IdleOK, CopyElsewhere DEF Init, CopiesOK
  <2>2. MemoryCoversStore
    BY DEF Init, MemoryCoversStore, Covers
  <2> QED
    BY <2>1, <2>2
<1>2. TypeOK /\ (CopiesOK /\ MemoryCoversStore) /\ [Next]_vars
         => (CopiesOK /\ MemoryCoversStore)'
  <2> SUFFICES ASSUME TypeOK, CopiesOK, MemoryCoversStore, [Next]_vars
               PROVE  CopiesOK' /\ MemoryCoversStore'
    OBVIOUS
  <2>1. ASSUME NEW t \in Thread, Report(t)
        PROVE  CopiesOK' /\ MemoryCoversStore'
    <3>1. /\ call[t].part \in Part /\ call[t].chosen \in Prov
          /\ \E o \in [success : BOOLEAN, reward : 0..10] :
                 Feed(call[t].feeds, call[t].part, call[t].chosen, o)
      BY <2>1, ReportFeeds
    <3>2. call' = [call EXCEPT ![t] = Idle] /\ UNCHANGED <<saved, stale>>
      BY <2>1 DEF Report
    <3> QED
      BY <3>1, <3>2, FeedCovers
  <2>2. ASSUME NEW t \in Thread, EndFeedback(t)
        PROVE  CopiesOK' /\ MemoryCoversStore'
    <3>1. /\ Feedback \subseteq [success : BOOLEAN, reward : 0..10]
          /\ call' = [call EXCEPT ![t] = Idle] /\ UNCHANGED <<saved, stale>>
      BY <2>2, BanditAssumption DEF BanditAssumption, EndFeedback
    <3>2. PICK part \in Part, p \in Prov, o \in Feedback : Feed(call[t].feeds, part, p, o)
      BY <2>2 DEF EndFeedback
    <3> QED
      BY <3>1, <3>2, FeedCovers
  <2>3. ASSUME NEW t \in Thread, NEW b \in Bandits \cup {None}, SetSelector(t, b)
        PROVE  CopiesOK' /\ MemoryCoversStore'
    <3>1. UNCHANGED <<arms, saved, stale>>
      BY <2>3 DEF SetSelector
    <3>2. ASSUME NEW u \in Thread
          PROVE  CopyOK(call'[u], stale', arms', saved')
      <4> DEFINE c == call[u].pc # "idle"
      <4>1. call'[u] = [call[u] EXCEPT !.changed = c] /\ call[u] \in CallType
        BY <2>3 DEF SetSelector, TypeOK, CallsOK, CallOK
      <4>2. /\ call'[u].pc = call[u].pc /\ call'[u].suspect = call[u].suspect
            /\ call'[u].bandit = call[u].bandit /\ call'[u].payload = call[u].payload
        BY <4>1 DEF CallType
      <4> QED
        BY <3>1, <4>2 DEF CopiesOK, CopyOK
    <3> QED
      BY <3>1, <3>2 DEF CopiesOK, MemoryCoversStore
  <2>4. CASE Restart
    <3>1. \A t \in Thread : call'[t].pc \notin {"put", "replace"}
      BY <2>4, IdleOK DEF Restart
    <3> QED
      BY <2>4, <3>1, CopyElsewhere DEF Restart, CopiesOK, MemoryCoversStore
  <2>5. CASE UNCHANGED vars
    BY <2>5 DEF vars, CopiesOK, MemoryCoversStore
  <2>6. ASSUME NEW t \in Thread,
               \/ \E part \in Part, o \in Override, c \in Candidates :
                     BeginInvoke(t, part, o, c)
               \/ Select(t) \/ ResolveAgain(t) \/ EndUnreported(t)
               \/ \E part \in Part, p \in Prov : BeginAttempt(t, part, p)
               \/ EndAttempt(t) \/ BeginFeedback(t) \/ PutFails(t)
               \/ \E b \in Bandits : BeginSave(t, b) \/ BeginLoad(t, b)
        PROVE  CopiesOK' /\ MemoryCoversStore'
    <3>1. UNCHANGED <<arms, saved, stale>>
      BY <2>6 DEF BeginInvoke, Select, ResolveAgain, EndUnreported, BeginAttempt, EndAttempt,
         BeginFeedback, PutFails, BeginSave, BeginLoad
    <3>2. CopiesOK'
      BY <2>6, OtherCovers
    <3> QED
      BY <3>1, <3>2 DEF MemoryCoversStore
  <2> QED
    BY <2>1, <2>2, <2>3, <2>4, <2>5, <2>6, PutCovers, ReplaceCovers DEF Next, Rest
<1> QED
  BY <1>1, <1>2, TypeCorrect, PTL DEF Spec
=============================================================================
