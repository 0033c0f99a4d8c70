---------------------------- MODULE ChecksProofs ----------------------------
(***************************************************************************)
(* Proofs about the bus, the health monitor and the verifier.  The         *)
(* invariant says of each call under way, whatever its place in whatever   *)
(* stack, how what it has still to do, what it has done and what is        *)
(* registered hang together.                                               *)
(***************************************************************************)
EXTENDS Checks, SequenceTheorems, FiniteSetTheorems, WellFoundedInduction, TLAPS

------------------------------------------------------------------------------
(* Sequences and stacks                                                    *)

\* A sequence begins with its head and goes on with its tail.
LEMMA HeadFacts ==
    ASSUME NEW S, NEW s \in Seq(S), s # <<>>
    PROVE  /\ Head(s) \in S /\ Tail(s) \in Seq(S)
           /\ Len(s) \in Nat \ {0} /\ Len(Tail(s)) = Len(s) - 1
           /\ DOMAIN s = 1..Len(s) /\ DOMAIN Tail(s) = 1..(Len(s) - 1)
           /\ Head(s) = s[1] /\ \A n \in DOMAIN Tail(s) : Tail(s)[n] = s[n + 1]
           /\ \A n \in DOMAIN Tail(s) : n + 1 \in DOMAIN s
           /\ Range(s) = {Head(s)} \cup Range(Tail(s))
<1>1. /\ Head(s) \in S /\ Tail(s) \in Seq(S)
      /\ Len(s) \in Nat \ {0} /\ Len(Tail(s)) = Len(s) - 1
      /\ DOMAIN s = 1..Len(s) /\ DOMAIN Tail(s) = 1..(Len(s) - 1)
      /\ Head(s) = s[1]
  OBVIOUS
<1>2. \A n \in DOMAIN Tail(s) : Tail(s)[n] = s[n + 1]
  BY HeadTailProperties
<1>3. Range(s) \subseteq {Head(s)} \cup Range(Tail(s))
  <2> SUFFICES ASSUME NEW n \in DOMAIN s, n # 1  PROVE s[n] \in Range(Tail(s))
    BY <1>1 DEF Range
  <2>1. n - 1 \in DOMAIN Tail(s) /\ (n - 1) + 1 = n
    BY <1>1
  <2>2. Tail(s)[n - 1] = s[n]
    BY <1>2, <2>1
  <2> QED
    BY <2>1, <2>2 DEF Range
<1>4. \A n \in DOMAIN Tail(s) : n + 1 \in DOMAIN s
  BY <1>1
<1>5. {Head(s)} \cup Range(Tail(s)) \subseteq Range(s)
  <2>1. 1 \in DOMAIN s
    BY <1>1
  <2> QED
    BY <1>1, <1>2, <1>4, <2>1 DEF Range
<1> QED
  BY <1>1, <1>2, <1>3, <1>4, <1>5

\* A sequence that is not empty has something in it.
LEMMA NotEmpty ==
    ASSUME NEW S, NEW s \in Seq(S)
    PROVE  s # <<>> <=> \E n \in DOMAIN s : TRUE
<1>1. DOMAIN s = 1..Len(s) /\ Len(s) \in Nat
  OBVIOUS
<1>2. ASSUME s # <<>>  PROVE \E n \in DOMAIN s : TRUE
  <2>1. Len(s) # 0
    BY <1>2
  <2>2. 1 \in DOMAIN s
    BY <1>1, <2>1
  <2> QED
    BY <2>2
<1>3. ASSUME s = <<>>  PROVE ~ \E n \in DOMAIN s : TRUE
  BY <1>3
<1> QED
  BY <1>2, <1>3

\* What is appended is the last one.
LEMMA AppendFacts ==
    ASSUME NEW S, NEW s \in Seq(S), NEW e \in S
    PROVE  /\ Append(s, e) \in Seq(S) /\ Len(s) \in Nat /\ Len(Append(s, e)) = Len(s) + 1
           /\ DOMAIN s = 1..Len(s) /\ DOMAIN Append(s, e) = 1..(Len(s) + 1)
           /\ Append(s, e)[Len(s) + 1] = e
           /\ \A n \in DOMAIN s : Append(s, e)[n] = s[n]
           /\ Range(Append(s, e)) = Range(s) \cup {e}
<1>1. /\ Append(s, e) \in Seq(S) /\ Len(s) \in Nat /\ Len(Append(s, e)) = Len(s) + 1
      /\ DOMAIN s = 1..Len(s) /\ DOMAIN Append(s, e) = 1..(Len(s) + 1)
      /\ Append(s, e)[Len(s) + 1] = e
      /\ \A n \in DOMAIN s : Append(s, e)[n] = s[n]
  OBVIOUS
<1>2. \A n \in DOMAIN Append(s, e) : n \in DOMAIN s \/ n = Len(s) + 1
  BY <1>1
<1>3. DOMAIN s \subseteq DOMAIN Append(s, e) /\ Len(s) + 1 \in DOMAIN Append(s, e)
  BY <1>1
<1> QED
  BY <1>1, <1>2, <1>3 DEF Range

\* What is left without one of them is in its order.
LEMMA RemoveFacts ==
    ASSUME NEW S, NEW s \in Seq(S), NEW i \in DOMAIN s
    PROVE  /\ RemoveAt(s, i) \in Seq(S)
           /\ \A n \in DOMAIN RemoveAt(s, i) : \E k \in DOMAIN s \ {i} :
                 /\ RemoveAt(s, i)[n] = s[k] /\ k = IF n < i THEN n ELSE n + 1
<1> DEFINE a == SubSeq(s, 1, i - 1)
           b == SubSeq(s, i + 1, Len(s))
           l == Len(s)
<1>1. l \in Nat /\ DOMAIN s = 1..l /\ i \in 1..l
  OBVIOUS
<1>2. \A n \in 1..l : s[n] \in S
  OBVIOUS
<1>3. /\ a \in Seq(S) /\ Len(a) = i - 1 /\ \A n \in 1..(i - 1) : a[n] = s[n]
  <2>1. \A n \in 1..(i - 1) : s[n] \in S
    BY <1>1, <1>2
  <2>2. 1 \in Int /\ i - 1 \in Int
    BY <1>1
  <2>3. /\ a \in Seq(S) /\ Len(a) = IF 1 <= i - 1 THEN (i - 1) - 1 + 1 ELSE 0
        /\ \A n \in 1..((i - 1) - 1 + 1) : a[n] = s[1 + n - 1]
    BY <2>1, <2>2, SubSeqProperties
  <2>4. ASSUME NEW n \in 1..(i - 1)  PROVE a[n] = s[n]
    <3>1. n \in 1..((i - 1) - 1 + 1) /\ 1 + n - 1 = n
      BY <1>1
    <3> QED
      BY <2>3, <3>1
  <2> HIDE DEF a
  <2> QED
    BY <1>1, <2>3, <2>4
<1>4. b \in Seq(S) /\ Len(b) = l - i /\ \A n \in 1..(l - i) : b[n] = s[i + n]
  <2>1. \A n \in (i + 1)..l : s[n] \in S
    BY <1>1, <1>2
  <2>2. i + 1 \in Int /\ l \in Int
    BY <1>1
  <2>3. /\ b \in Seq(S) /\ Len(b) = IF i + 1 <= l THEN l - (i + 1) + 1 ELSE 0
        /\ \A n \in 1..(l - (i + 1) + 1) : b[n] = s[(i + 1) + n - 1]
    BY <2>1, <2>2, SubSeqProperties
  <2>4. ASSUME NEW n \in 1..(l - i)  PROVE b[n] = s[i + n]
    <3>1. n \in 1..(l - (i + 1) + 1) /\ (i + 1) + n - 1 = i + n
      BY <1>1
    <3> QED
      BY <2>3, <3>1
  <2> HIDE DEF b
  <2> QED
    BY <1>1, <2>3, <2>4
<1>5. RemoveAt(s, i) = a \o b
  BY DEF RemoveAt
<1> HIDE DEF a, b, l
<1>6. /\ a \o b \in Seq(S) /\ Len(a \o b) = Len(a) + Len(b)
      /\ \A n \in 1..(Len(a) + Len(b)) :
            (a \o b)[n] = IF n <= Len(a) THEN a[n] ELSE b[n - Len(a)]
  BY <1>3, <1>4, ConcatProperties
<1>7. DOMAIN (a \o b) = 1..(l - 1) /\ Len(a) + Len(b) = l - 1
  <2>1. DOMAIN (a \o b) = 1..Len(a \o b)
    BY <1>6
  <2> QED
    BY <1>1, <1>3, <1>4, <1>6, <2>1
<1>8. ASSUME NEW n \in 1..(l - 1)
      PROVE  \E k \in DOMAIN s \ {i} : (a \o b)[n] = s[k] /\ k = IF n < i THEN n ELSE n + 1
  <2>1. (a \o b)[n] = IF n <= Len(a) THEN a[n] ELSE b[n - Len(a)]
    BY <1>6, <1>7
  <2>2. CASE n < i
    <3>1. n \in 1..(i - 1) /\ n <= Len(a) /\ n \in DOMAIN s \ {i}
      BY <1>1, <1>3, <2>2
    <3>2. (a \o b)[n] = s[n]
      BY <1>3, <2>1, <3>1
    <3> QED
      BY <2>2, <3>1, <3>2
  <2>3. CASE ~(n < i)
    <3>1. /\ ~(n <= Len(a)) /\ n - (i - 1) \in 1..(l - i) /\ i + (n - (i - 1)) = n + 1
          /\ n + 1 \in DOMAIN s \ {i}
      BY <1>1, <1>3, <2>3
    <3>2. (a \o b)[n] = b[n - (i - 1)]
      BY <1>3, <2>1, <3>1
    <3>3. b[n - (i - 1)] = s[n + 1]
      BY <1>4, <3>1
    <3> QED
      BY <2>3, <3>1, <3>2, <3>3
  <2> QED
    BY <2>2, <2>3
<1> QED
  BY <1>5, <1>6, <1>7, <1>8

\* The calls under way, of all threads.
UnderWay(st) == UNION {Range(st[u]) : u \in Thread}

\* A call in a stack is under way.
LEMMA InStack ==
    ASSUME NEW st, NEW t \in Thread, NEW i \in DOMAIN st[t]
    PROVE  st[t][i] \in UnderWay(st)
BY DEF UnderWay, Range

\* So is the innermost one.
LEMMA TopFacts ==
    ASSUME NEW t \in Thread, stack \in [Thread -> Seq(Frame)], stack[t] # <<>>
    PROVE  /\ Top(t) \in UnderWay(stack) /\ Top(t) \in Frame
           /\ Tail(stack[t]) \in Seq(Frame) /\ Range(Tail(stack[t])) \subseteq Range(stack[t])
<1>1. stack[t] \in Seq(Frame)
  OBVIOUS
<1>2. /\ Head(stack[t]) \in Frame /\ Tail(stack[t]) \in Seq(Frame)
      /\ Range(stack[t]) = {Head(stack[t])} \cup Range(Tail(stack[t]))
  BY <1>1, HeadFacts
<1> QED
  BY <1>2 DEF Top, UnderWay

\* One thread's stack is another.
LEMMA OneStack ==
    ASSUME NEW st \in [Thread -> Seq(Frame)], NEW t \in Thread, NEW new,
           NEW q \in Seq(Frame), Range(q) \subseteq Range(st[t]) \cup new
    PROVE  /\ [st EXCEPT ![t] = q] \in [Thread -> Seq(Frame)]
           /\ UnderWay([st EXCEPT ![t] = q]) \subseteq UnderWay(st) \cup new
<1> DEFINE n == [st EXCEPT ![t] = q]
<1>1. n \in [Thread -> Seq(Frame)] /\ n[t] = q /\ \A u \in Thread \ {t} : n[u] = st[u]
  OBVIOUS
<1> HIDE DEF n
<1>2. \A u \in Thread : Range(n[u]) \subseteq UnderWay(st) \cup new
  BY <1>1 DEF UnderWay
<1>3. UnderWay(n) \subseteq UnderWay(st) \cup new
  BY <1>2 DEF UnderWay
<1> QED
  BY <1>1, <1>3 DEF n

\* A call is made ...
LEMMA PushFacts ==
    ASSUME NEW t \in Thread, NEW f \in Frame, stack \in [Thread -> Seq(Frame)], Push(t, f)
    PROVE  /\ stack' \in [Thread -> Seq(Frame)]
           /\ UnderWay(stack') \subseteq UnderWay(stack) \cup {f}
<1> DEFINE s == <<f>>
<1>1. s \in Seq(Frame) /\ Range(s) = {f} /\ stack[t] \in Seq(Frame)
  BY DEF Range
<1>3. stack' = [stack EXCEPT ![t] = s \o stack[t]]
  BY DEF Push
<1> HIDE DEF s
<1>2. s \o stack[t] \in Seq(Frame) /\ Range(s \o stack[t]) = {f} \cup Range(stack[t])
  BY <1>1, ConcatProperties, RangeConcatenation
<1> QED
  BY <1>2, <1>3, OneStack

\* ... goes on ...
LEMMA BecomesFacts ==
    ASSUME NEW t \in Thread, NEW f \in Frame, stack \in [Thread -> Seq(Frame)],
           stack[t] # <<>>, Becomes(t, f)
    PROVE  /\ stack' \in [Thread -> Seq(Frame)]
           /\ UnderWay(stack') \subseteq UnderWay(stack) \cup {f}
<1> DEFINE s == <<f>>  r == Tail(stack[t])
<1>1. s \in Seq(Frame) /\ Range(s) = {f}
  BY DEF Range
<1>4. stack' = [stack EXCEPT ![t] = s \o r]
  BY DEF Becomes, Replaced
<1>2. r \in Seq(Frame) /\ Range(r) \subseteq Range(stack[t])
  BY TopFacts
<1> HIDE DEF s, r
<1>3. s \o r \in Seq(Frame) /\ Range(s \o r) = {f} \cup Range(r)
  BY <1>1, <1>2, ConcatProperties, RangeConcatenation
<1> QED
  BY <1>2, <1>3, <1>4, OneStack

\* ... and returns.
LEMMA PopFacts ==
    ASSUME NEW t \in Thread, stack \in [Thread -> Seq(Frame)], stack[t] # <<>>, Pop(t)
    PROVE  /\ stack' \in [Thread -> Seq(Frame)]
           /\ UnderWay(stack') \subseteq UnderWay(stack)
<1>1. Tail(stack[t]) \in Seq(Frame) /\ Range(Tail(stack[t])) \subseteq Range(stack[t]) \cup {}
  BY TopFacts
<1>2. stack' = [stack EXCEPT ![t] = Tail(stack[t])]
  BY DEF Pop
<1>3. UnderWay(stack) \cup {} = UnderWay(stack)
  OBVIOUS
<1> QED
  BY <1>1, <1>2, <1>3, OneStack

\* All calls are changed one by one.
Noted(st, N) == [t \in Thread |-> [i \in DOMAIN st[t] |-> N[st[t][i]]]]

\* They are calls again, each of them one of before, changed.
LEMMA EverywhereFacts ==
    ASSUME NEW N \in [Frame -> Frame], NEW st \in [Thread -> Seq(Frame)]
    PROVE  /\ Noted(st, N) \in [Thread -> Seq(Frame)]
           /\ \A g \in UnderWay(Noted(st, N)) : \E f \in UnderWay(st) : g = N[f]
<1> DEFINE new == Noted(st, N)
<1>0. new = [t \in Thread |-> [i \in DOMAIN st[t] |-> N[st[t][i]]]]
  BY DEF Noted
<1> HIDE DEF new
<1>1. ASSUME NEW t \in Thread
      PROVE  /\ new[t] \in Seq(Frame)
             /\ \A g \in Range(new[t]) : \E f \in Range(st[t]) : g = N[f]
  <2>1. /\ st[t] \in Seq(Frame) /\ Len(st[t]) \in Nat /\ DOMAIN st[t] = 1..Len(st[t])
        /\ \A i \in DOMAIN st[t] : st[t][i] \in Frame
    OBVIOUS
  <2> DEFINE q == new[t]  l == Len(st[t])  s == st[t]
  <2>2. q = [i \in DOMAIN s |-> N[s[i]]]
    BY <1>0
  <2> HIDE DEF q, s
  <2>3. q \in [1..l -> Frame]
    BY <2>1, <2>2 DEF s
  <2> HIDE DEF l
  <2>4. q \in Seq(Frame)
    <3>1. q \in UNION {[1..n -> Frame] : n \in Nat}
      BY <2>1, <2>3 DEF l
    <3> QED
      BY <3>1, SeqDef
  <2>5. \A g \in Range(q) : \E f \in Range(s) : g = N[f]
    BY <2>2 DEF Range
  <2> QED
    BY <2>4, <2>5 DEF q, s
<1>2. new \in [Thread -> Seq(Frame)]
  BY <1>0, <1>1
<1>3. ASSUME NEW g \in UnderWay(new)  PROVE \E f \in UnderWay(st) : g = N[f]
  <2>1. PICK t \in Thread : g \in Range(new[t])
    BY <1>3 DEF UnderWay
  <2>2. PICK f \in Range(st[t]) : g = N[f]
    BY <1>1, <2>1
  <2>3. f \in UnderWay(st)
    BY DEF UnderWay
  <2> QED
    BY <2>2, <2>3
<1> QED
  BY <1>2, <1>3 DEF new

------------------------------------------------------------------------------
(* The invariant                                                           *)

\* A publication on a bus with these subscriptions, of which "top" were made:
\* what is left is in the order of subscription and comes after what was called,
\* and who stayed and matches was called or is left.
PubOK(pub, list, top) ==
    /\ \A m, n \in DOMAIN pub.called : m < n => pub.called[m] < pub.called[n]
    /\ \A m, n \in DOMAIN pub.left : m < n => pub.left[m].id < pub.left[n].id
    /\ \A m \in DOMAIN pub.called, n \in DOMAIN pub.left : pub.called[m] < pub.left[n].id
    /\ pub.stayed \subseteq 1..top
    /\ \A sub \in Range(list) :
          sub.id \in pub.stayed /\ Matches(sub, pub.kind) =>
              sub.id \in Range(pub.called) \/ sub \in Range(pub.left)

\* A run of checks: each name comes once, among those that ran or that are left.
HealthOK(run) ==
    /\ Len(run.results) = Len(run.raw)
    /\ \A n \in DOMAIN run.raw : run.results[n] = StatusOf(run.raw[n][2])
    /\ \A m, n \in DOMAIN run.raw : run.raw[m][1] = run.raw[n][1] => m = n
    /\ \A m, n \in DOMAIN run.left : run.left[m] = run.left[n] => m = n
    /\ \A m \in DOMAIN run.raw, n \in DOMAIN run.left : run.raw[m][1] # run.left[n]
    /\ \A name \in run.stayed :
          name \in Range(run.left) \/ \E n \in DOMAIN run.raw : run.raw[n][1] = name
    /\ run.inside => run.left # <<>>

\* A layer of ours that passes is confident.
Confident(layer, v) == v.status = "PASS" /\ layer.kind # "custom" => v.confidence >= 8

AllPass(answers) == \A n \in DOMAIN answers : answers[n] = "PASS"
Passed(verdicts) == \A n \in DOMAIN verdicts : verdicts[n].status = "PASS"

\* The layers that were judged have rules, if that is their kind.
HaveRules(audit) ==
    \A n \in DOMAIN audit.verdicts : audit.chain[n].kind = "rules" => audit.chain[n].rules > 0

\* The layer of an audit that is being judged, if one is.
OnLayer(audit) == audit.at = Len(audit.verdicts) + 1
LayerOf(audit) == audit.chain[audit.at]

\* Where an audit is.
PlaceOK(audit) ==
    /\ audit.items # <<>> =>
          audit.at = 0 /\ audit.verdicts = <<>> /\ audit.answers = <<>> /\ audit.raw = <<>>
    /\ audit.at = Len(audit.verdicts) \/ OnLayer(audit)
    /\ audit.at <= Len(audit.chain)
    /\ audit.inside =>
          /\ audit.items = <<>> /\ OnLayer(audit) /\ LayerOf(audit).kind # "schema"
          /\ IF LayerOf(audit).kind = "rules" THEN Len(audit.answers) < LayerOf(audit).rules
             ELSE audit.answers = <<>>
    /\ OnLayer(audit) =>
          /\ LayerOf(audit).kind = "schema" => audit.answers = <<>>
          /\ LayerOf(audit).kind = "rules" => Len(audit.answers) <= LayerOf(audit).rules

\* What an audit has found so far is what user code answered so far.
FoundOK(audit) ==
    /\ Passed(audit.verdicts) /\ (OnLayer(audit) => AllPass(audit.answers))
          <=> HaveRules(audit) /\ AllPass(audit.raw)
    /\ audit.verdicts # <<>> /\ HaveRules(audit) => audit.raw # <<>>
    /\ audit.answers # <<>> => audit.raw # <<>>
    /\ \A n \in DOMAIN audit.verdicts :
          /\ Confident(audit.chain[n], audit.verdicts[n])
          /\ audit.verdicts[n].status = "FAIL" => "FAIL" \in Range(audit.raw)
    /\ "FAIL" \in Range(audit.answers) => "FAIL" \in Range(audit.raw)

\* A call under way.
Good(f, list, top) ==
    /\ f.op = "publish" => PubOK(f, list, top)
    /\ f.op = "health" => HealthOK(f)
    /\ f.op \in {"audit", "set"} => PlaceOK(f) /\ FoundOK(f)

Inv == TypeOK /\ \A f \in UnderWay(stack) : Good(f, subs, issued)

\* The kinds of calls.
LEMMA FrameKinds ==
    ASSUME NEW f \in Frame
    PROVE  /\ f.op \in {"publish", "health", "audit", "set"}
           /\ f.op = "publish" => f \in PublishFrame
           /\ f.op = "health" => f \in HealthFrame
           /\ f.op \in {"audit", "set"} => f \in AuditFrame
<1>1. \A g \in PublishFrame : g.op = "publish"
  BY DEF PublishFrame
<1>2. \A g \in HealthFrame : g.op = "health"
  BY DEF HealthFrame
<1>3. \A g \in AuditFrame : g.op \in {"audit", "set"}
  BY DEF AuditFrame
<1> QED
  BY <1>1, <1>2, <1>3 DEF Frame

\* A call that the innermost one of a thread becomes is as good as the others.
LEMMA OneMore ==
    ASSUME Inv, NEW f, Good(f, subs, issued), UNCHANGED <<subs, issued>>,
           UnderWay(stack') \subseteq UnderWay(stack) \cup {f}
    PROVE  \A g \in UnderWay(stack') : Good(g, subs', issued')
BY DEF Inv

------------------------------------------------------------------------------
(* The bus                                                                 *)

\* A publication begins.
LEMMA PublicationOK ==
    ASSUME BusTypeOK, NEW kind \in EventKind
    PROVE  Publication(kind) \in PublishFrame /\ PubOK(Publication(kind), subs, issued)
<1> DEFINE p == Publication(kind)
<1>1. /\ p = [op |-> "publish", inside |-> FALSE, kind |-> kind, left |-> subs,
              called |-> <<>>, stayed |-> Ids(subs)]
      /\ p.kind = kind /\ p.left = subs /\ p.called = <<>> /\ p.stayed = Ids(subs)
  BY DEF Publication
<1> HIDE DEF p
<1>2. \A i \in DOMAIN subs : subs[i].id \in 1..issued
  BY DEF BusTypeOK
<1>3. Ids(subs) \subseteq 1..issued /\ issued \in Nat
  BY <1>2, ChecksAssumption DEF Ids, BusTypeOK, ChecksAssumption
<1>4. p \in PublishFrame
  BY <1>1, <1>3 DEF PublishFrame, BusTypeOK
<1>5. PubOK(p, subs, issued)
  BY <1>1, <1>3 DEF PubOK, BusTypeOK
<1> QED
  BY <1>4, <1>5 DEF p

\* A subscription of another kind is passed over.
LEMMA PassOverOK ==
    ASSUME NEW p \in PublishFrame, NEW list \in Seq(Sub), NEW top, PubOK(p, list, top),
           p.left # <<>>, ~Matches(Head(p.left), p.kind),
           NEW q, q = [p EXCEPT !.left = Tail(p.left)]
    PROVE  q \in PublishFrame /\ PubOK(q, list, top)
<1> DEFINE left == p.left  rest == Tail(p.left)
<1>1. /\ left \in Seq(Sub) /\ rest \in Seq(Sub)
      /\ \A n \in DOMAIN rest : rest[n] = left[n + 1] /\ n + 1 \in DOMAIN left
      /\ Range(left) = {Head(left)} \cup Range(rest)
      /\ \A n \in DOMAIN rest : n \in Nat
  BY HeadFacts DEF PublishFrame
<1> HIDE DEF rest
<1>2. /\ q \in PublishFrame /\ q.left = rest /\ q.called = p.called
      /\ q.stayed = p.stayed /\ q.kind = p.kind
  BY <1>1 DEF PublishFrame, rest
<1>3. ASSUME NEW m \in DOMAIN rest, NEW n \in DOMAIN rest, m < n
      PROVE  rest[m].id < rest[n].id
  <2>1. m + 1 < n + 1
    BY <1>1, <1>3
  <2> QED
    BY <1>1, <2>1 DEF PubOK
<1>4. ASSUME NEW sub \in Range(list), sub.id \in p.stayed, Matches(sub, p.kind)
      PROVE  sub.id \in Range(p.called) \/ sub \in Range(rest)
  <2>1. sub.id \in Range(p.called) \/ sub \in Range(left)
    BY <1>4 DEF PubOK
  <2> QED
    BY <1>1, <1>4, <2>1
<1>5. \A m \in DOMAIN p.called, n \in DOMAIN rest : p.called[m] < rest[n].id
  BY <1>1 DEF PubOK
<1> QED
  BY <1>2, <1>3, <1>4, <1>5 DEF PubOK

\* A handler is called: its subscription comes after those before.
LEMMA CallOK ==
    ASSUME NEW p \in PublishFrame, NEW list \in Seq(Sub), NEW top, PubOK(p, list, top),
           p.left # <<>>,
           NEW q, q = [p EXCEPT !.left = Tail(p.left), !.inside = TRUE,
                                !.called = Append(p.called, Head(p.left).id)]
    PROVE  q \in PublishFrame /\ PubOK(q, list, top)
<1> DEFINE left == p.left  rest == Tail(p.left)  head == Head(p.left)
           called == p.called  more == Append(called, head.id)
<1>1. /\ left \in Seq(Sub) /\ rest \in Seq(Sub) /\ head \in Sub
      /\ \A n \in DOMAIN rest : rest[n] = left[n + 1] /\ n + 1 \in DOMAIN left
      /\ Range(left) = {head} \cup Range(rest)
      /\ \A n \in DOMAIN rest : n \in Nat \ {0}
      /\ head = left[1] /\ 1 \in DOMAIN left
  BY HeadFacts DEF PublishFrame
<1>2. called \in Seq(Nat) /\ head.id \in Nat
  BY <1>1 DEF PublishFrame, Sub
<1>3. /\ more \in Seq(Nat) /\ Len(called) \in Nat /\ DOMAIN called = 1..Len(called)
      /\ DOMAIN more = 1..(Len(called) + 1) /\ more[Len(called) + 1] = head.id
      /\ \A n \in DOMAIN called : more[n] = called[n]
      /\ Range(more) = Range(called) \cup {head.id}
  BY <1>2, AppendFacts
<1> HIDE DEF more, rest, head
<1>4. q = [p EXCEPT !.left = rest, !.inside = TRUE, !.called = more]
  BY DEF rest, more, head
<1>5. /\ q \in PublishFrame /\ q.left = rest /\ q.called = more
      /\ q.stayed = p.stayed /\ q.kind = p.kind
  BY <1>1, <1>3, <1>4 DEF PublishFrame
<1>6. ASSUME NEW m \in DOMAIN rest, NEW n \in DOMAIN rest, m < n
      PROVE  rest[m].id < rest[n].id
  <2>1. m + 1 < n + 1
    BY <1>1, <1>6
  <2> QED
    BY <1>1, <2>1 DEF PubOK
<1>7. ASSUME NEW sub \in Range(list), sub.id \in p.stayed, Matches(sub, p.kind)
      PROVE  sub.id \in Range(more) \/ sub \in Range(rest)
  <2>1. sub.id \in Range(p.called) \/ sub \in Range(left)
    BY <1>7 DEF PubOK
  <2> QED
    BY <1>1, <1>3, <1>7, <2>1
<1>8. \A m \in DOMAIN more : m \in DOMAIN called \/ m = Len(called) + 1
  BY <1>3
<1>9. \A m \in DOMAIN called : more[m] < head.id
  BY <1>1, <1>3 DEF PubOK
<1>10. \A n \in DOMAIN rest : head.id < rest[n].id
  <2>1. \A n \in DOMAIN rest : 1 < n + 1
    BY <1>1
  <2> QED
    BY <1>1, <2>1 DEF PubOK
<1>11. ASSUME NEW m \in DOMAIN more, NEW n \in DOMAIN more, m < n
       PROVE  more[m] < more[n]
  <2>1. m \in DOMAIN called
    BY <1>3, <1>11
  <2>2. CASE n \in DOMAIN called
    BY <1>3, <1>11, <2>1, <2>2 DEF PubOK
  <2>3. CASE n = Len(called) + 1
    BY <1>3, <1>9, <2>1, <2>3
  <2> QED
    BY <1>8, <2>2, <2>3
<1>12. \A m \in DOMAIN more, n \in DOMAIN rest : more[m] < rest[n].id
  <2>1. ASSUME NEW m \in DOMAIN called, NEW n \in DOMAIN rest  PROVE more[m] < rest[n].id
    BY <1>1, <1>3, <2>1 DEF PubOK
  <2> QED
    BY <1>3, <1>8, <1>10, <2>1
<1>13. p.stayed \subseteq 1..top
  BY DEF PubOK
<1> HIDE DEF called
<1> QED
  BY <1>5, <1>6, <1>7, <1>11, <1>12, <1>13 DEF PubOK

\* A new subscription is none that was there.
LEMMA SubscribedOK ==
    ASSUME BusTypeOK, NEW p, PubOK(p, subs, issued), NEW sub \in Sub, sub.id = issued + 1
    PROVE  PubOK(p, Append(subs, sub), issued + 1)
<1>1. Range(Append(subs, sub)) = Range(subs) \cup {sub}
  BY AppendFacts DEF BusTypeOK
<1>2. issued \in Nat
  BY ChecksAssumption DEF BusTypeOK, ChecksAssumption
<1>3. sub.id \notin p.stayed /\ p.stayed \subseteq 1..(issued + 1)
  BY <1>2 DEF PubOK
<1> QED
  BY <1>1, <1>3 DEF PubOK

\* Who unsubscribes has not stayed.
LEMMA UnsubscribedOK ==
    ASSUME BusTypeOK, NEW p \in PublishFrame, PubOK(p, subs, issued), NEW i \in DOMAIN subs,
           NEW id, NEW q, q = [p EXCEPT !.stayed = p.stayed \ {id}]
    PROVE  q \in PublishFrame /\ PubOK(q, RemoveAt(subs, i), issued)
<1>1. Range(RemoveAt(subs, i)) \subseteq Range(subs)
  <2>1. \A n \in DOMAIN RemoveAt(subs, i) : \E k \in DOMAIN subs : RemoveAt(subs, i)[n] = subs[k]
    BY RemoveFacts DEF BusTypeOK
  <2> QED
    BY <2>1 DEF Range
<1>2. /\ q \in PublishFrame /\ q.left = p.left /\ q.called = p.called
      /\ q.stayed = p.stayed \ {id} /\ q.kind = p.kind
  BY DEF PublishFrame
<1> QED
  BY <1>1, <1>2 DEF PubOK

\* Nothing but the stack changes, and only one call of it.
LEMMA StackStep ==
    ASSUME Inv, NEW f, Good(f, subs, issued), UNCHANGED <<busVars, checks, verifierVars>>,
           stack' \in [Thread -> Seq(Frame)],
           UnderWay(stack') \subseteq UnderWay(stack) \cup {f}
    PROVE  Inv'
<1>1. \A g \in UnderWay(stack') : Good(g, subs', issued')
  BY OneMore DEF busVars
<1>2. BusTypeOK' /\ HealthTypeOK' /\ VerifierTypeOK'
  BY DEF Inv, TypeOK, BusTypeOK, HealthTypeOK, VerifierTypeOK, busVars, verifierVars
<1> QED
  BY <1>1, <1>2 DEF Inv, TypeOK

\* A call is made.
LEMMA PushStep ==
    ASSUME Inv, NEW t \in Thread, NEW f \in Frame, Good(f, subs, issued), Push(t, f),
           UNCHANGED <<busVars, checks, verifierVars>>
    PROVE  Inv'
<1>1. stack \in [Thread -> Seq(Frame)]
  BY DEF Inv, TypeOK
<1> QED
  BY <1>1, PushFacts, StackStep

\* A call goes on.
LEMMA BecomesStep ==
    ASSUME Inv, NEW t \in Thread, NEW f \in Frame, Good(f, subs, issued), stack[t] # <<>>,
           Becomes(t, f), UNCHANGED <<busVars, checks, verifierVars>>
    PROVE  Inv'
<1>1. stack \in [Thread -> Seq(Frame)]
  BY DEF Inv, TypeOK
<1> QED
  BY <1>1, BecomesFacts, StackStep

\* A call returns.
LEMMA PopStep ==
    ASSUME Inv, NEW t \in Thread, stack[t] # <<>>, Pop(t),
           UNCHANGED <<busVars, checks, verifierVars>>
    PROVE  Inv'
<1>1. stack \in [Thread -> Seq(Frame)]
  BY DEF Inv, TypeOK
<1>2. Top(t) \in UnderWay(stack) /\ Good(Top(t), subs, issued)
  BY <1>1, TopFacts DEF Inv
<1>3. stack' \in [Thread -> Seq(Frame)] /\ UnderWay(stack') \subseteq UnderWay(stack) \cup {Top(t)}
  BY <1>1, PopFacts
<1> QED
  BY <1>2, <1>3, StackStep

\* What the innermost call is.
LEMMA TopGood ==
    ASSUME Inv, NEW t \in Thread, stack[t] # <<>>
    PROVE  /\ Top(t) \in Frame /\ Good(Top(t), subs, issued)
           /\ Top(t).op = "publish" => Top(t) \in PublishFrame
           /\ Top(t).op = "health" => Top(t) \in HealthFrame
           /\ Top(t).op \in {"audit", "set"} => Top(t) \in AuditFrame
<1>1. stack \in [Thread -> Seq(Frame)]
  BY DEF Inv, TypeOK
<1>2. Top(t) \in UnderWay(stack) /\ Top(t) \in Frame
  BY <1>1, TopFacts
<1> QED
  BY <1>2, FrameKinds DEF Inv

\* subscribe: a new id is the greatest, and none that a publication has.
LEMMA SubscribeStep ==
    ASSUME Inv, NEW t \in Thread, NEW kind \in EventKind \cup {Wildcard}, Subscribe(t, kind),
           UNCHANGED <<checks, verifierVars>>
    PROVE  Inv'
<1> DEFINE sub == [id |-> issued + 1, kind |-> kind]
<1>1. BusTypeOK /\ issued \in Nat /\ issued + 1 \in 0..MaxSubs
  BY ChecksAssumption DEF Inv, TypeOK, BusTypeOK, Subscribe, ChecksAssumption
<1>2. sub \in Sub /\ sub.id = issued + 1
  BY <1>1 DEF Sub
<1>3. issued' = issued + 1 /\ subs' = Append(subs, sub) /\ stack' = stack
  BY DEF Subscribe
<1> HIDE DEF sub
<1>4. BusTypeOK'
  <2> DEFINE n == Len(subs)
  <2>1. /\ subs' \in Seq(Sub) /\ n \in Nat /\ DOMAIN subs = 1..n
        /\ DOMAIN subs' = 1..(n + 1) /\ subs'[n + 1] = sub
        /\ \A i \in DOMAIN subs : subs'[i] = subs[i]
    BY <1>1, <1>2, <1>3, AppendFacts DEF BusTypeOK
  <2> HIDE DEF n
  <2>2. \A i \in DOMAIN subs' : i \in DOMAIN subs \/ i = n + 1
    BY <2>1
  <2>3. \A i \in DOMAIN subs : subs[i] \in Sub /\ subs[i].id \in 1..issued
    BY <1>1 DEF BusTypeOK
  <2>4. \A i \in DOMAIN subs' : subs'[i] \in Sub /\ subs'[i].id \in 1..issued'
    <3>1. \A j \in 1..issued : j \in 1..(issued + 1)
      BY <1>1
    <3>2. issued + 1 \in 1..(issued + 1)
      BY <1>1
    <3> QED
      BY <1>2, <1>3, <2>1, <2>2, <2>3, <3>1, <3>2
  <2>5. ASSUME NEW i \in DOMAIN subs', NEW j \in DOMAIN subs', i < j
        PROVE  subs'[i].id < subs'[j].id
    <3>1. i \in DOMAIN subs /\ i # n + 1
      BY <2>1, <2>5
    <3>2. CASE j \in DOMAIN subs
      BY <1>1, <2>1, <2>5, <3>1, <3>2 DEF BusTypeOK
    <3>3. CASE j = n + 1
      <4>1. subs'[j].id = issued + 1 /\ subs'[i].id \in 1..issued
        BY <1>2, <2>1, <2>3, <3>1, <3>3
      <4> QED
        BY <1>1, <4>1
    <3> QED
      BY <2>2, <3>2, <3>3
  <2> QED
    BY <1>1, <1>3, <2>1, <2>4, <2>5 DEF BusTypeOK
<1>5. \A f \in UnderWay(stack') : Good(f, subs', issued')
  <2> SUFFICES ASSUME NEW f \in UnderWay(stack)  PROVE Good(f, subs', issued')
    BY <1>3
  <2>1. Good(f, subs, issued)
    BY DEF Inv
  <2>2. PubOK(f, subs, issued) => PubOK(f, subs', issued')
    BY <1>1, <1>2, <1>3, SubscribedOK
  <2> QED
    BY <2>1, <2>2 DEF Good
<1>6. HealthTypeOK' /\ VerifierTypeOK'
  BY DEF Inv, TypeOK, HealthTypeOK, VerifierTypeOK, verifierVars
<1> QED
  BY <1>3, <1>4, <1>5, <1>6 DEF Inv, TypeOK

\* unsubscribe, which the publications under way notice.
LEMMA UnsubscribeStep ==
    ASSUME Inv, NEW t \in Thread, NEW id, Unsubscribe(t, id),
           UNCHANGED <<checks, verifierVars>>
    PROVE  Inv'
<1> DEFINE N == [f \in Frame |->
                   IF f.op = "publish" THEN [f EXCEPT !.stayed = f.stayed \ {id}] ELSE f]
           new == Noted(stack, N)
<1>1. PICK i \in DOMAIN subs : subs' = RemoveAt(subs, i)
  BY DEF Unsubscribe
<1>2. BusTypeOK /\ stack \in [Thread -> Seq(Frame)] /\ issued' = issued
  BY DEF Inv, TypeOK, Unsubscribe
<1>3. N \in [Frame -> Frame]
  <2> SUFFICES ASSUME NEW f \in Frame  PROVE N[f] \in Frame
    OBVIOUS
  <2>1. CASE f.op = "publish"
    <3>1. [f EXCEPT !.stayed = f.stayed \ {id}] \in PublishFrame
      <4>1. f \in PublishFrame
        BY <2>1, FrameKinds
      <4> QED
        BY <4>1 DEF PublishFrame
    <3> QED
      BY <2>1, <3>1 DEF Frame
  <2>2. CASE f.op # "publish"
    BY <2>2
  <2> QED
    BY <2>1, <2>2
<1>4. stack' = new
  <2>1. \A u \in Thread : \A n \in DOMAIN stack[u] : stack[u][n] \in Frame
    BY <1>2
  <2> QED
    BY <2>1 DEF Unsubscribe, Everywhere, Noted
<1>5. \A f \in Frame : N[f] = IF f.op = "publish" THEN [f EXCEPT !.stayed = f.stayed \ {id}] ELSE f
  OBVIOUS
<1> HIDE DEF N
<1>6. new \in [Thread -> Seq(Frame)] /\ \A g \in UnderWay(new) : \E f \in UnderWay(stack) : g = N[f]
  <2>1. stack \in [Thread -> Seq(Frame)]
    BY <1>2
  <2> QED
    BY <1>3, <2>1, EverywhereFacts
<1> HIDE DEF new
<1>7. ASSUME NEW g \in UnderWay(new)  PROVE Good(g, subs', issued')
  <2>1. PICK f \in UnderWay(stack) : g = N[f]
    BY <1>6
  <2>2. f \in Frame /\ Good(f, subs, issued)
    <3>1. \A u \in Thread : Range(stack[u]) \subseteq Frame
      BY <1>2 DEF Range
    <3> QED
      BY <3>1 DEF UnderWay, Inv
  <2>3. CASE f.op = "publish"
    <3>1. f \in PublishFrame /\ PubOK(f, subs, issued)
      BY <2>2, <2>3, FrameKinds DEF Good
    <3>2. g = [f EXCEPT !.stayed = f.stayed \ {id}]
      BY <1>5, <2>1, <2>2, <2>3
    <3>3. g \in PublishFrame /\ PubOK(g, subs', issued')
      BY <1>1, <1>2, <3>1, <3>2, UnsubscribedOK
    <3>4. g.op = "publish"
      BY <3>3 DEF PublishFrame
    <3> QED
      BY <3>3, <3>4 DEF Good
  <2>4. CASE f.op # "publish"
    <3>1. g = f
      BY <1>5, <2>1, <2>2, <2>4
    <3> QED
      BY <2>2, <2>4, <3>1 DEF Good
  <2> QED
    BY <2>3, <2>4
<1>8. BusTypeOK'
  <2>1. /\ subs' \in Seq(Sub)
        /\ \A n \in DOMAIN subs' : \E k \in DOMAIN subs \ {i} :
              subs'[n] = subs[k] /\ k = IF n < i THEN n ELSE n + 1
    BY <1>1, <1>2, RemoveFacts DEF BusTypeOK
  <2>2. \A n \in DOMAIN subs' : subs'[n] \in Sub /\ subs'[n].id \in 1..issued'
    BY <1>2, <2>1 DEF BusTypeOK
  <2>3. ASSUME NEW m \in DOMAIN subs', NEW n \in DOMAIN subs', m < n
        PROVE  subs'[m].id < subs'[n].id
    <3>1. PICK j \in DOMAIN subs : subs'[m] = subs[j] /\ j = IF m < i THEN m ELSE m + 1
      BY <2>1
    <3>2. PICK k \in DOMAIN subs : subs'[n] = subs[k] /\ k = IF n < i THEN n ELSE n + 1
      BY <2>1
    <3>3. m \in Nat /\ n \in Nat /\ i \in Nat
      BY <1>2, <2>1 DEF BusTypeOK
    <3>4. j < k
      BY <2>3, <3>1, <3>2, <3>3
    <3> QED
      BY <1>2, <3>1, <3>2, <3>4 DEF BusTypeOK
  <2> QED
    BY <1>2, <2>1, <2>2, <2>3 DEF BusTypeOK
<1>9. HealthTypeOK' /\ VerifierTypeOK'
  BY DEF Inv, TypeOK, HealthTypeOK, VerifierTypeOK, verifierVars
<1> QED
  BY <1>4, <1>6, <1>7, <1>8, <1>9 DEF Inv, TypeOK

\* Every step of the bus itself.
LEMMA BusSteps ==
    ASSUME Inv, NEW t \in Thread, UNCHANGED <<checks, verifierVars>>,
           (\E kind \in EventKind : Publish(t, kind)) \/ BusStep(t)
    PROVE  Inv'
<1> DEFINE p == Top(t)
<1>1. ASSUME NEW kind \in EventKind, Publish(t, kind)  PROVE Inv'
  <2> DEFINE q == Publication(kind)
  <2>1. q \in PublishFrame /\ PubOK(q, subs, issued)
    BY PublicationOK DEF Inv, TypeOK
  <2>2. Push(t, q) /\ UNCHANGED busVars
    BY <1>1 DEF Publish
  <2> HIDE DEF q
  <2>3. q.op = "publish" /\ q \in Frame
    BY <2>1 DEF PublishFrame, Frame
  <2>4. Good(q, subs, issued)
    BY <2>1, <2>3 DEF Good
  <2> QED
    BY <2>2, <2>3, <2>4, PushStep
<1>2. ASSUME stack[t] # <<>>, p.op = "publish"
      PROVE  p \in PublishFrame /\ PubOK(p, subs, issued) /\ subs \in Seq(Sub)
  BY <1>2, TopGood DEF Good, Inv, TypeOK, BusTypeOK
<1>3. ASSUME NEW q \in PublishFrame, PubOK(q, subs, issued), stack[t] # <<>>, Becomes(t, q),
             UNCHANGED busVars
      PROVE  Inv'
  <2>1. q.op = "publish" /\ q \in Frame
    BY <1>3 DEF PublishFrame, Frame
  <2>2. Good(q, subs, issued)
    BY <1>3, <2>1 DEF Good
  <2> QED
    BY <1>3, <2>1, <2>2, BecomesStep
<1>4. ASSUME PassOver(t)  PROVE Inv'
  <2> DEFINE q == [p EXCEPT !.left = Tail(p.left)]
  <2>1. /\ stack[t] # <<>> /\ p.op = "publish" /\ p.left # <<>> /\ ~Matches(Head(p.left), p.kind)
        /\ Becomes(t, q) /\ UNCHANGED busVars
    BY <1>4 DEF PassOver, Running
  <2>2. p \in PublishFrame /\ PubOK(p, subs, issued) /\ subs \in Seq(Sub)
    BY <1>2, <2>1
  <2> HIDE DEF p
  <2>3. q \in PublishFrame /\ PubOK(q, subs, issued)
    BY <2>1, <2>2, PassOverOK
  <2> QED
    BY <1>3, <2>1, <2>3
<1>5. ASSUME Call(t)  PROVE Inv'
  <2> DEFINE q == [p EXCEPT !.left = Tail(p.left), !.inside = TRUE,
                            !.called = Append(p.called, Head(p.left).id)]
  <2>1. /\ stack[t] # <<>> /\ p.op = "publish" /\ p.left # <<>>
        /\ Becomes(t, q) /\ UNCHANGED busVars
    BY <1>5 DEF Call, Running
  <2>2. p \in PublishFrame /\ PubOK(p, subs, issued) /\ subs \in Seq(Sub)
    BY <1>2, <2>1
  <2> HIDE DEF p
  <2>3. q \in PublishFrame /\ PubOK(q, subs, issued)
    BY <2>1, <2>2, CallOK
  <2> QED
    BY <1>3, <2>1, <2>3
<1>6. ASSUME Returned(t)  PROVE Inv'
  <2> DEFINE q == [p EXCEPT !.inside = FALSE]
  <2>1. stack[t] # <<>> /\ p.op = "publish" /\ Becomes(t, q) /\ UNCHANGED busVars
    BY <1>6 DEF Returned
  <2>2. p \in PublishFrame /\ PubOK(p, subs, issued)
    BY <1>2, <2>1
  <2> HIDE DEF p
  <2>3. /\ q \in PublishFrame /\ q.left = p.left /\ q.called = p.called
        /\ q.stayed = p.stayed /\ q.kind = p.kind
    BY <2>2 DEF PublishFrame
  <2>4. PubOK(q, subs, issued)
    <3> HIDE DEF q
    <3> QED  BY <2>2, <2>3 DEF PubOK
  <2> QED
    BY <1>3, <2>1, <2>3, <2>4
<1>7. ASSUME EndPublish(t)  PROVE Inv'
  <2>1. stack[t] # <<>> /\ Pop(t) /\ UNCHANGED busVars
    BY <1>7 DEF EndPublish, Running
  <2> QED
    BY <2>1, PopStep
<1> QED
  BY <1>1, <1>4, <1>5, <1>6, <1>7 DEF BusStep

------------------------------------------------------------------------------
(* The health monitor                                                      *)

\* A run begins with names that differ.
LEMMA MonitoringOK ==
    ASSUME NEW names \in Seq(CheckName), \A i, j \in DOMAIN names : names[i] = names[j] => i = j
    PROVE  Monitoring(names) \in HealthFrame /\ HealthOK(Monitoring(names))
<1> DEFINE r == Monitoring(names)
<1>1. /\ r = [op |-> "health", inside |-> FALSE, left |-> names, results |-> <<>>,
              raw |-> <<>>, stayed |-> Range(names)]
      /\ r.inside = FALSE /\ r.left = names /\ r.results = <<>> /\ r.raw = <<>>
      /\ r.stayed = Range(names)
  BY DEF Monitoring
<1> HIDE DEF r
<1>2. Range(names) \subseteq CheckName
  BY RangeOfSeq
<1>3. r \in HealthFrame
  BY <1>1, <1>2 DEF HealthFrame
<1>4. HealthOK(r)
  BY <1>1 DEF HealthOK
<1> QED
  BY <1>3, <1>4 DEF r

\* The first of the names that are left has run.
LEMMA CheckedOK ==
    ASSUME NEW r \in HealthFrame, HealthOK(r), r.left # <<>>, NEW outcome \in CheckOutcome,
           NEW q, q = [r EXCEPT !.inside = FALSE, !.left = Tail(r.left),
                                !.results = Append(r.results, StatusOf(outcome)),
                                !.raw = Append(r.raw, <<Head(r.left), outcome>>)]
    PROVE  q \in HealthFrame /\ HealthOK(q)
<1> DEFINE left == r.left  rest == Tail(r.left)  head == Head(r.left)  l == Len(r.raw)
           raw == Append(r.raw, <<head, outcome>>)
           results == Append(r.results, StatusOf(outcome))
<1>1. /\ left \in Seq(CheckName) /\ rest \in Seq(CheckName) /\ head \in CheckName
      /\ \A n \in DOMAIN rest : rest[n] = left[n + 1] /\ n + 1 \in DOMAIN left
      /\ Range(left) = {head} \cup Range(rest)
      /\ \A n \in DOMAIN rest : n \in Nat \ {0}
      /\ head = left[1] /\ 1 \in DOMAIN left
  BY HeadFacts DEF HealthFrame
<1>2. StatusOf(outcome) \in DOMAIN Severity
  BY HealthAssumption DEF HealthAssumption, StatusOf, Severity
<1>3. /\ raw \in Seq(CheckName \X CheckOutcome) /\ l \in Nat
      /\ DOMAIN r.raw = 1..l /\ DOMAIN raw = 1..(l + 1) /\ Len(raw) = l + 1
      /\ raw[l + 1] = <<head, outcome>> /\ \A n \in DOMAIN r.raw : raw[n] = r.raw[n]
  <2>1. <<head, outcome>> \in CheckName \X CheckOutcome /\ r.raw \in Seq(CheckName \X CheckOutcome)
    BY <1>1 DEF HealthFrame
  <2> QED
    BY <2>1, AppendFacts
<1>4. /\ results \in Seq(DOMAIN Severity) /\ Len(results) = l + 1
      /\ results[l + 1] = StatusOf(outcome) /\ \A n \in DOMAIN r.raw : results[n] = r.results[n]
  <2>1. r.results \in Seq(DOMAIN Severity) /\ Len(r.results) = l
    BY DEF HealthFrame, HealthOK
  <2>2. DOMAIN r.results = DOMAIN r.raw
    BY <1>3, <2>1
  <2> QED
    BY <1>2, <2>1, <2>2, AppendFacts
<1>5. raw[l + 1][1] = head /\ raw[l + 1][2] = outcome
  BY <1>3
<1> HIDE DEF raw, results, rest, head
<1>6. q = [r EXCEPT !.inside = FALSE, !.left = rest, !.results = results, !.raw = raw]
  BY DEF raw, results, rest, head
<1>7. /\ q \in HealthFrame /\ q.inside = FALSE /\ q.left = rest /\ q.results = results
      /\ q.raw = raw /\ q.stayed = r.stayed
  BY <1>1, <1>3, <1>4, <1>6 DEF HealthFrame
<1> HIDE DEF l
<1>8. \A n \in DOMAIN raw : n \in DOMAIN r.raw \/ n = l + 1
  BY <1>3
<1>17. \A m \in DOMAIN r.raw, n \in DOMAIN left : r.raw[m][1] # left[n]
  BY DEF HealthOK
<1> HIDE DEF left
<1>9. \A n \in DOMAIN r.raw : raw[n][1] # head
  BY <1>1, <1>3, <1>17
<1>10. ASSUME NEW m \in DOMAIN raw, NEW n \in DOMAIN raw, raw[m][1] = raw[n][1]
       PROVE  m = n
  <2>1. CASE m \in DOMAIN r.raw /\ n \in DOMAIN r.raw
    BY <1>3, <1>10, <2>1 DEF HealthOK
  <2>2. CASE m = l + 1 \/ n = l + 1
    BY <1>5, <1>8, <1>9, <1>10, <2>2
  <2> QED
    BY <1>8, <2>1, <2>2
<1>11. ASSUME NEW m \in DOMAIN rest, NEW n \in DOMAIN rest, rest[m] = rest[n]
       PROVE  m = n
  <2>1. m + 1 = n + 1
    BY <1>1, <1>11 DEF HealthOK, left
  <2> QED
    BY <1>1, <2>1
<1>12. \A n \in DOMAIN rest : rest[n] # head
  <2>1. \A n \in DOMAIN rest : n + 1 # 1
    BY <1>1
  <2> QED
    BY <1>1, <2>1 DEF HealthOK, left
<1>13. ASSUME NEW m \in DOMAIN raw, NEW n \in DOMAIN rest  PROVE raw[m][1] # rest[n]
  <2>1. CASE m \in DOMAIN r.raw
    <3>1. raw[m] = r.raw[m]
      BY <1>3, <2>1
    <3>2. rest[n] = left[n + 1] /\ n + 1 \in DOMAIN left
      BY <1>1
    <3> QED
      BY <1>17, <2>1, <3>1, <3>2
  <2>2. CASE m = l + 1
    BY <1>5, <1>12, <2>2
  <2> QED
    BY <1>8, <2>1, <2>2
<1>14. \A n \in DOMAIN raw : results[n] = StatusOf(raw[n][2])
  <2>1. \A n \in DOMAIN r.raw : results[n] = StatusOf(raw[n][2])
    BY <1>3, <1>4 DEF HealthOK
  <2> QED
    BY <1>4, <1>5, <1>8, <2>1
<1>15. ASSUME NEW name \in r.stayed
       PROVE  name \in Range(rest) \/ \E n \in DOMAIN raw : raw[n][1] = name
  <2>1. CASE name = head
    <3>1. l + 1 \in DOMAIN raw
      BY <1>3
    <3> QED
      BY <1>5, <2>1, <3>1
  <2>2. CASE name \in Range(rest)
    BY <2>2
  <2>3. CASE \E n \in DOMAIN r.raw : r.raw[n][1] = name
    <3>1. PICK n \in DOMAIN r.raw : r.raw[n][1] = name
      BY <2>3
    <3>2. n \in DOMAIN raw /\ raw[n][1] = name
      BY <1>3, <3>1
    <3> QED
      BY <3>2
  <2> QED
    BY <1>1, <2>1, <2>2, <2>3 DEF HealthOK, left
<1>16. Len(results) = Len(raw)
  BY <1>3, <1>4
<1>18. /\ Len(q.results) = Len(q.raw) /\ \A n \in DOMAIN q.raw : q.results[n] = StatusOf(q.raw[n][2])
       /\ q.inside => q.left # <<>>
  BY <1>7, <1>14, <1>16
<1>19. /\ \A m, n \in DOMAIN q.raw : q.raw[m][1] = q.raw[n][1] => m = n
       /\ \A m, n \in DOMAIN q.left : q.left[m] = q.left[n] => m = n
       /\ \A m \in DOMAIN q.raw, n \in DOMAIN q.left : q.raw[m][1] # q.left[n]
  <2>1. q.raw = raw /\ q.left = rest
    BY <1>7
  <2>2. \A m, n \in DOMAIN raw : raw[m][1] = raw[n][1] => m = n
    BY <1>10
  <2>3. \A m, n \in DOMAIN rest : rest[m] = rest[n] => m = n
    BY <1>11
  <2>4. \A m \in DOMAIN raw, n \in DOMAIN rest : raw[m][1] # rest[n]
    BY <1>13
  <2>5. \A m, n \in DOMAIN q.raw : q.raw[m][1] = q.raw[n][1] => m = n
    BY <2>1, <2>2
  <2>6. \A m, n \in DOMAIN q.left : q.left[m] = q.left[n] => m = n
    BY <2>1, <2>3
  <2>7. \A m \in DOMAIN q.raw, n \in DOMAIN q.left : q.raw[m][1] # q.left[n]
    BY <2>1, <2>4
  <2> QED
    BY <2>5, <2>6, <2>7
<1>20. \A name \in q.stayed :
          name \in Range(q.left) \/ \E n \in DOMAIN q.raw : q.raw[n][1] = name
  BY <1>7, <1>15
<1> QED
  BY <1>7, <1>18, <1>19, <1>20 DEF HealthOK

\* register_check: the names still differ.
LEMMA RegisterCheckStep ==
    ASSUME Inv, NEW t \in Thread, NEW name \in CheckName, RegisterCheck(t, name),
           UNCHANGED verifierVars
    PROVE  Inv'
<1>1. HealthTypeOK
  BY DEF Inv, TypeOK
<1>2. HealthTypeOK'
  <2>1. CASE name \in Range(checks)
    BY <1>1, <2>1 DEF RegisterCheck, HealthTypeOK
  <2>2. CASE name \notin Range(checks)
    <3>1. checks' = Append(checks, name)
      BY <2>2 DEF RegisterCheck
    <3>2. /\ checks' \in Seq(CheckName) /\ Len(checks) \in Nat
          /\ DOMAIN checks = 1..Len(checks) /\ DOMAIN checks' = 1..(Len(checks) + 1)
          /\ checks'[Len(checks) + 1] = name /\ \A n \in DOMAIN checks : checks'[n] = checks[n]
      BY <1>1, <3>1, AppendFacts DEF HealthTypeOK
    <3>3. \A n \in DOMAIN checks : checks[n] # name
      BY <2>2 DEF Range
    <3>4. \A n \in DOMAIN checks' : n \in DOMAIN checks \/ n = Len(checks) + 1
      BY <3>2
    <3> QED
      BY <1>1, <3>2, <3>3, <3>4 DEF HealthTypeOK
  <2> QED
    BY <2>1, <2>2
<1>3. stack' = stack /\ subs' = subs /\ issued' = issued
  BY DEF RegisterCheck, busVars
<1>4. BusTypeOK' /\ VerifierTypeOK'
  BY <1>3 DEF Inv, TypeOK, BusTypeOK, VerifierTypeOK, verifierVars
<1> QED
  BY <1>2, <1>3, <1>4 DEF Inv, TypeOK

\* unregister_check, which the runs under way notice.
LEMMA UnregisterCheckStep ==
    ASSUME Inv, NEW t \in Thread, NEW name, UnregisterCheck(t, name), UNCHANGED verifierVars
    PROVE  Inv'
<1> DEFINE N == [f \in Frame |->
                   IF f.op = "health" THEN [f EXCEPT !.stayed = f.stayed \ {name}] ELSE f]
           new == Noted(stack, N)
<1>1. PICK i \in DOMAIN checks : checks' = RemoveAt(checks, i)
  BY DEF UnregisterCheck
<1>2. HealthTypeOK /\ stack \in [Thread -> Seq(Frame)] /\ subs' = subs /\ issued' = issued
  BY DEF Inv, TypeOK, UnregisterCheck, busVars
<1>3. N \in [Frame -> Frame]
  <2> SUFFICES ASSUME NEW f \in Frame  PROVE N[f] \in Frame
    OBVIOUS
  <2>1. CASE f.op = "health"
    <3>1. [f EXCEPT !.stayed = f.stayed \ {name}] \in HealthFrame
      <4>1. f \in HealthFrame
        BY <2>1, FrameKinds
      <4> QED
        BY <4>1 DEF HealthFrame
    <3> QED
      BY <2>1, <3>1 DEF Frame
  <2>2. CASE f.op # "health"
    BY <2>2
  <2> QED
    BY <2>1, <2>2
<1>4. stack' = new
  <2>1. \A u \in Thread : \A n \in DOMAIN stack[u] : stack[u][n] \in Frame
    BY <1>2
  <2> QED
    BY <2>1 DEF UnregisterCheck, Everywhere, Noted
<1>5. \A f \in Frame : N[f] = IF f.op = "health" THEN [f EXCEPT !.stayed = f.stayed \ {name}] ELSE f
  OBVIOUS
<1> HIDE DEF N
<1>6. new \in [Thread -> Seq(Frame)] /\ \A g \in UnderWay(new) : \E f \in UnderWay(stack) : g = N[f]
  <2>1. stack \in [Thread -> Seq(Frame)]
    BY <1>2
  <2> QED
    BY <1>3, <2>1, EverywhereFacts
<1> HIDE DEF new
<1>7. ASSUME NEW g \in UnderWay(new)  PROVE Good(g, subs', issued')
  <2>1. PICK f \in UnderWay(stack) : g = N[f]
    BY <1>6
  <2>2. f \in Frame /\ Good(f, subs, issued)
    <3>1. \A u \in Thread : Range(stack[u]) \subseteq Frame
      BY <1>2 DEF Range
    <3> QED
      BY <3>1 DEF UnderWay, Inv
  <2>3. CASE f.op = "health"
    <3>1. f \in HealthFrame /\ HealthOK(f)
      BY <2>2, <2>3, FrameKinds DEF Good
    <3>2. g = [f EXCEPT !.stayed = f.stayed \ {name}]
      BY <1>5, <2>1, <2>2, <2>3
    <3>3. /\ g.op = "health" /\ g.inside = f.inside /\ g.left = f.left /\ g.results = f.results
          /\ g.raw = f.raw /\ g.stayed = f.stayed \ {name}
      BY <3>1, <3>2 DEF HealthFrame
    <3>4. HealthOK(g)
      BY <3>1, <3>3 DEF HealthOK
    <3> QED
      BY <3>3, <3>4 DEF Good
  <2>4. CASE f.op # "health"
    <3>1. g = f
      BY <1>5, <2>1, <2>2, <2>4
    <3> QED
      BY <1>2, <2>2, <2>4, <3>1 DEF Good
  <2> QED
    BY <2>3, <2>4
<1>8. HealthTypeOK'
  <2>1. /\ checks' \in Seq(CheckName)
        /\ \A n \in DOMAIN checks' : \E k \in DOMAIN checks \ {i} :
              checks'[n] = checks[k] /\ k = IF n < i THEN n ELSE n + 1
    BY <1>1, <1>2, RemoveFacts DEF HealthTypeOK
  <2>2. ASSUME NEW m \in DOMAIN checks', NEW n \in DOMAIN checks', checks'[m] = checks'[n]
        PROVE  m = n
    <3>1. PICK j \in DOMAIN checks : checks'[m] = checks[j] /\ j = IF m < i THEN m ELSE m + 1
      BY <2>1
    <3>2. PICK k \in DOMAIN checks : checks'[n] = checks[k] /\ k = IF n < i THEN n ELSE n + 1
      BY <2>1
    <3>3. m \in Nat /\ n \in Nat /\ i \in Nat
      BY <1>2, <2>1 DEF HealthTypeOK
    <3>4. j = k
      BY <1>2, <2>2, <3>1, <3>2 DEF HealthTypeOK
    <3> QED
      BY <3>1, <3>2, <3>3, <3>4
  <2> QED
    BY <2>1, <2>2 DEF HealthTypeOK
<1>9. BusTypeOK' /\ VerifierTypeOK'
  BY <1>2 DEF Inv, TypeOK, BusTypeOK, VerifierTypeOK, verifierVars
<1> QED
  BY <1>4, <1>6, <1>7, <1>8, <1>9 DEF Inv, TypeOK

\* The result of a check is on its way when its event is.
LEMMA CheckDoneStep ==
    ASSUME Inv, NEW t \in Thread, CheckDone(t), UNCHANGED verifierVars
    PROVE  Inv'
<1> DEFINE r == Top(t)
<1>1. stack[t] # <<>> /\ r.op = "health" /\ r.inside /\ UNCHANGED <<checks, busVars>>
  BY DEF CheckDone
<1>2. r \in HealthFrame /\ HealthOK(r)
  BY <1>1, TopGood DEF Good
<1>3. PICK outcome \in CheckOutcome :
          stack' = [stack EXCEPT ![t] =
                      <<Publication(HealthRun),
                        [r EXCEPT !.inside = FALSE, !.left = Tail(r.left),
                                  !.results = Append(r.results, StatusOf(outcome)),
                                  !.raw = Append(r.raw, <<Head(r.left), outcome>>)]>>
                      \o Tail(stack[t])]
  BY DEF CheckDone
<1> DEFINE pub == Publication(HealthRun)
           q == [r EXCEPT !.inside = FALSE, !.left = Tail(r.left),
                          !.results = Append(r.results, StatusOf(outcome)),
                          !.raw = Append(r.raw, <<Head(r.left), outcome>>)]
           rest == Tail(stack[t])
<1>4. stack' = [stack EXCEPT ![t] = <<pub, q>> \o rest]
  BY <1>3
<1>5. pub \in PublishFrame /\ PubOK(pub, subs, issued)
  BY HealthAssumption, PublicationOK DEF HealthAssumption, Inv, TypeOK
<1> HIDE DEF r
<1>6. r.left # <<>>
  BY <1>1, <1>2 DEF HealthOK, r
<1>7. q \in HealthFrame /\ HealthOK(q)
  BY <1>2, <1>6, CheckedOK
<1>8. stack \in [Thread -> Seq(Frame)]
  BY DEF Inv, TypeOK
<1>9. rest \in Seq(Frame) /\ Range(rest) \subseteq Range(stack[t])
  BY <1>1, <1>8, TopFacts
<1> HIDE DEF pub, q, rest
<1>10. pub.op = "publish" /\ pub \in Frame /\ q.op = "health" /\ q \in Frame
  BY <1>5, <1>7 DEF PublishFrame, HealthFrame, Frame
<1> DEFINE two == <<pub, q>>
<1>11. two \in Seq(Frame) /\ Range(two) = {pub, q}
  <2>1. two \in Seq(Frame) /\ DOMAIN two = {1, 2} /\ two[1] = pub /\ two[2] = q
    BY <1>10
  <2> HIDE DEF two
  <2> QED
    BY <2>1 DEF Range
<1>12. stack' = [stack EXCEPT ![t] = two \o rest]
  BY <1>4
<1> HIDE DEF two
<1>13. two \o rest \in Seq(Frame) /\ Range(two \o rest) \subseteq Range(stack[t]) \cup {pub, q}
  <2>1. two \o rest \in Seq(Frame) /\ Range(two \o rest) = Range(two) \cup Range(rest)
    BY <1>9, <1>11, ConcatProperties, RangeConcatenation
  <2> QED
    BY <1>9, <1>11, <2>1
<1>14. stack' \in [Thread -> Seq(Frame)] /\ UnderWay(stack') \subseteq UnderWay(stack) \cup {pub, q}
  BY <1>8, <1>12, <1>13, OneStack
<1>15. subs' = subs /\ issued' = issued
  BY <1>1 DEF busVars
<1>16. Good(pub, subs', issued') /\ Good(q, subs', issued')
  BY <1>5, <1>7, <1>10, <1>15 DEF Good
<1>17. \A g \in UnderWay(stack') : Good(g, subs', issued')
  BY <1>14, <1>15, <1>16 DEF Inv
<1>18. BusTypeOK' /\ HealthTypeOK' /\ VerifierTypeOK'
  BY <1>1 DEF Inv, TypeOK, BusTypeOK, HealthTypeOK, VerifierTypeOK, busVars, verifierVars
<1> QED
  BY <1>14, <1>17, <1>18 DEF Inv, TypeOK

\* Every other step of the monitor.
LEMMA HealthSteps ==
    ASSUME Inv, NEW t \in Thread, UNCHANGED verifierVars,
           RunAll(t) \/ (\E name \in CheckName : RunOne(t, name)) \/ CallCheck(t) \/ EndHealth(t)
    PROVE  Inv'
<1>1. HealthTypeOK
  BY DEF Inv, TypeOK
<1>2. ASSUME NEW names \in Seq(CheckName),
             \A i, j \in DOMAIN names : names[i] = names[j] => i = j,
             Push(t, Monitoring(names)), UNCHANGED <<checks, busVars>>
      PROVE  Inv'
  <2> DEFINE r == Monitoring(names)
  <2>1. r \in HealthFrame /\ HealthOK(r)
    BY <1>2, MonitoringOK
  <2>2. Push(t, r)
    BY <1>2
  <2> HIDE DEF r
  <2>3. r.op = "health" /\ r \in Frame
    BY <2>1 DEF HealthFrame, Frame
  <2>4. Good(r, subs, issued)
    BY <2>1, <2>3 DEF Good
  <2> QED
    BY <1>2, <2>2, <2>3, <2>4, PushStep
<1>3. ASSUME RunAll(t)  PROVE Inv'
  BY <1>1, <1>2, <1>3 DEF RunAll, HealthTypeOK
<1>4. ASSUME NEW name \in CheckName, RunOne(t, name)  PROVE Inv'
  <2> DEFINE names == <<name>>
  <2>1. names \in Seq(CheckName) /\ \A i, j \in DOMAIN names : names[i] = names[j] => i = j
    OBVIOUS
  <2>2. Push(t, Monitoring(names)) /\ UNCHANGED <<checks, busVars>>
    BY <1>4 DEF RunOne
  <2> HIDE DEF names
  <2> QED
    BY <1>2, <2>1, <2>2
<1>5. ASSUME CallCheck(t)  PROVE Inv'
  <2> DEFINE r == Top(t)
             q == [r EXCEPT !.inside = TRUE]
  <2>1. /\ stack[t] # <<>> /\ r.op = "health" /\ r.left # <<>> /\ Becomes(t, q)
        /\ UNCHANGED <<checks, busVars>>
    BY <1>5 DEF CallCheck, Running
  <2>2. r \in HealthFrame /\ HealthOK(r)
    BY <2>1, TopGood DEF Good
  <2> HIDE DEF r
  <2>3. /\ q \in HealthFrame /\ q.op = "health" /\ q.left = r.left /\ q.results = r.results
        /\ q.raw = r.raw /\ q.stayed = r.stayed /\ q \in Frame
    BY <2>2 DEF HealthFrame, Frame
  <2>4. HealthOK(q)
    <3> HIDE DEF q
    <3> QED  BY <2>1, <2>2, <2>3 DEF HealthOK
  <2>5. Good(q, subs, issued)
    BY <2>3, <2>4 DEF Good
  <2> QED
    BY <2>1, <2>3, <2>5, BecomesStep
<1>6. ASSUME EndHealth(t)  PROVE Inv'
  <2>1. stack[t] # <<>> /\ Pop(t) /\ UNCHANGED <<checks, busVars>>
    BY <1>6 DEF EndHealth, Running
  <2> QED
    BY <2>1, PopStep
<1> QED
  BY <1>3, <1>4, <1>5, <1>6

------------------------------------------------------------------------------
(* The verifier                                                            *)

\* One more answer passes ...
LEMMA AllPassAppend ==
    ASSUME NEW S, NEW s \in Seq(S), NEW e \in S
    PROVE  AllPass(Append(s, e)) <=> AllPass(s) /\ e = "PASS"
<1> DEFINE l == Len(s)  t == Append(s, e)
<1>1. /\ l \in Nat /\ DOMAIN s = 1..l /\ DOMAIN t = 1..(l + 1) /\ t[l + 1] = e
      /\ \A n \in DOMAIN s : t[n] = s[n]
  BY AppendFacts
<1> HIDE DEF l, t
<1>2. DOMAIN t = DOMAIN s \cup {l + 1}
  BY <1>1
<1>3. AllPass(t) <=> AllPass(s) /\ e = "PASS"
  BY <1>1, <1>2 DEF AllPass
<1> QED
  BY <1>3 DEF t

\* ... and one more verdict does.
LEMMA PassedAppend ==
    ASSUME NEW s \in Seq(Verdict), NEW v \in Verdict
    PROVE  Passed(Append(s, v)) <=> Passed(s) /\ v.status = "PASS"
<1> DEFINE l == Len(s)  t == Append(s, v)
<1>1. /\ l \in Nat /\ DOMAIN s = 1..l /\ DOMAIN t = 1..(l + 1) /\ t[l + 1] = v
      /\ \A n \in DOMAIN s : t[n] = s[n]
  BY AppendFacts
<1> HIDE DEF l, t
<1>2. DOMAIN t = DOMAIN s \cup {l + 1}
  BY <1>1
<1>3. Passed(t) <=> Passed(s) /\ v.status = "PASS"
  BY <1>1, <1>2 DEF Passed
<1> QED
  BY <1>3 DEF t

\* An aggregate passes if there is something and all of it does.
LEMMA AggregateFacts ==
    ASSUME NEW s \in Seq(Verdicts)
    PROVE  /\ Aggregate(s) \in Verdicts
           /\ Aggregate(s) = "PASS" <=> s # <<>> /\ AllPass(s)
           /\ Aggregate(s) = "FAIL" <=> "FAIL" \in Range(s)
<1>1. s # <<>> <=> \E n \in DOMAIN s : TRUE
  BY NotEmpty
<1>2. Range(s) = {"PASS"} <=> s # <<>> /\ AllPass(s)
  BY <1>1 DEF Range, AllPass
<1>3. Range(s) = {"PASS"} => "FAIL" \notin Range(s)
  OBVIOUS
<1> QED
  BY <1>2, <1>3 DEF Aggregate, Verdicts

\* The layer that an audit is on.
LEMMA LayerFacts ==
    ASSUME NEW a \in AuditFrame, PlaceOK(a), OnLayer(a)
    PROVE  /\ a.at \in 1..Len(a.chain) /\ a.at \in DOMAIN a.chain
           /\ LayerOf(a) \in LayerType /\ LayerOf(a).rules \in Nat
<1>1. /\ a.chain \in Seq(Layer) /\ a.verdicts \in Seq(Verdict) /\ a.at \in Nat
      /\ a.at = Len(a.verdicts) + 1 /\ a.at <= Len(a.chain)
  BY DEF AuditFrame, PlaceOK, OnLayer
<1>2. a.at \in 1..Len(a.chain) /\ DOMAIN a.chain = 1..Len(a.chain)
  BY <1>1
<1>3. a.chain[a.at] \in Layer
  BY <1>1, <1>2
<1>4. LayerOf(a) \in LayerType
  BY <1>3, VerifierAssumption DEF LayerOf, VerifierAssumption
<1> QED
  BY <1>2, <1>4 DEF LayerType

\* An audit begins with nothing.
LEMMA FreshOK ==
    ASSUME NEW a \in AuditFrame, a.at = 0, a.verdicts = <<>>, a.answers = <<>>, a.raw = <<>>,
           a.inside = FALSE
    PROVE  PlaceOK(a) /\ FoundOK(a)
<1>1. ~OnLayer(a) /\ Passed(a.verdicts) /\ HaveRules(a) /\ AllPass(a.raw)
  BY DEF OnLayer, Passed, HaveRules, AllPass
<1>2. PlaceOK(a)
  <2>1. Len(a.chain) \in Nat /\ Len(a.verdicts) = 0
    BY DEF AuditFrame
  <2> QED
    BY <1>1, <2>1 DEF PlaceOK
<1>3. Range(<<>>) = {}
  BY DEF Range
<1> QED
  BY <1>1, <1>2, <1>3 DEF FoundOK

\* The chain goes on to its next layer.
LEMMA NextLayerOK ==
    ASSUME NEW a \in AuditFrame, PlaceOK(a), FoundOK(a), a.items = <<>>, a.inside = FALSE,
           Len(a.verdicts) = a.at, a.at < Len(a.chain),
           NEW q, q = [a EXCEPT !.at = a.at + 1, !.answers = <<>>]
    PROVE  q \in AuditFrame /\ PlaceOK(q) /\ FoundOK(q)
<1> DEFINE none == <<>>
<1>0. a.at + 1 \in Nat /\ none \in Seq(Verdicts) /\ Range(none) = {} /\ AllPass(none)
  BY DEF AuditFrame, Range, AllPass
<1>10. q = [a EXCEPT !.at = a.at + 1, !.answers = none] /\ none = <<>>
  OBVIOUS
<1> HIDE DEF none
<1>1. /\ q \in AuditFrame /\ q.at = a.at + 1 /\ q.answers = none /\ q.items = <<>>
      /\ q.inside = FALSE /\ q.chain = a.chain /\ q.verdicts = a.verdicts /\ q.raw = a.raw
  BY <1>0, <1>10 DEF AuditFrame
<1>2. a.at \in Nat /\ Len(a.chain) \in Nat
  BY DEF AuditFrame
<1>3. ~OnLayer(a) /\ OnLayer(q) /\ q.at \in 1..Len(a.chain)
  BY <1>1, <1>2 DEF OnLayer
<1>4. LayerOf(q).rules \in Nat
  <2>1. a.chain[q.at] \in Layer
    BY <1>3 DEF AuditFrame
  <2> QED
    BY <1>1, <2>1, VerifierAssumption DEF LayerOf, VerifierAssumption, LayerType
<1>5. PlaceOK(q)
  <2>1. Len(none) = 0
    BY <1>10
  <2> QED
    BY <1>1, <1>3, <1>4, <1>10, <2>1 DEF PlaceOK
<1>6. HaveRules(q) <=> HaveRules(a)
  BY <1>1 DEF HaveRules
<1>7. Passed(a.verdicts) <=> HaveRules(a) /\ AllPass(a.raw)
  BY <1>3 DEF FoundOK
<1>8. Passed(q.verdicts) /\ (OnLayer(q) => AllPass(q.answers)) <=> HaveRules(q) /\ AllPass(q.raw)
  BY <1>0, <1>1, <1>6, <1>7
<1>9. /\ q.verdicts # <<>> /\ HaveRules(q) => q.raw # <<>>
      /\ q.answers # <<>> => q.raw # <<>>
      /\ "FAIL" \in Range(q.answers) => "FAIL" \in Range(q.raw)
  BY <1>0, <1>1, <1>6, <1>10 DEF FoundOK
<1>11. \A n \in DOMAIN q.verdicts :
          /\ Confident(q.chain[n], q.verdicts[n])
          /\ q.verdicts[n].status = "FAIL" => "FAIL" \in Range(q.raw)
  BY <1>1 DEF FoundOK
<1>12. FoundOK(q)
  BY <1>8, <1>9, <1>11 DEF FoundOK
<1> QED
  BY <1>1, <1>5, <1>12

\* A layer gets its verdict, and what it was told is in the history.
LEMMA VerdictOK ==
    ASSUME NEW a \in AuditFrame, PlaceOK(a), FoundOK(a), OnLayer(a), a.items = <<>>,
           NEW v \in Verdict, NEW q \in AuditFrame, q.items = <<>>, q.inside = FALSE,
           q.chain = a.chain, q.at = a.at, q.answers = a.answers,
           q.verdicts = Append(a.verdicts, v),
           a.raw # <<>> => q.raw # <<>>, Range(a.raw) \subseteq Range(q.raw),
           NEW rules \in BOOLEAN,
           rules <=> (LayerOf(a).kind = "rules" => LayerOf(a).rules > 0),
           Passed(a.verdicts) /\ v.status = "PASS" <=> HaveRules(a) /\ rules /\ AllPass(q.raw),
           rules => q.raw # <<>>,
           Confident(LayerOf(a), v),
           v.status = "FAIL" => "FAIL" \in Range(q.raw)
    PROVE  PlaceOK(q) /\ FoundOK(q)
<1> DEFINE l == Len(a.verdicts)
<1>1. /\ a.verdicts \in Seq(Verdict) /\ l \in Nat /\ DOMAIN a.verdicts = 1..l
      /\ Len(q.verdicts) = l + 1 /\ DOMAIN q.verdicts = 1..(l + 1) /\ q.verdicts[l + 1] = v
      /\ \A n \in DOMAIN a.verdicts : q.verdicts[n] = a.verdicts[n]
  <2>1. a.verdicts \in Seq(Verdict)
    BY DEF AuditFrame
  <2> QED
    BY <2>1, AppendFacts
<1> HIDE DEF l
<1>2. a.at = l + 1 /\ ~OnLayer(q) /\ q.at = Len(q.verdicts)
  BY <1>1 DEF OnLayer, l
<1>3. PlaceOK(q)
  BY <1>2 DEF PlaceOK
<1>4. DOMAIN q.verdicts = DOMAIN a.verdicts \cup {l + 1}
  BY <1>1
<1>5. HaveRules(q) <=> HaveRules(a) /\ rules
  <2>1. LayerOf(a) = q.chain[l + 1]
    BY <1>2 DEF LayerOf
  <2> QED
    BY <1>4, <2>1 DEF HaveRules
<1>6. Passed(q.verdicts) <=> Passed(a.verdicts) /\ v.status = "PASS"
  BY <1>1, PassedAppend
<1>7. \A n \in DOMAIN q.verdicts :
          /\ Confident(q.chain[n], q.verdicts[n])
          /\ q.verdicts[n].status = "FAIL" => "FAIL" \in Range(q.raw)
  <2>1. \A n \in DOMAIN a.verdicts :
            /\ Confident(a.chain[n], a.verdicts[n])
            /\ a.verdicts[n].status = "FAIL" => "FAIL" \in Range(q.raw)
    BY DEF FoundOK
  <2>2. LayerOf(a) = q.chain[l + 1] /\ q.chain = a.chain
    BY <1>2 DEF LayerOf
  <2> QED
    BY <1>1, <1>4, <2>1, <2>2
<1>8. /\ a.answers # <<>> => q.raw # <<>>
      /\ "FAIL" \in Range(a.answers) => "FAIL" \in Range(q.raw)
  BY DEF FoundOK
<1>9. Passed(q.verdicts) /\ (OnLayer(q) => AllPass(q.answers)) <=> HaveRules(q) /\ AllPass(q.raw)
  BY <1>2, <1>5, <1>6
<1>10. q.verdicts # <<>> /\ HaveRules(q) => q.raw # <<>>
  BY <1>5
<1> QED
  BY <1>3, <1>7, <1>8, <1>9, <1>10 DEF FoundOK

\* A rule or a model answers.
LEMMA AnswerOK ==
    ASSUME NEW a \in AuditFrame, PlaceOK(a), FoundOK(a), a.inside = TRUE,
           NEW answer \in RuleOutcome \ {"raise"},
           NEW q, q = [a EXCEPT !.inside = FALSE, !.raw = Append(a.raw, answer),
                                !.answers = Append(a.answers, Coerced(answer))]
    PROVE  q \in AuditFrame /\ PlaceOK(q) /\ FoundOK(q)
<1> DEFINE more == Append(a.raw, answer)  told == Append(a.answers, Coerced(answer))
<1>1. a.raw \in Seq(RuleOutcome \cup Verdicts) /\ a.answers \in Seq(Verdicts)
  BY DEF AuditFrame
<1>2. /\ Coerced(answer) \in Verdicts
      /\ Coerced(answer) = "PASS" <=> answer = "PASS"
      /\ Coerced(answer) = "FAIL" <=> answer = "FAIL"
  BY DEF Coerced, Verdicts
<1>3. /\ more \in Seq(RuleOutcome \cup Verdicts) /\ more # <<>>
      /\ Range(more) = Range(a.raw) \cup {answer}
      /\ AllPass(more) <=> AllPass(a.raw) /\ answer = "PASS"
  BY <1>1, AppendFacts, AllPassAppend
<1>4. /\ told \in Seq(Verdicts) /\ Len(told) = Len(a.answers) + 1 /\ Len(a.answers) \in Nat
      /\ Range(told) = Range(a.answers) \cup {Coerced(answer)}
      /\ AllPass(told) <=> AllPass(a.answers) /\ Coerced(answer) = "PASS"
  BY <1>1, <1>2, AppendFacts, AllPassAppend
<1> HIDE DEF more, told
<1>5. q = [a EXCEPT !.inside = FALSE, !.raw = more, !.answers = told]
  BY DEF more, told
<1>6. /\ q \in AuditFrame /\ q.at = a.at /\ q.answers = told /\ q.items = a.items
      /\ q.inside = FALSE /\ q.chain = a.chain /\ q.verdicts = a.verdicts /\ q.raw = more
  BY <1>3, <1>4, <1>5 DEF AuditFrame
<1>7. /\ a.items = <<>> /\ OnLayer(a) /\ LayerOf(a).kind # "schema"
      /\ LayerOf(a).kind = "rules" => Len(a.answers) < LayerOf(a).rules
      /\ a.at <= Len(a.chain)
  BY DEF PlaceOK
<1>8. OnLayer(q) /\ LayerOf(q) = LayerOf(a) /\ LayerOf(a).rules \in Nat
  BY <1>6, <1>7, LayerFacts DEF OnLayer, LayerOf
<1>9. LayerOf(q).kind = "rules" => Len(q.answers) <= LayerOf(q).rules
  BY <1>4, <1>6, <1>7, <1>8
<1>10. PlaceOK(q)
  BY <1>6, <1>7, <1>8, <1>9 DEF PlaceOK
<1>11. HaveRules(q) <=> HaveRules(a)
  BY <1>6 DEF HaveRules
<1>12. FoundOK(q)
  BY <1>2, <1>3, <1>4, <1>6, <1>7, <1>8, <1>11 DEF FoundOK
<1> QED
  BY <1>6, <1>10, <1>12

\* A rule or a model raises, which ends its layer.
LEMMA RaiseOK ==
    ASSUME NEW a \in AuditFrame, PlaceOK(a), FoundOK(a), a.inside = TRUE, "raise" \in RuleOutcome,
           NEW q, q = [a EXCEPT !.inside = FALSE, !.raw = Append(a.raw, "raise"),
                                !.verdicts = Append(a.verdicts, Broken)]
    PROVE  q \in AuditFrame /\ PlaceOK(q) /\ FoundOK(q)
<1> DEFINE more == Append(a.raw, "raise")  all == Append(a.verdicts, Broken)
<1>1. a.raw \in Seq(RuleOutcome \cup Verdicts) /\ a.verdicts \in Seq(Verdict)
  BY DEF AuditFrame
<1>2. Broken \in Verdict /\ Broken.status = "UNCERTAIN"
  BY DEF Broken, Verdict, Verdicts, NoCost
<1>11. Confident(LayerOf(a), Broken)
  BY <1>2 DEF Confident
<1>3. /\ more \in Seq(RuleOutcome \cup Verdicts) /\ more # <<>>
      /\ Range(a.raw) \subseteq Range(more) /\ ~AllPass(more)
  BY <1>1, AppendFacts, AllPassAppend
<1>4. all \in Seq(Verdict)
  BY <1>1, <1>2
<1> HIDE DEF more
<1>5. q = [a EXCEPT !.inside = FALSE, !.raw = more, !.verdicts = all]
  BY DEF more
<1> HIDE DEF all
<1>6. /\ q \in AuditFrame /\ q.at = a.at /\ q.answers = a.answers /\ q.items = a.items
      /\ q.inside = FALSE /\ q.chain = a.chain /\ q.verdicts = all /\ q.raw = more
  BY <1>3, <1>4, <1>5 DEF AuditFrame
<1>7. a.items = <<>> /\ OnLayer(a)
  BY DEF PlaceOK
<1>8. PICK rules \in BOOLEAN :
          rules <=> (LayerOf(a).kind = "rules" => LayerOf(a).rules > 0)
  OBVIOUS
<1>9. q.verdicts = Append(a.verdicts, Broken) /\ q.items = <<>>
  BY <1>6, <1>7 DEF all
<1>10. PlaceOK(q) /\ FoundOK(q)
  BY <1>2, <1>3, <1>6, <1>7, <1>8, <1>9, <1>11, VerdictOK
<1> QED
  BY <1>6, <1>10

\* The verdict of a layer is what its answers come to.
LEMMA VerdictFacts ==
    ASSUME NEW layer \in LayerType, NEW answers \in Seq(Verdicts)
    PROVE  /\ VerdictOf(layer, answers) \in Verdict
           /\ VerdictOf(layer, answers).status = Aggregate(answers)
           /\ Confident(layer, VerdictOf(layer, answers))
<1> DEFINE status == Aggregate(answers)
           confidence == CASE layer.kind = "judge" -> IF status = "UNCERTAIN" THEN 3 ELSE 8
                           [] layer.kind = "custom" -> layer.confidence
                           [] OTHER -> IF answers = <<>> THEN 0 ELSE 10
           cost == IF layer.kind \in {"judge", "custom"} THEN layer.cost ELSE NoCost
           v == [status |-> status, confidence |-> confidence, cost |-> cost]
<1>1. status \in Verdicts /\ (status = "PASS" => answers # <<>>)
  BY AggregateFacts
<1>2. confidence \in Nat /\ (status = "PASS" /\ layer.kind # "custom" => confidence >= 8)
  <2>1. CASE layer.kind = "judge"
    BY <2>1
  <2>2. CASE layer.kind = "custom"
    <3>1. confidence = layer.confidence /\ layer.confidence \in 0..10
      BY <2>2 DEF LayerType
    <3> QED
      BY <2>2, <3>1
  <2>3. CASE layer.kind \notin {"judge", "custom"}
    BY <1>1, <2>3
  <2> QED
    BY <2>1, <2>2, <2>3
<1>3. cost \in {NoCost} \cup Nat
  BY DEF LayerType
<1>4. VerdictOf(layer, answers) = v
  BY DEF VerdictOf
<1> HIDE DEF status, confidence, cost
<1>5. v \in Verdict /\ v.status = status /\ v.confidence = confidence
  BY <1>1, <1>2, <1>3 DEF Verdict
<1> QED
  BY <1>2, <1>4, <1>5 DEF status, Confident

\* A schema or a pattern matches or does not.
LEMMA SchemaOK ==
    ASSUME NEW a \in AuditFrame, PlaceOK(a), FoundOK(a), OnLayer(a), a.items = <<>>,
           a.inside = FALSE, LayerOf(a).kind = "schema", NEW answer \in {"PASS", "FAIL"},
           NEW q, q = [a EXCEPT !.raw = Append(a.raw, answer),
                                !.verdicts = Append(a.verdicts, VerdictOf(LayerOf(a), <<answer>>))]
    PROVE  q \in AuditFrame /\ PlaceOK(q) /\ FoundOK(q)
<1> DEFINE more == Append(a.raw, answer)
           told == <<answer>>
           v == VerdictOf(LayerOf(a), told)
           all == Append(a.verdicts, v)
<1>1. a.raw \in Seq(RuleOutcome \cup Verdicts) /\ a.verdicts \in Seq(Verdict)
  BY DEF AuditFrame
<1>2. /\ told \in Seq(Verdicts) /\ told # <<>> /\ Range(told) = {answer}
      /\ AllPass(told) <=> answer = "PASS"
  BY DEF Verdicts, Range, AllPass
<1>3. /\ more \in Seq(RuleOutcome \cup Verdicts) /\ more # <<>>
      /\ Range(more) = Range(a.raw) \cup {answer}
      /\ AllPass(more) <=> AllPass(a.raw) /\ answer = "PASS"
  <2>1. answer \in RuleOutcome \cup Verdicts
    BY DEF Verdicts
  <2> QED
    BY <1>1, <2>1, AppendFacts, AllPassAppend
<1> HIDE DEF more, told
<1>4. LayerOf(a) \in LayerType
  BY LayerFacts
<1>5. /\ v \in Verdict /\ v.status = Aggregate(told)
      /\ Confident(LayerOf(a), v)
  BY <1>2, <1>4, VerdictFacts
<1>6. (v.status = "PASS" <=> answer = "PASS") /\ (v.status = "FAIL" <=> answer = "FAIL")
  BY <1>2, <1>5, AggregateFacts
<1> HIDE DEF v
<1>7. all \in Seq(Verdict)
  BY <1>1, <1>5
<1>8. q = [a EXCEPT !.raw = more, !.verdicts = all]
  BY DEF more, v, told
<1> HIDE DEF all
<1>9. /\ q \in AuditFrame /\ q.at = a.at /\ q.answers = a.answers /\ q.items = <<>>
      /\ q.inside = FALSE /\ q.chain = a.chain /\ q.verdicts = all /\ q.raw = more
  BY <1>3, <1>7, <1>8 DEF AuditFrame
<1>10. PICK rules \in BOOLEAN :
          rules <=> (LayerOf(a).kind = "rules" => LayerOf(a).rules > 0)
  OBVIOUS
<1>11. rules /\ q.verdicts = Append(a.verdicts, v)
  BY <1>9, <1>10 DEF all
<1>12. AllPass(a.answers)
  <2>1. a.answers = <<>>
    BY DEF PlaceOK
  <2> QED
    BY <2>1 DEF AllPass
<1>13. Passed(a.verdicts) <=> HaveRules(a) /\ AllPass(a.raw)
  BY <1>12 DEF FoundOK
<1>14. Passed(a.verdicts) /\ v.status = "PASS" <=> HaveRules(a) /\ rules /\ AllPass(q.raw)
  BY <1>3, <1>6, <1>9, <1>11, <1>13
<1>15. /\ Range(a.raw) \subseteq Range(q.raw) /\ q.raw # <<>>
       /\ v.status = "FAIL" => "FAIL" \in Range(q.raw)
  BY <1>3, <1>6, <1>9
<1>16. PlaceOK(q) /\ FoundOK(q)
  BY <1>5, <1>9, <1>10, <1>11, <1>14, <1>15, VerdictOK
<1> QED
  BY <1>9, <1>16

\* Rules or a model have all answered.
LEMMA AnsweredOK ==
    ASSUME NEW a \in AuditFrame, PlaceOK(a), FoundOK(a), OnLayer(a), a.items = <<>>,
           a.inside = FALSE, LayerOf(a).kind # "schema",
           LayerOf(a).kind = "rules" => ~(Len(a.answers) < LayerOf(a).rules),
           LayerOf(a).kind # "rules" => a.answers # <<>>,
           NEW q, q = [a EXCEPT !.verdicts = Append(a.verdicts, VerdictOf(LayerOf(a), a.answers))]
    PROVE  q \in AuditFrame /\ PlaceOK(q) /\ FoundOK(q)
<1> DEFINE v == VerdictOf(LayerOf(a), a.answers)
           all == Append(a.verdicts, v)
<1>1. /\ a.answers \in Seq(Verdicts) /\ a.verdicts \in Seq(Verdict) /\ Len(a.answers) \in Nat
      /\ a.answers # <<>> <=> Len(a.answers) > 0
  <2>1. a.answers \in Seq(Verdicts) /\ a.verdicts \in Seq(Verdict)
    BY DEF AuditFrame
  <2> QED
    BY <2>1
<1>2. LayerOf(a) \in LayerType /\ LayerOf(a).rules \in Nat
  BY LayerFacts
<1>3. /\ v \in Verdict /\ v.status = Aggregate(a.answers)
      /\ Confident(LayerOf(a), v)
  BY <1>1, <1>2, VerdictFacts
<1>4. /\ v.status = "PASS" <=> a.answers # <<>> /\ AllPass(a.answers)
      /\ v.status = "FAIL" <=> "FAIL" \in Range(a.answers)
  BY <1>1, <1>3, AggregateFacts
<1> HIDE DEF v
<1>5. all \in Seq(Verdict)
  BY <1>1, <1>3
<1>6. q = [a EXCEPT !.verdicts = all]
  BY DEF v
<1> HIDE DEF all
<1>7. /\ q \in AuditFrame /\ q.at = a.at /\ q.answers = a.answers /\ q.items = <<>>
      /\ q.inside = FALSE /\ q.chain = a.chain /\ q.verdicts = all /\ q.raw = a.raw
  BY <1>5, <1>6 DEF AuditFrame
<1>8. PICK rules \in BOOLEAN :
          rules <=> (LayerOf(a).kind = "rules" => LayerOf(a).rules > 0)
  OBVIOUS
<1>9. rules <=> a.answers # <<>>
  <2>1. LayerOf(a).kind = "rules" => Len(a.answers) <= LayerOf(a).rules
    BY DEF PlaceOK
  <2>2. CASE LayerOf(a).kind = "rules"
    <3>1. Len(a.answers) = LayerOf(a).rules
      BY <1>1, <1>2, <2>1, <2>2
    <3> QED
      BY <1>1, <1>8, <2>2, <3>1
  <2>3. CASE LayerOf(a).kind # "rules"
    BY <1>8, <2>3
  <2> QED
    BY <2>2, <2>3
<1>10. Passed(a.verdicts) /\ AllPass(a.answers) <=> HaveRules(a) /\ AllPass(a.raw)
  BY DEF FoundOK
<1>11. Passed(a.verdicts) /\ v.status = "PASS" <=> HaveRules(a) /\ rules /\ AllPass(q.raw)
  BY <1>4, <1>7, <1>9, <1>10
<1>12. /\ Range(a.raw) \subseteq Range(q.raw) /\ (a.raw # <<>> => q.raw # <<>>)
       /\ rules => q.raw # <<>>
       /\ v.status = "FAIL" => "FAIL" \in Range(q.raw)
  BY <1>4, <1>7, <1>9 DEF FoundOK
<1>13. q.verdicts = Append(a.verdicts, v)
  BY <1>7 DEF all
<1>14. PlaceOK(q) /\ FoundOK(q)
  BY <1>3, <1>7, <1>8, <1>11, <1>12, <1>13, VerdictOK
<1> QED
  BY <1>7, <1>14

\* register_verifier
LEMMA RegisterVerifierStep ==
    ASSUME Inv, NEW t \in Thread, NEW name \in LayerName, NEW layer \in Factories,
           RegisterVerifier(t, name, layer), UNCHANGED <<busVars, checks>>
    PROVE  Inv'
<1>1. VerifierTypeOK'
  BY DEF Inv, TypeOK, VerifierTypeOK, RegisterVerifier
<1>2. stack' = stack /\ subs' = subs /\ issued' = issued
  BY DEF RegisterVerifier, busVars
<1>3. BusTypeOK' /\ HealthTypeOK'
  BY <1>2 DEF Inv, TypeOK, BusTypeOK, HealthTypeOK
<1> QED
  BY <1>1, <1>2, <1>3 DEF Inv, TypeOK

\* An audit, or the resolution of new defaults, begins.
LEMMA AuditBegins ==
    ASSUME Inv, NEW t \in Thread, UNCHANGED <<busVars, checks>>,
           \/ \E items \in Chains : Audit(t, items) \/ SetDefaultLayers(t, items)
           \/ AuditByDefault(t)
    PROVE  Inv'
<1>1. ASSUME NEW a \in AuditFrame, a.at = 0, a.verdicts = <<>>, a.answers = <<>>, a.raw = <<>>,
             a.inside = FALSE, Push(t, a), UNCHANGED verifierVars
      PROVE  Inv'
  <2>1. PlaceOK(a) /\ FoundOK(a)
    BY <1>1, FreshOK
  <2>2. a \in Frame /\ a.op \in {"audit", "set"}
    BY DEF Frame, AuditFrame
  <2>3. Good(a, subs, issued)
    BY <2>1, <2>2 DEF Good
  <2> QED
    BY <1>1, <2>2, <2>3, PushStep
<1>3. ASSUME NEW items \in Chains, Audit(t, items)  PROVE Inv'
  <2> DEFINE a == Auditing("audit", items)
  <2>1. /\ a \in AuditFrame /\ a.at = 0 /\ a.verdicts = <<>> /\ a.answers = <<>>
        /\ a.raw = <<>> /\ a.inside = FALSE
    BY VerifierAssumption DEF Auditing, AuditFrame, VerifierAssumption
  <2>2. Push(t, a) /\ UNCHANGED verifierVars
    BY <1>3 DEF Audit
  <2> HIDE DEF a
  <2> QED
    BY <1>1, <2>1, <2>2
<1>4. ASSUME NEW items \in Chains, SetDefaultLayers(t, items)  PROVE Inv'
  <2> DEFINE a == Auditing("set", items)
  <2>1. /\ a \in AuditFrame /\ a.at = 0 /\ a.verdicts = <<>> /\ a.answers = <<>>
        /\ a.raw = <<>> /\ a.inside = FALSE
    BY VerifierAssumption DEF Auditing, AuditFrame, VerifierAssumption
  <2>2. Push(t, a) /\ UNCHANGED verifierVars
    BY <1>4 DEF SetDefaultLayers
  <2> HIDE DEF a
  <2> QED
    BY <1>1, <2>1, <2>2
<1>5. ASSUME AuditByDefault(t)  PROVE Inv'
  <2> DEFINE b == Auditing("audit", <<>>)
             a == [b EXCEPT !.chain = defaults]
  <2>1. defaults \in Seq(Layer)
    BY DEF Inv, TypeOK, VerifierTypeOK
  <2>4. /\ b \in AuditFrame /\ b.at = 0 /\ b.verdicts = <<>> /\ b.answers = <<>>
        /\ b.raw = <<>> /\ b.inside = FALSE
    BY DEF Auditing, AuditFrame
  <2> HIDE DEF b
  <2>2. /\ a \in AuditFrame /\ a.at = 0 /\ a.verdicts = <<>> /\ a.answers = <<>>
        /\ a.raw = <<>> /\ a.inside = FALSE
    BY <2>1, <2>4 DEF AuditFrame
  <2>3. Push(t, a) /\ UNCHANGED verifierVars
    BY <1>5 DEF AuditByDefault, b
  <2> HIDE DEF a
  <2> QED
    BY <1>1, <2>2, <2>3
<1> QED
  BY <1>3, <1>4, <1>5

\* A name or a layer is resolved.
LEMMA ResolveItemStep ==
    ASSUME Inv, NEW t \in Thread, ResolveItem(t), UNCHANGED <<busVars, checks>>
    PROVE  Inv'
<1> DEFINE a == Top(t)
<1>1. /\ stack[t] # <<>> /\ a.op \in {"audit", "set"} /\ ~a.inside /\ a.items # <<>>
      /\ UNCHANGED verifierVars
  BY DEF ResolveItem, Running
<1>2. a \in AuditFrame /\ PlaceOK(a) /\ Good(a, subs, issued)
  BY <1>1, TopGood DEF Good
<1>3. \/ Pop(t)
      \/ \E layer \in Layer :
            Becomes(t, [a EXCEPT !.items = Tail(a.items), !.chain = Append(a.chain, layer)])
  <2> DEFINE item == Head(a.items)
             Takes(layer) ==
               Becomes(t, [a EXCEPT !.items = Tail(a.items), !.chain = Append(a.chain, layer)])
  <2>1. item \in Layer \cup LayerName
    <3>1. a.items \in Seq(Layer \cup LayerName)
      BY <1>2 DEF AuditFrame
    <3> QED
      BY <1>1, <3>1
  <2>2. \/ item \notin LayerName /\ Takes(item)
        \/ item \in LayerName /\ factories[item] # NoFactory /\ Takes(factories[item])
        \/ Pop(t)
    BY DEF ResolveItem
  <2>3. item \in LayerName => factories[item] \in Layer \cup {NoFactory}
    BY VerifierAssumption DEF Inv, TypeOK, VerifierTypeOK, VerifierAssumption
  <2> HIDE DEF item
  <2> QED
    BY <2>1, <2>2, <2>3
<1>4. CASE Pop(t)
  BY <1>1, <1>4, PopStep
<1>5. ASSUME NEW layer \in Layer,
             Becomes(t, [a EXCEPT !.items = Tail(a.items), !.chain = Append(a.chain, layer)])
      PROVE  Inv'
  <2> DEFINE rest == Tail(a.items)  chain == Append(a.chain, layer)
             q == [a EXCEPT !.items = rest, !.chain = chain]
  <2>1. Becomes(t, q)
    BY <1>5
  <2> HIDE DEF a
  <2>2. rest \in Seq(Layer \cup LayerName) /\ chain \in Seq(Layer)
    BY <1>1, <1>2 DEF AuditFrame
  <2> HIDE DEF rest, chain
  <2>3. /\ q \in AuditFrame /\ q.at = a.at /\ q.verdicts = a.verdicts /\ q.answers = a.answers
        /\ q.raw = a.raw /\ q.inside = a.inside /\ q.op \in {"audit", "set"}
    BY <1>2, <2>2 DEF AuditFrame
  <2>4. /\ a.at = 0 /\ a.verdicts = <<>> /\ a.answers = <<>> /\ a.raw = <<>>
        /\ a.inside = FALSE
    BY <1>1, <1>2 DEF PlaceOK, AuditFrame
  <2> HIDE DEF q
  <2>5. PlaceOK(q) /\ FoundOK(q)
    BY <2>3, <2>4, FreshOK
  <2>6. q \in Frame /\ Good(q, subs, issued)
    BY <2>3, <2>5 DEF Frame, Good
  <2> QED
    BY <1>1, <2>1, <2>6, BecomesStep
<1> QED
  BY <1>3, <1>4, <1>5

\* New defaults are stored when all of them are resolved.
LEMMA StoreDefaultsStep ==
    ASSUME Inv, NEW t \in Thread, StoreDefaults(t), UNCHANGED <<busVars, checks>>
    PROVE  Inv'
<1> DEFINE a == Top(t)
<1>1. /\ stack[t] # <<>> /\ a.op = "set" /\ Pop(t) /\ defaults' = a.chain
      /\ factories' = factories
  BY DEF StoreDefaults, Running
<1>2. a \in AuditFrame
  BY <1>1, TopGood
<1>3. VerifierTypeOK'
  BY <1>1, <1>2 DEF AuditFrame, VerifierTypeOK, Inv, TypeOK
<1>4. stack \in [Thread -> Seq(Frame)] /\ subs' = subs /\ issued' = issued
  BY DEF Inv, TypeOK, busVars
<1>5. stack' \in [Thread -> Seq(Frame)] /\ UnderWay(stack') \subseteq UnderWay(stack)
  BY <1>1, <1>4, PopFacts
<1>6. \A g \in UnderWay(stack') : Good(g, subs', issued')
  BY <1>4, <1>5 DEF Inv
<1>7. BusTypeOK' /\ HealthTypeOK'
  BY <1>4 DEF Inv, TypeOK, BusTypeOK, HealthTypeOK
<1> QED
  BY <1>3, <1>5, <1>6, <1>7 DEF Inv, TypeOK

\* Every other step of an audit.
LEMMA AuditSteps ==
    ASSUME Inv, NEW t \in Thread, UNCHANGED <<busVars, checks>>,
           NextLayer(t) \/ CallRule(t) \/ RuleAnswers(t) \/ LayerDone(t) \/ EndAudit(t)
    PROVE  Inv'
<1> DEFINE a == Top(t)
<1>1. /\ stack[t] # <<>> /\ a.op = "audit" /\ UNCHANGED verifierVars
  BY DEF NextLayer, CallRule, RuleAnswers, LayerDone, EndAudit, Judging, Running
<1>2. a \in AuditFrame /\ PlaceOK(a) /\ FoundOK(a) /\ a.inside \in BOOLEAN
  <2>1. a \in AuditFrame /\ Good(a, subs, issued)
    BY <1>1, TopGood
  <2> QED
    BY <1>1, <2>1 DEF Good, AuditFrame
<1>3. ASSUME NEW q \in AuditFrame, PlaceOK(q), FoundOK(q), Becomes(t, q)
      PROVE  Inv'
  <2>1. q \in Frame /\ q.op \in {"audit", "set"}
    BY DEF Frame, AuditFrame
  <2>2. Good(q, subs, issued)
    BY <1>3, <2>1 DEF Good
  <2> QED
    BY <1>1, <1>3, <2>1, <2>2, BecomesStep
<1>4. CASE NextLayer(t)
  <2> DEFINE q == [a EXCEPT !.at = a.at + 1, !.answers = <<>>]
  <2>1. /\ Becomes(t, q) /\ ~a.inside /\ a.items = <<>>
        /\ Len(a.verdicts) = a.at /\ a.at < Len(a.chain)
    BY <1>4 DEF NextLayer, Running
  <2> HIDE DEF a
  <2>2. q \in AuditFrame /\ PlaceOK(q) /\ FoundOK(q)
    BY <1>2, <2>1, NextLayerOK
  <2> QED
    BY <1>3, <2>1, <2>2
<1>5. ASSUME Judging(t)
      PROVE  /\ a.items = <<>> /\ OnLayer(a) /\ ~a.inside /\ CurrentLayer(t) = LayerOf(a)
             /\ Pending(t) <=> IF LayerOf(a).kind = "rules" THEN Len(a.answers) < LayerOf(a).rules
                               ELSE a.answers = <<>>
  BY <1>5 DEF Judging, Running, OnLayer, CurrentLayer, LayerOf, Pending
<1>6. CASE CallRule(t)
  <2> DEFINE q == [a EXCEPT !.inside = TRUE]
  <2>1. Judging(t) /\ CurrentLayer(t).kind # "schema" /\ Pending(t) /\ Becomes(t, q)
    BY <1>6 DEF CallRule
  <2>2. /\ a.items = <<>> /\ OnLayer(a) /\ LayerOf(a).kind # "schema"
        /\ IF LayerOf(a).kind = "rules" THEN Len(a.answers) < LayerOf(a).rules
           ELSE a.answers = <<>>
    BY <1>5, <2>1
  <2> HIDE DEF a
  <2>3. /\ q \in AuditFrame /\ q.at = a.at /\ q.answers = a.answers /\ q.items = a.items
        /\ q.chain = a.chain /\ q.verdicts = a.verdicts /\ q.raw = a.raw
    BY <1>2 DEF AuditFrame
  <2> HIDE DEF q
  <2>4. /\ OnLayer(q) <=> OnLayer(a)
        /\ LayerOf(q) = LayerOf(a)
        /\ HaveRules(q) <=> HaveRules(a)
    BY <2>3 DEF OnLayer, LayerOf, HaveRules
  <2>5. PlaceOK(q)
    BY <1>2, <2>2, <2>3, <2>4 DEF PlaceOK
  <2>6. FoundOK(q)
    BY <1>2, <2>3, <2>4 DEF FoundOK
  <2> QED
    BY <1>3, <2>1, <2>3, <2>5, <2>6
<1>10. CASE Pop(t)
  BY <1>1, <1>10, PopStep
<1>7. CASE RuleAnswers(t) /\ ~Pop(t)
  <2>1. a.inside = TRUE
    BY <1>2, <1>7 DEF RuleAnswers
  <2>2. PICK answer \in RuleOutcome :
            LET frame == [a EXCEPT !.inside = FALSE, !.raw = Append(a.raw, answer)]
            IN  Becomes(t, IF answer = "raise"
                        THEN [frame EXCEPT !.verdicts = Append(frame.verdicts, Broken)]
                        ELSE [frame EXCEPT !.answers = Append(frame.answers, Coerced(answer))])
    BY <1>7 DEF RuleAnswers
  <2> DEFINE f == [a EXCEPT !.inside = FALSE, !.raw = Append(a.raw, answer)]
             raised == [a EXCEPT !.inside = FALSE, !.raw = Append(a.raw, "raise"),
                                 !.verdicts = Append(a.verdicts, Broken)]
             told == [a EXCEPT !.inside = FALSE, !.raw = Append(a.raw, answer),
                               !.answers = Append(a.answers, Coerced(answer))]
  <2>3. Becomes(t, IF answer = "raise"
                   THEN [f EXCEPT !.verdicts = Append(f.verdicts, Broken)]
                   ELSE [f EXCEPT !.answers = Append(f.answers, Coerced(answer))])
    BY <2>2
  <2> HIDE DEF a
  <2>4. f \in AuditFrame /\ f.verdicts = a.verdicts /\ f.answers = a.answers
    <3> DEFINE more == Append(a.raw, answer)
    <3>1. more \in Seq(RuleOutcome \cup Verdicts)
      BY <1>2 DEF AuditFrame
    <3> HIDE DEF more
    <3>2. LET g == [a EXCEPT !.inside = FALSE, !.raw = more]
          IN  g \in AuditFrame /\ g.verdicts = a.verdicts /\ g.answers = a.answers
      BY <1>2, <3>1 DEF AuditFrame
    <3> QED
      BY <3>2 DEF more
  <2>5. CASE answer = "raise"
    <3>1. Becomes(t, [f EXCEPT !.verdicts = Append(a.verdicts, Broken)])
      <4> HIDE DEF f
      <4> QED
        BY <2>3, <2>4, <2>5
    <3>2. [f EXCEPT !.verdicts = Append(a.verdicts, Broken)] = raised
      BY <1>2, <2>5 DEF AuditFrame
    <3>3. raised \in AuditFrame /\ PlaceOK(raised) /\ FoundOK(raised)
      BY <1>2, <2>1, <2>5, RaiseOK
    <3> HIDE DEF raised
    <3> QED
      BY <1>3, <3>1, <3>2, <3>3
  <2>6. CASE answer # "raise"
    <3>1. Becomes(t, [f EXCEPT !.answers = Append(a.answers, Coerced(answer))])
      <4> HIDE DEF f
      <4> QED
        BY <2>3, <2>4, <2>6
    <3>2. [f EXCEPT !.answers = Append(a.answers, Coerced(answer))] = told
      BY <1>2 DEF AuditFrame
    <3>3. told \in AuditFrame /\ PlaceOK(told) /\ FoundOK(told)
      BY <1>2, <2>1, <2>6, AnswerOK
    <3> HIDE DEF told
    <3> QED
      BY <1>3, <3>1, <3>2, <3>3
  <2> QED
    BY <2>5, <2>6
<1>8. CASE LayerDone(t)
  <2>1. Judging(t)
    BY <1>8 DEF LayerDone
  <2>2. /\ a.items = <<>> /\ OnLayer(a) /\ a.inside = FALSE /\ CurrentLayer(t) = LayerOf(a)
        /\ Pending(t) <=> IF LayerOf(a).kind = "rules" THEN Len(a.answers) < LayerOf(a).rules
                          ELSE a.answers = <<>>
    BY <1>2, <1>5, <2>1
  <2>3. CASE CurrentLayer(t).kind = "schema"
    <3>1. PICK answer \in {"PASS", "FAIL"} :
              Becomes(t, [a EXCEPT
                  !.raw = Append(a.raw, answer),
                  !.verdicts = Append(a.verdicts, VerdictOf(CurrentLayer(t), <<answer>>))])
      BY <1>8, <2>3 DEF LayerDone
    <3> DEFINE q == [a EXCEPT
                  !.raw = Append(a.raw, answer),
                  !.verdicts = Append(a.verdicts, VerdictOf(LayerOf(a), <<answer>>))]
    <3>2. Becomes(t, q)
      BY <2>2, <3>1
    <3> HIDE DEF a
    <3>3. q \in AuditFrame /\ PlaceOK(q) /\ FoundOK(q)
      BY <1>2, <2>2, <2>3, SchemaOK
    <3> HIDE DEF q
    <3> QED
      BY <1>3, <3>2, <3>3
  <2>4. CASE CurrentLayer(t).kind # "schema"
    <3> DEFINE q == [a EXCEPT
                  !.verdicts = Append(a.verdicts, VerdictOf(LayerOf(a), a.answers))]
    <3>1. ~Pending(t) /\ Becomes(t, q)
      BY <1>8, <2>2, <2>4 DEF LayerDone
    <3> HIDE DEF a
    <3>2. /\ LayerOf(a).kind = "rules" => ~(Len(a.answers) < LayerOf(a).rules)
          /\ LayerOf(a).kind # "rules" => a.answers # <<>>
      BY <2>2, <3>1
    <3>3. q \in AuditFrame /\ PlaceOK(q) /\ FoundOK(q)
      BY <1>2, <2>2, <2>4, <3>2, AnsweredOK
    <3> HIDE DEF q
    <3> QED
      BY <1>3, <3>1, <3>3
  <2> QED
    BY <2>3, <2>4
<1>9. CASE EndAudit(t)
  BY <1>1, <1>9, PopStep DEF EndAudit
<1> QED
  BY <1>4, <1>6, <1>7, <1>8, <1>9, <1>10

------------------------------------------------------------------------------
(* The theorems                                                            *)

\* The invariant holds at the start ...
LEMMA InitInv == Init => Inv
<1> SUFFICES ASSUME Init  PROVE Inv
  OBVIOUS
<1>1. \A t \in Thread : stack[t] = <<>>
  BY DEF Init
<1>2. UnderWay(stack) = {}
  BY <1>1 DEF UnderWay, Range
<1>3. stack \in [Thread -> Seq(Frame)]
  BY DEF Init
<1>4. BusTypeOK
  <2> DEFINE list == Start.subs
  <2>1. /\ list \in Seq(Sub) /\ Len(list) \in Nat /\ DOMAIN list = 1..Len(list)
        /\ \A i \in DOMAIN list : list[i].id = i /\ list[i] \in Sub
        /\ MaxSubs \in Nat /\ Len(list) <= MaxSubs
    BY ChecksAssumption DEF ChecksAssumption
  <2>2. subs = list /\ issued = Len(list)
    BY DEF Init
  <2> HIDE DEF list
  <2> QED
    BY <2>1, <2>2 DEF BusTypeOK
<1>5. HealthTypeOK /\ VerifierTypeOK
  BY ChecksAssumption DEF ChecksAssumption, Init, HealthTypeOK, VerifierTypeOK
<1> QED
  BY <1>2, <1>3, <1>4, <1>5 DEF Inv, TypeOK

\* ... and after every step.
LEMMA NextInv == Inv /\ [Next]_vars => Inv'
<1> SUFFICES ASSUME Inv, [Next]_vars  PROVE Inv'
  OBVIOUS
<1>1. CASE UNCHANGED vars
  <2>1. UNCHANGED <<stack, subs, issued, checks, factories, defaults>>
    BY <1>1 DEF vars, busVars, verifierVars
  <2> QED
    BY <2>1 DEF Inv, TypeOK, BusTypeOK, HealthTypeOK, VerifierTypeOK
<1>2. CASE Rest
  <2>1. UNCHANGED <<stack, subs, issued, checks, factories, defaults>>
    BY <1>2 DEF Rest, vars, busVars, verifierVars
  <2> QED
    BY <2>1 DEF Inv, TypeOK, BusTypeOK, HealthTypeOK, VerifierTypeOK
<1>3. ASSUME NEW t \in Thread, CallBus(t)  PROVE Inv'
  <2>1. UNCHANGED <<checks, verifierVars>>
    BY <1>3 DEF CallBus
  <2>2. ASSUME NEW kind \in EventKind \cup {Wildcard}, Subscribe(t, kind)  PROVE Inv'
    BY <2>1, <2>2, SubscribeStep
  <2>3. ASSUME NEW id \in 1..issued, Unsubscribe(t, id)  PROVE Inv'
    BY <2>1, <2>3, UnsubscribeStep
  <2>4. ASSUME NEW kind \in EventKind, Publish(t, kind)  PROVE Inv'
    BY <2>1, <2>4, BusSteps
  <2> QED
    BY <1>3, <2>2, <2>3, <2>4 DEF CallBus
<1>4. ASSUME NEW t \in Thread, CallMonitor(t)  PROVE Inv'
  <2>1. UNCHANGED verifierVars
    BY <1>4 DEF CallMonitor
  <2>2. ASSUME NEW name \in CheckName, RegisterCheck(t, name)  PROVE Inv'
    BY <2>1, <2>2, RegisterCheckStep
  <2>3. ASSUME NEW name \in CheckName, UnregisterCheck(t, name)  PROVE Inv'
    BY <2>1, <2>3, UnregisterCheckStep
  <2>4. ASSUME NEW name \in CheckName, RunOne(t, name)  PROVE Inv'
    BY <2>1, <2>4, HealthSteps
  <2>5. ASSUME RunAll(t)  PROVE Inv'
    BY <2>1, <2>5, HealthSteps
  <2> QED
    BY <1>4, <2>2, <2>3, <2>4, <2>5 DEF CallMonitor
<1>5. ASSUME NEW t \in Thread, CallVerifier(t)  PROVE Inv'
  <2>1. UNCHANGED <<busVars, checks>>
    BY <1>5 DEF CallVerifier
  <2>2. ASSUME NEW name \in LayerName, NEW layer \in Factories, RegisterVerifier(t, name, layer)
        PROVE  Inv'
    BY <2>1, <2>2, RegisterVerifierStep
  <2>3. ASSUME \/ \E items \in Chains : Audit(t, items) \/ SetDefaultLayers(t, items)
               \/ AuditByDefault(t)
        PROVE  Inv'
    BY <2>1, <2>3, AuditBegins
  <2> QED
    BY <1>5, <2>2, <2>3 DEF CallVerifier
<1>6. ASSUME NEW t \in Thread, Step(t)  PROVE Inv'
  <2>1. CASE BusStep(t) /\ UNCHANGED <<checks, verifierVars>>
    BY <2>1, BusSteps
  <2>2. CASE HealthStep(t) /\ UNCHANGED verifierVars
    BY <2>2, HealthSteps, CheckDoneStep DEF HealthStep
  <2>3. CASE AuditStep(t) /\ UNCHANGED <<busVars, checks>>
    BY <2>3, ResolveItemStep, StoreDefaultsStep, AuditSteps DEF AuditStep
  <2> QED
    BY <1>6, <2>1, <2>2, <2>3 DEF Step
<1> QED
  BY <1>1, <1>2, <1>3, <1>4, <1>5, <1>6 DEF Next, UserCode

\* All variables have their types: an id is in the list once and in its order, a
\* name is in the dict once, and every call under way is one that the code makes.
THEOREM TypeCorrect == Spec => []TypeOK
<1>1. Inv => TypeOK
  BY DEF Inv
<1> QED
  BY InitInv, NextInv, <1>1, PTL DEF Spec

\* However handlers subscribe and unsubscribe, themselves and others, while
\* publications are under way: each calls its handlers in their order, at most once,
\* and none is skipped that stayed.
THEOREM HandlersCorrect == Spec => []EachHandlerOnce
<1>1. Inv => EachHandlerOnce
  <2> SUFFICES ASSUME Inv, NEW t \in Thread, NEW i \in DOMAIN stack[t], stack[t][i].op = "publish"
               PROVE  LET pub == stack[t][i] IN
                      /\ \A m, n \in DOMAIN pub.called : m < n => pub.called[m] < pub.called[n]
                      /\ pub.left = <<>> =>
                           \A j \in DOMAIN subs :
                              subs[j].id \in pub.stayed /\ Matches(subs[j], pub.kind) =>
                                  subs[j].id \in Range(pub.called)
    BY DEF EachHandlerOnce
  <2>1. PICK pub : pub = stack[t][i]
    OBVIOUS
  <2>2. PubOK(pub, subs, issued)
    BY <2>1, InStack DEF Inv, Good
  <2>3. ASSUME pub.left = <<>>, NEW j \in DOMAIN subs, subs[j].id \in pub.stayed,
               Matches(subs[j], pub.kind)
        PROVE  subs[j].id \in Range(pub.called)
    <3>1. subs[j] \in Range(subs)
      BY DEF Range
    <3>2. Range(pub.left) = {}
      BY <2>3 DEF Range
    <3> QED
      BY <2>2, <2>3, <3>1, <3>2 DEF PubOK
  <2>4. \A m, n \in DOMAIN pub.called : m < n => pub.called[m] < pub.called[n]
    BY <2>2 DEF PubOK
  <2> QED
    BY <2>1, <2>3, <2>4
<1> QED
  BY InitInv, NextInv, <1>1, PTL DEF Spec

\* Some status is the worst.
LEMMA WorstExists ==
    ASSUME NEW R, R \subseteq DOMAIN Severity, R # {}
    PROVE  \E w \in R : \A r \in R : Severity[w] >= Severity[r]
<1>1. DOMAIN Severity = {"HEALTHY", "UNKNOWN", "DEGRADED", "UNHEALTHY"}
  BY DEF Severity
<1>2. /\ Severity["HEALTHY"] = 0 /\ Severity["UNKNOWN"] = 1
      /\ Severity["DEGRADED"] = 2 /\ Severity["UNHEALTHY"] = 3
  BY DEF Severity
<1>3. CASE "UNHEALTHY" \in R
  BY <1>1, <1>2, <1>3
<1>4. CASE "UNHEALTHY" \notin R /\ "DEGRADED" \in R
  BY <1>1, <1>2, <1>4
<1>5. CASE "UNHEALTHY" \notin R /\ "DEGRADED" \notin R /\ "UNKNOWN" \in R
  BY <1>1, <1>2, <1>5
<1>6. CASE R = {"HEALTHY"}
  BY <1>2, <1>6
<1> QED
  BY <1>1, <1>3, <1>4, <1>5, <1>6

\* Whatever the checks and the handlers of their events register and unregister
\* while a run is under way: it runs each check that stayed once, and its overall
\* status is no better than what any of them said.
THEOREM StatusCorrect == Spec => []OverallIsHonest
<1>1. Inv => OverallIsHonest
  <2> SUFFICES ASSUME Inv, NEW t \in Thread, NEW i \in DOMAIN stack[t],
                      stack[t][i].op = "health", stack[t][i].left = <<>>
               PROVE  LET run == stack[t][i]
                          overall == Severity[Overall(run.results)]
                          Ran(name) == {j \in DOMAIN run.raw : run.raw[j][1] = name}
                      IN /\ \A name \in run.stayed : Cardinality(Ran(name)) = 1
                         /\ \A j \in DOMAIN run.raw :
                               IF run.raw[j][2] = "raise" THEN overall = Severity["UNHEALTHY"]
                               ELSE overall >= Severity[run.raw[j][2]]
    BY DEF OverallIsHonest
  <2>1. PICK run : run = stack[t][i]
    OBVIOUS
  <2>2. run \in HealthFrame /\ HealthOK(run) /\ run.left = <<>>
    <3>1. run \in Frame
      BY <2>1 DEF Inv, TypeOK
    <3>2. run.op = "health" /\ Good(run, subs, issued)
      BY <2>1, InStack DEF Inv
    <3> QED
      BY <2>1, <3>1, <3>2, FrameKinds DEF Good
  <2>3. ASSUME NEW name \in run.stayed
        PROVE  Cardinality({j \in DOMAIN run.raw : run.raw[j][1] = name}) = 1
    <3>1. Range(run.left) = {}
      BY <2>2 DEF Range
    <3>2. PICK n \in DOMAIN run.raw : run.raw[n][1] = name
      BY <2>2, <3>1 DEF HealthOK
    <3>3. \A j \in DOMAIN run.raw : run.raw[j][1] = name => j = n
      BY <2>2, <3>2 DEF HealthOK
    <3>4. {j \in DOMAIN run.raw : run.raw[j][1] = name} = {n}
      BY <3>2, <3>3
    <3> QED
      BY <3>4, FS_Singleton
  <2>4. ASSUME NEW j \in DOMAIN run.raw
        PROVE  IF run.raw[j][2] = "raise"
               THEN Severity[Overall(run.results)] = Severity["UNHEALTHY"]
               ELSE Severity[Overall(run.results)] >= Severity[run.raw[j][2]]
    <3> DEFINE R == Range(run.results)  o == Overall(run.results)  status == StatusOf(run.raw[j][2])
    <3>1. run.results \in Seq(DOMAIN Severity) /\ j \in DOMAIN run.results /\ run.results[j] = status
      <4>1. run.results \in Seq(DOMAIN Severity) /\ run.raw \in Seq(CheckName \X CheckOutcome)
        BY <2>2 DEF HealthFrame
      <4>2. DOMAIN run.results = DOMAIN run.raw
        BY <2>2, <4>1 DEF HealthOK
      <4> QED
        BY <2>2, <4>1, <4>2 DEF HealthOK
    <3>2. status \in R /\ R \subseteq DOMAIN Severity /\ run.results # <<>>
      BY <3>1 DEF Range
    <3>3. \E w \in R : \A r \in R : Severity[w] >= Severity[r]
      BY <3>2, WorstExists
    <3>4. o = CHOOSE w \in R : \A r \in R : Severity[w] >= Severity[r]
      BY <3>2 DEF Overall
    <3> HIDE DEF R, o, status
    <3>5. o \in DOMAIN Severity /\ Severity[o] >= Severity[status]
      BY <3>2, <3>3, <3>4
    <3>6. \A w \in DOMAIN Severity : Severity[w] \in 0..3
      BY DEF Severity
    <3>7. Severity["UNHEALTHY"] = 3
      BY DEF Severity
    <3>8. CASE run.raw[j][2] = "raise"
      <4>1. status = "UNHEALTHY"
        BY <3>8 DEF status, StatusOf
      <4> QED
        BY <3>5, <3>6, <3>7, <3>8, <4>1 DEF o
    <3>9. CASE run.raw[j][2] # "raise"
      <4>1. status = run.raw[j][2]
        BY <3>9 DEF status, StatusOf
      <4> QED
        BY <3>5, <3>9, <4>1 DEF o
    <3> QED
      BY <3>8, <3>9
  <2> QED
    BY <2>1, <2>3, <2>4
<1> QED
  BY InitInv, NextInv, <1>1, PTL DEF Spec

\* Induction over the natural numbers, for a set.
LEMMA Induction ==
    ASSUME NEW S, 0 \in S, \A n \in Nat : n \in S => n + 1 \in S
    PROVE  \A n \in Nat : n \in S
<1> DEFINE T == {n \in Nat : n \notin S}
           R == {ss \in Nat \X Nat : ss[1] < ss[2]}
<1> SUFFICES ASSUME T # {}  PROVE FALSE
  OBVIOUS
<1>1. T \subseteq Nat
  OBVIOUS
<1>2. IsWellFoundedOn(R, Nat)
  BY NatLessThanWellFounded DEF OpToRel
<1>3. PICK x \in T : \A y \in T : ~(<<y, x>> \in R)
  <2> HIDE DEF T, R
  <2> QED
    BY <1>1, <1>2, IsWellFoundedOnSubset, WFMin
<1>4. x \in Nat /\ x # 0 /\ x \notin S
  OBVIOUS
<1>6. \A y \in T : ~(y < x)
  BY <1>3
<1>7. x - 1 \in Nat /\ x - 1 < x
  BY <1>4
<1>5. x - 1 \in Nat /\ x - 1 \notin T
  BY <1>6, <1>7
<1> QED
  BY <1>4, <1>5

\* The running sums of numbers.
Adds(f, m, numbers) ==
    /\ f \in [0..m -> Nat] /\ f[0] = 0
    /\ \A n \in 1..m : f[n] = f[n - 1] + numbers[n]

\* There are such sums ...
LEMMA SumsExist ==
    ASSUME NEW numbers \in Seq(Nat)
    PROVE  \E f : Adds(f, Len(numbers), numbers)
<1> DEFINE S == {m \in Nat : m <= Len(numbers) => \E f : Adds(f, m, numbers)}
<1>1. 0 \in S
  <2>1. Adds([n \in 0..0 |-> 0], 0, numbers)
    BY DEF Adds
  <2> QED
    BY <2>1
<1>2. ASSUME NEW m \in Nat, m \in S  PROVE m + 1 \in S
  <2> SUFFICES ASSUME m + 1 <= Len(numbers)  PROVE \E f : Adds(f, m + 1, numbers)
    OBVIOUS
  <2>1. PICK f : Adds(f, m, numbers)
    BY <1>2
  <2> DEFINE a == numbers[m + 1]
             g == [n \in 0..(m + 1) |-> IF n = m + 1 THEN f[m] + a ELSE f[n]]
  <2>2. a \in Nat /\ f[m] \in Nat /\ \A n \in 0..m : f[n] \in Nat
    BY <2>1 DEF Adds
  <2> HIDE DEF a
  <2>3. g \in [0..(m + 1) -> Nat] /\ g[0] = 0 /\ g[m + 1] = g[m] + a
    BY <2>1, <2>2 DEF Adds
  <2>4. \A n \in 1..m : g[n] = f[n] /\ g[n - 1] = f[n - 1]
    OBVIOUS
  <2> HIDE DEF g
  <2>5. ASSUME NEW n \in 1..(m + 1)  PROVE g[n] = g[n - 1] + numbers[n]
    <3>1. CASE n = m + 1
      BY <2>3, <3>1 DEF a
    <3>2. CASE n # m + 1
      <4>1. n \in 1..m
        BY <3>2
      <4> QED
        BY <2>1, <2>4, <4>1 DEF Adds
    <3> QED
      BY <3>1, <3>2
  <2>6. Adds(g, m + 1, numbers)
    BY <2>3, <2>5 DEF Adds
  <2> QED
    BY <2>6
<1> HIDE DEF S
<1>3. Len(numbers) \in S
  BY <1>1, <1>2, Induction
<1> QED
  BY <1>3 DEF S

\* ... and Sum is the last of them.
LEMMA SumIs ==
    ASSUME NEW numbers \in Seq(Nat)
    PROVE  \E f : Adds(f, Len(numbers), numbers) /\ Sum(numbers) = f[Len(numbers)]
<1> DEFINE Unfold(g) == [n \in 0..Len(numbers) |-> IF n = 0 THEN 0 ELSE g[n - 1] + numbers[n]]
           sum == CHOOSE g : g = Unfold(g)
<1>1. PICK f : Adds(f, Len(numbers), numbers)
  BY SumsExist
<1>2. f = Unfold(f)
  BY <1>1 DEF Adds
<1>3. sum = Unfold(sum)
  BY <1>2
<1>4. Sum(numbers) = sum[Len(numbers)]
  BY DEF Sum
<1> HIDE DEF sum
<1> DEFINE S == {m \in Nat : m <= Len(numbers) => sum[m] = f[m]}
<1>5. 0 \in S
  BY <1>1, <1>3 DEF Adds
<1>6. ASSUME NEW m \in Nat, m \in S  PROVE m + 1 \in S
  <2> SUFFICES ASSUME m + 1 <= Len(numbers)  PROVE sum[m + 1] = f[m + 1]
    OBVIOUS
  <2>1. sum[m] = f[m]
    BY <1>6
  <2>2. sum[m + 1] = sum[m] + numbers[m + 1]
    BY <1>3
  <2>3. f[m + 1] = f[m] + numbers[m + 1]
    BY <1>1 DEF Adds
  <2> QED
    BY <2>1, <2>2, <2>3
<1> HIDE DEF S
<1>7. Len(numbers) \in S
  BY <1>5, <1>6, Induction
<1>8. sum[Len(numbers)] = f[Len(numbers)]
  BY <1>7 DEF S
<1> QED
  BY <1>1, <1>4, <1>8

\* Numbers that are all 8 or more add up to at least 8 times their count.
LEMMA SumAtLeast ==
    ASSUME NEW numbers \in Seq(Nat), \A n \in DOMAIN numbers : numbers[n] >= 8
    PROVE  Sum(numbers) >= 8 * Len(numbers)
<1> DEFINE l == Len(numbers)
<1>1. PICK f : Adds(f, l, numbers) /\ Sum(numbers) = f[l]
  BY SumIs
<1>2. l \in Nat /\ \A n \in 1..l : numbers[n] \in Nat /\ numbers[n] >= 8
  OBVIOUS
<1> HIDE DEF l
<1> DEFINE S == {m \in Nat : m <= l => f[m] >= 8 * m}
<1>3. 0 \in S
  BY <1>1 DEF Adds
<1>4. ASSUME NEW m \in Nat, m \in S  PROVE m + 1 \in S
  <2> SUFFICES ASSUME m + 1 <= l  PROVE f[m + 1] >= 8 * (m + 1)
    OBVIOUS
  <2> DEFINE x == numbers[m + 1]  y == f[m]  z == f[m + 1]
  <2>1. m + 1 \in 1..l /\ (m + 1) - 1 = m /\ m \in 0..l /\ m + 1 \in 0..l
    BY <1>2
  <2>2. x \in Nat /\ x >= 8 /\ y \in Nat /\ z \in Nat /\ y >= 8 * m
    BY <1>1, <1>2, <1>4, <2>1 DEF Adds
  <2>3. z = y + x
    BY <1>1, <2>1 DEF Adds
  <2> HIDE DEF x, y, z
  <2>4. z >= 8 * (m + 1)
    BY <2>2, <2>3
  <2> QED
    BY <2>4 DEF z
<1> HIDE DEF S
<1>5. l \in S
  BY <1>2, <1>3, <1>4, Induction
<1>6. f[l] >= 8 * l
  BY <1>2, <1>5 DEF S
<1> QED
  BY <1>1, <1>6 DEF l

\* The result of an audit: what its verdicts come to.
LEMMA ResultFacts ==
    ASSUME NEW verdicts \in Seq(Verdict)
    PROVE  /\ AuditResult(verdicts).status = "PASS" <=> verdicts # <<>> /\ Passed(verdicts)
           /\ AuditResult(verdicts).status = "FAIL" =>
                 \E n \in DOMAIN verdicts : verdicts[n].status = "FAIL"
           /\ (\A n \in DOMAIN verdicts : verdicts[n].confidence >= 8) =>
                 AuditResult(verdicts).confidence >= 8 * Len(verdicts)
<1> DEFINE statuses == [i \in DOMAIN verdicts |-> verdicts[i].status]
           confidences == [i \in DOMAIN verdicts |-> verdicts[i].confidence]
           l == Len(verdicts)
<1>1. /\ l \in Nat /\ DOMAIN verdicts = 1..l
      /\ \A n \in 1..l : verdicts[n].status \in Verdicts /\ verdicts[n].confidence \in Nat
  <2>1. l \in Nat /\ DOMAIN verdicts = 1..l /\ \A n \in 1..l : verdicts[n] \in Verdict
    OBVIOUS
  <2> QED
    BY <2>1 DEF Verdict
<1>2. AuditResult(verdicts).status = Aggregate(statuses)
  BY DEF AuditResult
<1>3. AuditResult(verdicts).confidence = Sum(confidences)
  BY DEF AuditResult
<1>4. verdicts # <<>> <=> l # 0
  OBVIOUS
<1> HIDE DEF l
<1>5. statuses \in [1..l -> Verdicts] /\ confidences \in [1..l -> Nat]
  BY <1>1
<1>6. \A n \in 1..l : statuses[n] = verdicts[n].status /\ confidences[n] = verdicts[n].confidence
  BY <1>1
<1> HIDE DEF statuses, confidences
<1>7. statuses \in Seq(Verdicts) /\ confidences \in Seq(Nat)
  <2>1. /\ statuses \in UNION {[1..n -> Verdicts] : n \in Nat}
        /\ confidences \in UNION {[1..n -> Nat] : n \in Nat}
    BY <1>1, <1>5
  <2> QED
    BY <2>1, SeqDef
<1>8. /\ DOMAIN statuses = 1..l /\ Len(confidences) = l /\ DOMAIN confidences = 1..l
      /\ statuses # <<>> <=> l # 0
  BY <1>1, <1>5, <1>7
<1>9. AllPass(statuses) <=> Passed(verdicts)
  BY <1>1, <1>6, <1>8 DEF AllPass, Passed
<1>10. AuditResult(verdicts).status = "PASS" <=> verdicts # <<>> /\ Passed(verdicts)
  BY <1>2, <1>4, <1>7, <1>8, <1>9, AggregateFacts
<1>11. ASSUME AuditResult(verdicts).status = "FAIL"
       PROVE  \E n \in DOMAIN verdicts : verdicts[n].status = "FAIL"
  <2>1. "FAIL" \in Range(statuses)
    BY <1>2, <1>7, <1>11, AggregateFacts
  <2> QED
    BY <1>1, <1>6, <1>8, <2>1 DEF Range
<1>12. ASSUME \A n \in DOMAIN verdicts : verdicts[n].confidence >= 8
       PROVE  AuditResult(verdicts).confidence >= 8 * l
  <2>1. \A n \in DOMAIN confidences : confidences[n] >= 8
    BY <1>1, <1>6, <1>8, <1>12
  <2> QED
    BY <1>3, <1>7, <1>8, <2>1, SumAtLeast
<1> QED
  BY <1>10, <1>11, <1>12 DEF l

\* Whatever layers and rules answer or raise: an audit passes exactly if there were
\* layers, each of them asked something, and all that was asked said PASS; one that
\* passes without custom layers is confident; and one that fails was told so.
THEOREM VerdictsCorrect == Spec => []PassMeansAllPassed
<1>1. Inv => PassMeansAllPassed
  <2> SUFFICES ASSUME Inv, NEW t \in Thread, NEW i \in DOMAIN stack[t],
                      stack[t][i].op = "audit", Finished(stack[t][i])
               PROVE  LET audit == stack[t][i]
                          result == AuditResult(audit.verdicts)
                          ours == \A j \in DOMAIN audit.chain : audit.chain[j].kind # "custom"
                      IN /\ result.status = "PASS" <=>
                              /\ audit.chain # <<>>
                              /\ \A j \in DOMAIN audit.chain :
                                    audit.chain[j].kind = "rules" => audit.chain[j].rules > 0
                              /\ Range(audit.raw) = {"PASS"}
                         /\ result.status = "PASS" /\ ours =>
                               result.confidence >= 8 * Len(audit.chain)
                         /\ result.status = "FAIL" => "FAIL" \in Range(audit.raw)
    BY DEF PassMeansAllPassed
  <2>1. PICK a : a = stack[t][i]
    OBVIOUS
  <2>2. a \in AuditFrame /\ PlaceOK(a) /\ FoundOK(a) /\ Len(a.verdicts) = Len(a.chain)
    <3>1. a \in Frame
      BY <2>1 DEF Inv, TypeOK
    <3>2. a.op = "audit" /\ Good(a, subs, issued)
      BY <2>1, InStack DEF Inv
    <3> QED
      BY <2>1, <3>1, <3>2, FrameKinds DEF Good, Finished
  <2> DEFINE result == AuditResult(a.verdicts)
             n == Len(a.chain)
  <2>3. /\ a.verdicts \in Seq(Verdict) /\ a.chain \in Seq(Layer) /\ a.raw \in Seq(RuleOutcome \cup Verdicts)
        /\ n \in Nat /\ DOMAIN a.chain = 1..n /\ DOMAIN a.verdicts = 1..n
        /\ a.chain # <<>> <=> n # 0
        /\ a.verdicts # <<>> <=> n # 0
    <3>1. a.verdicts \in Seq(Verdict) /\ a.chain \in Seq(Layer) /\ a.raw \in Seq(RuleOutcome \cup Verdicts)
      BY <2>2 DEF AuditFrame
    <3> QED
      BY <2>2, <3>1
  <2> HIDE DEF n
  <2>4. ~OnLayer(a)
    <3>1. a.at <= n /\ Len(a.verdicts) = n /\ a.at \in Nat
      BY <2>2 DEF PlaceOK, AuditFrame, n
    <3> QED
      BY <2>3, <3>1 DEF OnLayer
  <2>5. Passed(a.verdicts) <=> HaveRules(a) /\ AllPass(a.raw)
    BY <2>2, <2>4 DEF FoundOK
  <2>6. HaveRules(a) <=> \A j \in DOMAIN a.chain : a.chain[j].kind = "rules" => a.chain[j].rules > 0
    BY <2>3 DEF HaveRules
  <2>7. Range(a.raw) = {"PASS"} <=> a.raw # <<>> /\ AllPass(a.raw)
    <3>1. a.raw # <<>> <=> \E j \in DOMAIN a.raw : TRUE
      BY <2>3, NotEmpty
    <3> QED
      BY <3>1 DEF Range, AllPass
  <2>8. a.verdicts # <<>> /\ HaveRules(a) => a.raw # <<>>
    BY <2>2 DEF FoundOK
  <2>9. /\ result.status = "PASS" <=> a.verdicts # <<>> /\ Passed(a.verdicts)
        /\ result.status = "FAIL" => \E m \in DOMAIN a.verdicts : a.verdicts[m].status = "FAIL"
        /\ (\A m \in DOMAIN a.verdicts : a.verdicts[m].confidence >= 8) =>
              result.confidence >= 8 * Len(a.verdicts)
    BY <2>3, ResultFacts
  <2> HIDE DEF result
  <2>10. result.status = "PASS" <=>
            /\ a.chain # <<>>
            /\ \A j \in DOMAIN a.chain : a.chain[j].kind = "rules" => a.chain[j].rules > 0
            /\ Range(a.raw) = {"PASS"}
    BY <2>3, <2>5, <2>6, <2>7, <2>8, <2>9
  <2>11. result.status = "PASS" /\ (\A j \in DOMAIN a.chain : a.chain[j].kind # "custom") =>
            result.confidence >= 8 * Len(a.chain)
    <3>1. ASSUME Passed(a.verdicts), \A j \in DOMAIN a.chain : a.chain[j].kind # "custom"
          PROVE  \A m \in DOMAIN a.verdicts : a.verdicts[m].confidence >= 8
      <4>1. \A m \in DOMAIN a.verdicts : Confident(a.chain[m], a.verdicts[m])
        BY <2>2 DEF FoundOK
      <4> QED
        BY <2>3, <3>1, <4>1 DEF Passed, Confident
    <3> QED
      BY <2>2, <2>9, <3>1
  <2>12. result.status = "FAIL" => "FAIL" \in Range(a.raw)
    BY <2>2, <2>9 DEF FoundOK
  <2> QED
    BY <2>1, <2>10, <2>11, <2>12 DEF result
<1> QED
  BY InitInv, NextInv, <1>1, PTL DEF Spec
=============================================================================
