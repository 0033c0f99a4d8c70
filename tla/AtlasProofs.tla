---------------------------- MODULE AtlasProofs -----------------------------
(***************************************************************************)
(* Proofs about Atlas, for any providers, threads, requests and bounds.    *)
(***************************************************************************)
EXTENDS Atlas, TLAPS, FiniteSetTheorems, WellFoundedInduction

USE CooldownAssumption, RequestAssumption, BoundAssumption

-----------------------------------------------------------------------------
(* The powers of two.  The induction theorems of the library take an       *)
(* operator, which the provers cannot instantiate; a least counterexample  *)
(* serves as well.                                                         *)

\* A non-empty set of naturals has a least element.
LEMMA LeastNatural ==
    ASSUME NEW T, T \subseteq Nat, T # {}
    PROVE  \E x \in T : \A y \in T : x <= y
<1> DEFINE R == OpToRel(<, Nat)
<1>1. R = {ss \in Nat \X Nat : ss[1] < ss[2]}
  BY DEF OpToRel
<1>2. IsWellFoundedOn(R, Nat)
  BY NatLessThanWellFounded
<1> HIDE DEF R
<1>3. PICK x \in T : \A y \in T : ~(<<y, x>> \in R)
  BY <1>2, WFMin
<1>4. ASSUME NEW y \in T  PROVE x <= y
  <2>1. x \in Nat /\ y \in Nat /\ <<y, x>> \notin R
    BY <1>3
  <2>2. ~(y < x)
    BY <1>1, <2>1
  <2> QED
    BY <2>1, <2>2
<1> QED
  BY <1>4

\* The powers of two up to the m-th.
Powers(f, m) ==
    /\ f \in [0..m -> Nat \ {0}]
    /\ f[0] = 1
    /\ \A i \in 1..m : f[i] = 2 * f[i - 1]

\* There are powers of two up to any number ...
LEMMA PowersExist == \A m \in Nat : \E f : Powers(f, m)
<1> DEFINE T == {m \in Nat : ~ \E f : Powers(f, m)}
<1> SUFFICES ASSUME T # {}  PROVE FALSE
  OBVIOUS
<1>1. PICK x \in T : \A y \in T : x <= y
  BY LeastNatural
<1>2. x \in Nat /\ ~ \E f : Powers(f, x)
  OBVIOUS
<1>3. CASE x = 0
  <2>1. Powers([i \in 0..0 |-> 1], 0)
    BY DEF Powers
  <2> QED
    BY <1>2, <1>3, <2>1
<1>4. CASE x # 0
  <2>1. x - 1 \in Nat /\ x - 1 \notin T
    BY <1>1, <1>2, <1>4
  <2>2. PICK f : Powers(f, x - 1)
    BY <2>1
  <2> DEFINE g == [i \in 0..x |-> IF i = x THEN 2 * f[x - 1] ELSE f[i]]
  <2>3. f[x - 1] \in Nat \ {0} /\ \A i \in 0..(x - 1) : f[i] \in Nat \ {0}
    BY <2>1, <2>2 DEF Powers
  <2>4. g \in [0..x -> Nat \ {0}]
    BY <1>2, <2>3
  <2>5. g[0] = 1
    BY <1>2, <1>4, <2>2 DEF Powers
  <2>6. \A i \in 1..x : g[i] = 2 * g[i - 1]
    BY <1>2, <1>4, <2>1, <2>2 DEF Powers
  <2>7. Powers(g, x)
    <3> HIDE DEF g
    <3> QED  BY <2>4, <2>5, <2>6 DEF Powers
  <2> QED
    BY <1>2, <2>7
<1> QED
  BY <1>3, <1>4

\* ... and any two such lists agree where both are defined.
LEMMA PowersAgree ==
    ASSUME NEW m \in Nat, NEW k \in Nat, m <= k, NEW f, NEW g,
           Powers(f, m), Powers(g, k)
    PROVE  \A i \in 0..m : f[i] = g[i]
<1> DEFINE T == {i \in 0..m : f[i] # g[i]}
<1> SUFFICES ASSUME T # {}  PROVE FALSE
  OBVIOUS
<1>1. PICK x \in T : \A y \in T : x <= y
  <2>1. T \subseteq Nat
    OBVIOUS
  <2> HIDE DEF T
  <2> QED  BY <2>1, LeastNatural
<1>2. x \in 0..m /\ f[x] # g[x]
  OBVIOUS
<1>3. x # 0
  BY <1>2 DEF Powers
<1>4. x - 1 \in 0..m /\ x - 1 \notin T /\ x \in 1..m /\ x \in 1..k
  BY <1>1, <1>2, <1>3
<1>5. f[x - 1] = g[x - 1]
  BY <1>4
<1> QED
  BY <1>2, <1>4, <1>5 DEF Powers

\* The recursive definition has a solution, so PowerOfTwo is one; its values
\* are positive.
LEMMA PowerPositive ==
    ASSUME NEW n \in Nat  PROVE PowerOfTwo[n] \in Nat \ {0}
<1> DEFINE Unfold(h) == [i \in Nat |-> IF i = 0 THEN 1 ELSE 2 * h[i - 1]]
           list == [m \in Nat |-> CHOOSE f : Powers(f, m)]
           h == [m \in Nat |-> list[m][m]]
<1>1. \A m \in Nat : Powers(list[m], m)
  BY PowersExist
<1> HIDE DEF list
<1>2. h = Unfold(h)
  <2>1. ASSUME NEW m \in Nat, m # 0  PROVE h[m] = 2 * h[m - 1]
    <3>1. m - 1 \in Nat /\ m - 1 <= m
      BY <2>1
    <3>2. Powers(list[m], m) /\ Powers(list[m - 1], m - 1)
      BY <1>1, <3>1
    <3>3. list[m - 1][m - 1] = list[m][m - 1]
      BY <3>1, <3>2, PowersAgree
    <3>4. list[m][m] = 2 * list[m][m - 1]
      BY <2>1, <3>2 DEF Powers
    <3> QED
      BY <3>1, <3>3, <3>4
  <2>2. h[0] = 1
    BY <1>1 DEF Powers
  <2> QED
    BY <2>1, <2>2
<1>3. PowerOfTwo = Unfold(PowerOfTwo)
  <2> HIDE DEF h
  <2> QED  BY <1>2 DEF PowerOfTwo
<1>4. PowerOfTwo[0] = 1 /\ \A i \in Nat \ {0} : PowerOfTwo[i] = 2 * PowerOfTwo[i - 1]
  BY <1>3
<1> DEFINE T == {i \in Nat : PowerOfTwo[i] \notin Nat \ {0}}
<1> SUFFICES ASSUME T # {}  PROVE FALSE
  OBVIOUS
<1>5. PICK x \in T : \A y \in T : x <= y
  BY LeastNatural
<1>6. x \in Nat /\ PowerOfTwo[x] \notin Nat \ {0} /\ x # 0
  BY <1>4
<1>7. x - 1 \in Nat /\ x - 1 \notin T
  BY <1>5, <1>6
<1>8. PowerOfTwo[x - 1] \in Nat \ {0}
  BY <1>7
<1>9. PowerOfTwo[x] = 2 * PowerOfTwo[x - 1]
  BY <1>4, <1>6
<1> QED
  BY <1>6, <1>8, <1>9

-----------------------------------------------------------------------------
(* The record operators                                                    *)

\* What each method of ProviderHealth keeps true of the counters.
LEMMA HealthOperators ==
    ASSUME NEW h \in HealthRecord, NEW d \in Int
    PROVE  /\ NewHealth \in HealthRecord /\ CountersAgree(NewHealth)
           /\ RecordSuccess(h) \in HealthRecord
           /\ RecordFailure(h, d) \in HealthRecord
           /\ Reset(h) \in HealthRecord
           /\ Elapse(h) \in HealthRecord
           /\ CountersAgree(h) => /\ CountersAgree(RecordSuccess(h))
                                  /\ CountersAgree(RecordFailure(h, d))
                                  /\ CountersAgree(Reset(h))
                                  /\ CountersAgree(Elapse(h))
<1>1. NewHealth \in HealthRecord /\ CountersAgree(NewHealth)
  BY DEF HealthRecord, Health, NewHealth, CountersAgree
<1>2. RecordSuccess(h) \in HealthRecord
  BY DEF HealthRecord, Health, RecordSuccess
<1>3. RecordFailure(h, d) \in HealthRecord
  BY DEF HealthRecord, Health, RecordFailure
<1>4. Reset(h) \in HealthRecord
  BY DEF HealthRecord, Health, Reset
<1>5. Elapse(h) \in HealthRecord
  BY DEF HealthRecord, Health, Elapse
<1>6. CountersAgree(h) => CountersAgree(RecordSuccess(h))
  BY DEF HealthRecord, Health, RecordSuccess, CountersAgree
<1>7. CountersAgree(h) => CountersAgree(RecordFailure(h, d))
  BY DEF HealthRecord, Health, RecordFailure, CountersAgree
<1>8. CountersAgree(h) => CountersAgree(Reset(h))
  BY DEF HealthRecord, Health, Reset, CountersAgree
<1>9. CountersAgree(h) => CountersAgree(Elapse(h))
  BY DEF HealthRecord, Health, Elapse, CountersAgree
<1> QED
  BY <1>1, <1>2, <1>3, <1>4, <1>5, <1>6, <1>7, <1>8, <1>9

\* The exponential window is a number and is open, however long the streak.
LEMMA BackoffType ==
    ASSUME NEW n \in Nat  PROVE Backoff(n) \in Int /\ Backoff(n) > 0
<1> DEFINE p == PowerOfTwo[n]
<1>1. p \in Nat /\ p # 0
  BY PowerPositive
<1>2. BaseCooldown \in Nat /\ BaseCooldown # 0 /\ MaxCooldown \in Nat
      /\ MaxCooldown # 0
  BY CooldownAssumption
<1> HIDE DEF p
<1>3. BaseCooldown * p \in Nat /\ BaseCooldown * p > 0
  BY <1>1, <1>2
<1> QED
  BY <1>2, <1>3 DEF Backoff, p

-----------------------------------------------------------------------------
(* Type correctness                                                        *)

\* A step that only moves one call keeps the types if the call is well formed.
LEMMA ReadsType ==
    ASSUME TypeOK, NEW t \in Thread, NEW c \in CallRecord, WellFormed(c),
           Reads(t, c)
    PROVE  TypeOK'
  BY DEF TypeOK, Reads, Become, registry

\* The same for a step that begins a call.
LEMMA StartsType ==
    ASSUME TypeOK, NEW t \in Thread, NEW c \in CallRecord, WellFormed(c),
           Starts(t, c)
    PROVE  TypeOK'
  BY DEF TypeOK, Starts, Become, registry

\* The empty sequence, once for every type that needs it.
LEMMA EmptySeq == /\ <<>> \in Seq(Provider)
                  /\ <<>> \in Seq(Status)
  OBVIOUS

\* The state of a free thread is well formed.
LEMMA IdleType == Idle \in CallRecord /\ WellFormed(Idle)
  BY DEF Idle, CallRecord, WellFormed, PC, Status, NoRequest, NoRecord, NoName

\* A call may return with any status from any point.
LEMMA ReturnedType ==
    ASSUME NEW c \in CallRecord, NEW s \in Status
    PROVE  Returned(c, s) \in CallRecord /\ WellFormed(Returned(c, s))
<1>1. Returned(c, s) \in CallRecord
  BY IdleType DEF Returned, CallRecord, PC
<1>2. Returned(c, s).pc = "returned"
  BY IdleType DEF Returned, CallRecord
<1> QED
  BY <1>1, <1>2 DEF WellFormed

\* The parts of a call and of its remaining names.
LEMMA Fields ==
    ASSUME NEW c \in CallRecord
    PROVE  /\ c.pc \in PC /\ c.req \in Request \cup {NoRequest}
           /\ c.todo \in Seq(Provider) /\ c.pool \in Seq(Provider)
           /\ c.req.names \in Seq(Provider)
           /\ c.healthy \in Seq(Provider) /\ c.attempts \in Seq(Status)
           /\ c.held \in Records \cup {NoRecord} /\ c.status \in Status
           /\ c.skipped \subseteq Provider /\ c.targets \subseteq Records
           /\ c.todo # <<>> => /\ Head(c.todo) \in Provider
                              /\ Tail(c.todo) \in Seq(Provider)
           /\ \A n \in Provider : Append(c.pool, n) \in Seq(Provider)
           /\ \A n \in Provider : Append(c.healthy, n) \in Seq(Provider)
           /\ \A s \in Status : Append(c.attempts, s) \in Seq(Status)
<1>1. c.req \in Request => c.req.names \in Seq(Provider)
  BY RequestAssumption
<1>2. NoRequest.names \in Seq(Provider)
  BY EmptySeq DEF NoRequest
<1>3. c.req \in Request \cup {NoRequest}
  BY DEF CallRecord
<1> QED
  BY <1>1, <1>2, <1>3 DEF CallRecord

\* Going on with a cascade, or ending it, keeps the call well formed.
LEMMA NextAttemptType ==
    ASSUME NEW c \in CallRecord, c.todo # <<>>, NEW s \in Status,
           s # "SUCCESS" => c.req.kind = "cascade"
    PROVE  /\ NextAttempt(c, s) \in CallRecord
           /\ WellFormed(NextAttempt(c, s))
<1> DEFINE n == Head(c.todo)
           rest == Tail(c.todo)
           tried == Append(c.attempts, s)
<1>1. n \in Provider /\ rest \in Seq(Provider) /\ tried \in Seq(Status)
  BY Fields
<1> HIDE DEF n, rest, tried
<1>2. CASE s = "SUCCESS"
  <2>1. [c EXCEPT !.chosen = n] \in CallRecord
    BY <1>1 DEF CallRecord
  <2> QED
    BY <1>2, <2>1, ReturnedType DEF NextAttempt, n
<1>3. CASE s # "SUCCESS"
  <2>1. NextAttempt(c, s) =
          [c EXCEPT !.pc = "attempt", !.todo = rest, !.held = NoRecord,
                    !.streak = 0, !.attempts = tried]
    BY <1>3 DEF NextAttempt, rest, tried
  <2>2. NextAttempt(c, s) \in CallRecord
    <3> DEFINE d == [c EXCEPT !.pc = "attempt", !.todo = rest,
                              !.attempts = tried]
               e == [d EXCEPT !.held = NoRecord]
    <3>1. d \in CallRecord
      BY <1>1 DEF CallRecord, PC
    <3>2. e \in CallRecord
      <4> HIDE DEF d
      <4> QED  BY <3>1 DEF CallRecord
    <3>3. [e EXCEPT !.streak = 0] \in CallRecord
      <4> HIDE DEF e
      <4> QED  BY <3>2 DEF CallRecord
    <3> QED
      BY <2>1, <3>3 DEF CallRecord
  <2>3. NextAttempt(c, s).pc = "attempt" /\ NextAttempt(c, s).req = c.req
    BY <2>1 DEF CallRecord
  <2> QED
    BY <1>3, <2>2, <2>3 DEF WellFormed
<1> QED
  BY <1>2, <1>3

\* A call in progress has its type, and is well formed.
LEMMA CallType ==
    ASSUME TypeOK, NEW t \in Thread
    PROVE  call[t] \in CallRecord /\ WellFormed(call[t])
  BY DEF TypeOK

\* The types survive a look-up of a candidate by _decide ...
LEMMA CollectType ==
    ASSUME TypeOK, NEW t \in Thread, Collect(t)  PROVE TypeOK'
<1> DEFINE c == call[t]
           n == Head(c.todo)
           rest == Tail(c.todo)
           pool == IF Registered(n) /\ n \in c.req.accepts
                   THEN Append(c.pool, n) ELSE c.pool
           rejected == IF Registered(n) /\ n \notin c.req.accepts
                       THEN {n} ELSE {}
           skipped == c.skipped \cup rejected
           pc == IF rest = <<>> THEN "rescan" ELSE c.pc
           todo == IF rest = <<>> THEN c.req.names ELSE rest
           d == [c EXCEPT !.pool = pool, !.skipped = skipped,
                          !.pc = pc, !.todo = todo]
<1>1. c.pc = "collect" /\ Reads(t, d)
  BY DEF Collect
<1>2. c \in CallRecord /\ WellFormed(c)
  BY CallType
<1>3. c.todo # <<>> /\ c.req.names # <<>>
  BY <1>1, <1>2 DEF WellFormed
<1>4. /\ pool \in Seq(Provider) /\ skipped \subseteq Provider
      /\ todo \in Seq(Provider) /\ todo # <<>>
  <2> HIDE DEF c
  <2> QED  BY <1>2, <1>3, Fields
<1>5. pc \in {"collect", "rescan"} /\ pc \in PC
  BY <1>1 DEF PC
<1>6. d \in CallRecord
  <2> HIDE DEF c, pool, skipped, todo, pc
  <2> QED  BY <1>2, <1>4, <1>5 DEF CallRecord
<1>7. d.pc = pc /\ d.todo = todo /\ d.req = c.req
  <2> HIDE DEF c, pool, skipped, todo, pc
  <2> QED  BY <1>2 DEF CallRecord
<1>8. WellFormed(d)
  <2> HIDE DEF d, todo, pc
  <2> QED  BY <1>3, <1>4, <1>5, <1>7 DEF WellFormed
<1> QED
  <2> HIDE DEF d
  <2> QED  BY <1>1, <1>6, <1>8, ReadsType

\* ... its second look-up, for the skipped list ...
LEMMA RescanType ==
    ASSUME TypeOK, NEW t \in Thread, Rescan(t)  PROVE TypeOK'
<1> DEFINE c == call[t]
           n == Head(c.todo)
           rest == Tail(c.todo)
           skipped == IF Registered(n) THEN c.skipped ELSE c.skipped \cup {n}
           pc == IF rest = <<>> THEN "peek" ELSE c.pc
           todo == IF rest = <<>> THEN c.pool ELSE rest
           d == [c EXCEPT !.skipped = skipped, !.pc = pc, !.todo = todo]
<1>1. c.pc = "rescan" /\ Reads(t, d)
  BY DEF Rescan
<1>2. c \in CallRecord /\ WellFormed(c)
  BY CallType
<1>3. c.todo # <<>> /\ c.req.names # <<>>
  BY <1>1, <1>2 DEF WellFormed
<1>4. /\ skipped \subseteq Provider /\ todo \in Seq(Provider)
      /\ pc = "rescan" => todo # <<>>
      /\ pc \in {"rescan", "peek"} /\ pc \in PC
  <2> HIDE DEF c
  <2> QED  BY <1>1, <1>2, <1>3, Fields DEF PC
<1>5. d \in CallRecord
  <2> HIDE DEF c, skipped, todo, pc
  <2> QED  BY <1>2, <1>4 DEF CallRecord
<1>6. d.pc = pc /\ d.todo = todo /\ d.req = c.req
  <2> HIDE DEF c, skipped, todo, pc
  <2> QED  BY <1>2 DEF CallRecord
<1>7. WellFormed(d)
  <2> HIDE DEF d, todo, pc
  <2> QED  BY <1>3, <1>4, <1>6 DEF WellFormed
<1> QED
  <2> HIDE DEF d
  <2> QED  BY <1>1, <1>5, <1>7, ReadsType

\* ... the look-up of a health record ...
LEMMA PeekType ==
    ASSUME TypeOK, NEW t \in Thread, Peek(t)  PROVE TypeOK'
<1> DEFINE c == call[t]
           i == record[Head(c.todo)]
           d == [c EXCEPT !.pc = "probe", !.held = i]
<1>1. c.todo # <<>> /\ Reads(t, d)
  BY DEF Peek
<1>2. c \in CallRecord
  BY CallType
<1>3. i \in Records \cup {NoRecord}
  <2>1. Head(c.todo) \in Provider
    BY <1>1, <1>2, Fields
  <2> QED  BY <2>1 DEF TypeOK, Records, NoRecord
<1>4. d \in CallRecord
  <2> HIDE DEF c, i
  <2> QED  BY <1>2, <1>3 DEF CallRecord, PC
<1>5. d.pc = "probe" /\ d.todo = c.todo
  <2> HIDE DEF c, i
  <2> QED  BY <1>2 DEF CallRecord
<1>6. WellFormed(d)
  <2> HIDE DEF d
  <2> QED  BY <1>1, <1>5 DEF WellFormed
<1> QED
  <2> HIDE DEF d
  <2> QED  BY <1>1, <1>4, <1>6, ReadsType

\* ... the check of that record ...
LEMMA ProbeType ==
    ASSUME TypeOK, NEW t \in Thread, Probe(t)  PROVE TypeOK'
<1> DEFINE c == call[t]
           n == Head(c.todo)
           rest == Tail(c.todo)
           pass == c.held = NoRecord \/ IsHealthy(health[c.held])
           healthy == IF pass THEN Append(c.healthy, n) ELSE c.healthy
           skipped == IF pass THEN c.skipped ELSE c.skipped \cup {n}
           d == [c EXCEPT !.pc = "peek", !.todo = rest, !.held = NoRecord,
                          !.healthy = healthy, !.skipped = skipped]
<1>1. c.pc = "probe" /\ Reads(t, d)
  BY DEF Probe
<1>2. c \in CallRecord /\ WellFormed(c)
  BY CallType
<1>3. c.todo # <<>>
  BY <1>1, <1>2 DEF WellFormed
<1>4. /\ rest \in Seq(Provider) /\ healthy \in Seq(Provider)
      /\ skipped \subseteq Provider
  <2> HIDE DEF c, pass
  <2> QED  BY <1>2, <1>3, Fields
<1>5. d \in CallRecord
  <2> HIDE DEF c, rest, healthy, skipped
  <2> QED  BY <1>2, <1>4 DEF CallRecord, PC
<1>6. d.pc = "peek"
  <2> HIDE DEF c, rest, healthy, skipped
  <2> QED  BY <1>2 DEF CallRecord
<1>7. WellFormed(d)
  <2> HIDE DEF d
  <2> QED  BY <1>6 DEF WellFormed
<1> QED
  <2> HIDE DEF d
  <2> QED  BY <1>1, <1>5, <1>7, ReadsType

\* ... and the choice among the healthy names.
LEMMA PickType ==
    ASSUME TypeOK, NEW t \in Thread, Pick(t)  PROVE TypeOK'
<1> DEFINE c == call[t]
<1>1. c \in CallRecord
  BY CallType
<1>2. ASSUME NEW s \in Status, Reads(t, Returned(c, s))  PROVE TypeOK'
  BY <1>1, <1>2, ReadsType, ReturnedType
<1>3. ASSUME NEW k \in DOMAIN c.healthy,
             LET d == [c EXCEPT !.status = "SUCCESS", !.chosen = c.healthy[k]]
             IN Reads(t, IF c.req.kind = "route" THEN Returned(d, "SUCCESS")
                         ELSE [d EXCEPT !.pc = "lookup",
                                        !.todo = <<c.healthy[k]>>,
                                        !.pool = <<>>, !.healthy = <<>>])
      PROVE  TypeOK'
  <2> DEFINE n == c.healthy[k]
             d == [c EXCEPT !.status = "SUCCESS", !.chosen = n]
             one == <<n>>
             e == [d EXCEPT !.pc = "lookup", !.todo = one, !.pool = <<>>,
                            !.healthy = <<>>]
  <2>1. n \in Provider
    BY <1>1, <1>3, Fields
  <2>2. one \in Seq(Provider) /\ one # <<>>
    <3> HIDE DEF n
    <3> QED  BY <2>1
  <2>3. d \in CallRecord /\ d.chosen = n
    <3> HIDE DEF c, n
    <3> QED  BY <1>1, <2>1 DEF CallRecord, Status
  <2>4. /\ e \in CallRecord
        /\ e.pc = "lookup" /\ e.todo = one /\ e.chosen = n
    <3> HIDE DEF d, n, one
    <3> QED  BY <2>2, <2>3, EmptySeq DEF CallRecord, PC
  <2>5. WellFormed(e)
    <3> HIDE DEF e, n, one
    <3> QED  BY <2>1, <2>2, <2>4 DEF WellFormed
  <2>6. Reads(t, Returned(d, "SUCCESS")) \/ Reads(t, e)
    BY <1>3
  <2>7. Returned(d, "SUCCESS") \in CallRecord
        /\ WellFormed(Returned(d, "SUCCESS"))
    <3> HIDE DEF d
    <3> QED  BY <2>3, ReturnedType DEF Status
  <2> QED
    <3> HIDE DEF d, e
    <3> QED  BY <2>4, <2>5, <2>6, <2>7, ReadsType
<1>4. /\ "NO_CANDIDATES" \in Status /\ "ALL_UNHEALTHY" \in Status
  BY DEF Status
<1> QED
  BY <1>2, <1>3, <1>4 DEF Pick

\* They survive the look-ups of the chosen provider by invoke.
LEMMA LookupType ==
    ASSUME TypeOK, NEW t \in Thread, Lookup(t) \/ LookupHealth(t)
    PROVE  TypeOK'
<1> DEFINE c == call[t]
           i == record[c.chosen]
           d == [c EXCEPT !.pc = "lookupHealth"]
           e == [c EXCEPT !.pc = "calling", !.held = i]
<1>1. c \in CallRecord /\ WellFormed(c) /\ c.status \in Status
  BY CallType, Fields
<1>2. c.pc \in {"lookup", "lookupHealth"}
  BY DEF Lookup, LookupHealth
<1>3. c.todo # <<>> /\ c.chosen \in Provider
  BY <1>1, <1>2 DEF WellFormed
<1>4. CASE Reads(t, Returned(c, c.status))
  BY <1>1, <1>4, ReadsType, ReturnedType
<1>5. CASE Reads(t, d)
  <2>1. d \in CallRecord /\ d.pc = "lookupHealth" /\ d.todo = c.todo
        /\ d.chosen = c.chosen
    <3> HIDE DEF c
    <3> QED  BY <1>1 DEF CallRecord, PC
  <2>2. WellFormed(d)
    <3> HIDE DEF c, d
    <3> QED  BY <1>3, <2>1 DEF WellFormed
  <2> QED
    <3> HIDE DEF d
    <3> QED  BY <1>5, <2>1, <2>2, ReadsType
<1>6. CASE Registered(c.chosen) /\ Reads(t, e)
  <2>1. i \in Records \cup {NoRecord} /\ i # NoRecord
    BY <1>3, <1>6 DEF TypeOK, Records, NoRecord, Registered
  <2>2. e \in CallRecord /\ e.pc = "calling" /\ e.todo = c.todo /\ e.held = i
        /\ e.chosen = c.chosen
    <3> HIDE DEF c, i
    <3> QED  BY <1>1, <2>1 DEF CallRecord, PC
  <2>3. WellFormed(e)
    <3> HIDE DEF c, e, i
    <3> QED  BY <1>3, <2>1, <2>2 DEF WellFormed
  <2> QED
    <3> HIDE DEF e
    <3> QED  BY <1>6, <2>2, <2>3, ReadsType
<1> QED
  BY <1>4, <1>5, <1>6 DEF Lookup, LookupHealth

\* They survive a cascade's look-up of its next provider ...
LEMMA AttemptType ==
    ASSUME TypeOK, NEW t \in Thread, Attempt(t)  PROVE TypeOK'
<1> DEFINE c == call[t]
           d == [c EXCEPT !.pc = "attemptPeek"]
<1>1. c \in CallRecord /\ c.req.kind = "cascade"
  BY CallType DEF WellFormed, Attempt
<1>2. CASE c.todo # <<>> /\ Reads(t, d)
  <2>1. d \in CallRecord /\ d.pc = "attemptPeek" /\ d.todo = c.todo
        /\ d.req = c.req
    <3> HIDE DEF c
    <3> QED  BY <1>1 DEF CallRecord, PC
  <2>2. WellFormed(d)
    <3> HIDE DEF c, d
    <3> QED  BY <1>1, <1>2, <2>1 DEF WellFormed
  <2> QED
    <3> HIDE DEF d
    <3> QED  BY <1>2, <2>1, <2>2, ReadsType
<1>3. CASE c.todo # <<>> /\ Reads(t, NextAttempt(c, "NO_CANDIDATES"))
  BY <1>1, <1>3, ReadsType, NextAttemptType DEF Status
<1>4. CASE Reads(t, Returned(c, Verdict(c.attempts)))
  <2>1. Verdict(c.attempts) \in Status
    BY DEF Verdict, Status
  <2> QED
    BY <1>1, <1>4, <2>1, ReadsType, ReturnedType
<1> QED
  BY <1>2, <1>3, <1>4 DEF Attempt

\* ... of its health record ...
LEMMA AttemptPeekType ==
    ASSUME TypeOK, NEW t \in Thread, AttemptPeek(t)  PROVE TypeOK'
<1> DEFINE c == call[t]
           i == record[Head(c.todo)]
           d == [c EXCEPT !.pc = "attemptProbe", !.held = i]
<1>1. c.pc = "attemptPeek" /\ Reads(t, d)
  BY DEF AttemptPeek
<1>2. c \in CallRecord /\ WellFormed(c)
  BY CallType
<1>3. c.todo # <<>> /\ c.req.kind = "cascade"
  BY <1>1, <1>2 DEF WellFormed
<1>4. i \in Records \cup {NoRecord}
  <2>1. Head(c.todo) \in Provider
    BY <1>2, <1>3, Fields
  <2> QED  BY <2>1 DEF TypeOK, Records, NoRecord
<1>5. d \in CallRecord /\ d.pc = "attemptProbe" /\ d.todo = c.todo
      /\ d.req = c.req
  <2> HIDE DEF c, i
  <2> QED  BY <1>2, <1>4 DEF CallRecord, PC
<1>6. WellFormed(d)
  <2> HIDE DEF c, d
  <2> QED  BY <1>3, <1>5 DEF WellFormed
<1> QED
  <2> HIDE DEF d
  <2> QED  BY <1>1, <1>5, <1>6, ReadsType

\* ... and the check of that record.
LEMMA AttemptProbeType ==
    ASSUME TypeOK, NEW t \in Thread, AttemptProbe(t)  PROVE TypeOK'
<1> DEFINE c == call[t]
           d == [c EXCEPT !.pc = "calling"]
<1>1. /\ c.pc = "attemptProbe"
      /\ Reads(t, d) \/ Reads(t, NextAttempt(c, "ALL_UNHEALTHY"))
  BY DEF AttemptProbe
<1>2. c \in CallRecord /\ WellFormed(c)
  BY CallType
<1>3. c.todo # <<>> /\ c.req.kind = "cascade"
  BY <1>1, <1>2 DEF WellFormed
<1>4. d \in CallRecord /\ d.pc = "calling" /\ d.todo = c.todo /\ d.req = c.req
  <2> HIDE DEF c
  <2> QED  BY <1>2 DEF CallRecord, PC
<1>5. WellFormed(d)
  <2> HIDE DEF c, d
  <2> QED  BY <1>3, <1>4 DEF WellFormed
<1>6. /\ NextAttempt(c, "ALL_UNHEALTHY") \in CallRecord
      /\ WellFormed(NextAttempt(c, "ALL_UNHEALTHY"))
  <2> HIDE DEF c
  <2> QED  BY <1>2, <1>3, NextAttemptType DEF Status
<1> QED
  <2> HIDE DEF d
  <2> QED  BY <1>1, <1>4, <1>5, <1>6, ReadsType

\* A step that moves one call, counts an ended one and updates the records.
LEMMA RecordsType ==
    ASSUME TypeOK, NEW t \in Thread, NEW c \in CallRecord, WellFormed(c),
           Become(t, c), UNCHANGED <<registry, calls>>,
           ended' \in [Provider -> Nat], health' \in [Records -> HealthRecord]
    PROVE  TypeOK'
  BY DEF TypeOK, Become, registry

\* The history of finished calls keeps its type when one ends.
LEMMA EndedType ==
    ASSUME TypeOK, NEW n \in Provider
    PROVE  [ended EXCEPT ![n] = @ + 1] \in [Provider -> Nat]
  BY DEF TypeOK

\* The types survive a provider's answer ...
LEMMA SucceedType ==
    ASSUME TypeOK, NEW t \in Thread, Succeed(t)  PROVE TypeOK'
<1> DEFINE c == call[t]
           d == IF c.req.kind = "invoke" THEN Returned(c, c.status)
                ELSE NextAttempt(c, "SUCCESS")
<1>1. /\ c.pc = "calling"
      /\ Become(t, d)
      /\ ended' = [ended EXCEPT ![Head(c.todo)] = @ + 1]
      /\ health' = [i \in Records |-> IF i = c.held THEN RecordSuccess(health[i])
                                      ELSE health[i]]
      /\ UNCHANGED <<registry, calls>>
  BY DEF Succeed
<1>2. c \in CallRecord /\ WellFormed(c) /\ c.status \in Status
  BY CallType, Fields
<1>3. c.todo # <<>>
  BY <1>1, <1>2 DEF WellFormed
<1>4. d \in CallRecord /\ WellFormed(d)
  <2> HIDE DEF c
  <2> QED  BY <1>2, <1>3, ReturnedType, NextAttemptType DEF Status
<1>5. ended' \in [Provider -> Nat]
  BY <1>1, <1>2, <1>3, Fields, EndedType
<1>6. \A i \in Records : RecordSuccess(health[i]) \in HealthRecord
  BY HealthOperators DEF TypeOK
<1>7. health' \in [Records -> HealthRecord]
  <2> HIDE DEF c
  <2> QED  BY <1>1, <1>6 DEF TypeOK
<1> QED
  <2> HIDE DEF c, d
  <2> QED  BY <1>1, <1>4, <1>5, <1>7, RecordsType

\* ... its failure inside Atlas.invoke ...
LEMMA FailInvokeType ==
    ASSUME TypeOK, NEW t \in Thread, FailInvoke(t)  PROVE TypeOK'
<1> DEFINE c == call[t]
           r == Returned(c, c.status)
           d == [r EXCEPT !.ok = FALSE]
<1>1. /\ Become(t, d)
      /\ ended' = [ended EXCEPT ![c.chosen] = @ + 1]
      /\ health' = [health EXCEPT ![c.held] = RecordFailure(@, DefaultCooldown)]
      /\ UNCHANGED <<registry, calls>>
  BY DEF FailInvoke
<1>2. c \in CallRecord /\ c.status \in Status
  BY CallType, Fields
<1>3. r \in CallRecord /\ r.pc = "returned"
  <2>1. r \in CallRecord
    BY <1>2, ReturnedType
  <2> QED
    BY <2>1, IdleType DEF Returned, CallRecord
<1>4. d \in CallRecord /\ d.pc = "returned"
  <2> HIDE DEF r
  <2> QED  BY <1>3 DEF CallRecord
<1>5. WellFormed(d)
  <2> HIDE DEF d
  <2> QED  BY <1>4 DEF WellFormed
<1>6. ended' \in [Provider -> Nat]
  <2>1. c.chosen \in Provider
    BY CallType DEF WellFormed, FailInvoke
  <2> QED
    BY <1>1, <2>1, EndedType
<1>7. \A i \in Records : RecordFailure(health[i], DefaultCooldown) \in HealthRecord
  <2>1. DefaultCooldown \in Int
    BY BoundAssumption
  <2> QED
    BY <2>1, HealthOperators DEF TypeOK
<1>8. health' \in [Records -> HealthRecord]
  <2> HIDE DEF c
  <2> QED  BY <1>1, <1>7 DEF TypeOK
<1> QED
  <2> HIDE DEF c, d
  <2> QED  BY <1>1, <1>4, <1>5, <1>6, <1>8, RecordsType

\* ... and its failure inside a cascade.
LEMMA FailAttemptType ==
    ASSUME TypeOK, NEW t \in Thread, FailAttempt(t)  PROVE TypeOK'
<1> DEFINE c == call[t]
           d == [c EXCEPT !.pc = "penaltyPeek"]
<1>1. /\ c.pc = "calling" /\ c.req.kind = "cascade"
      /\ Become(t, d)
      /\ ended' = [ended EXCEPT ![Head(c.todo)] = @ + 1]
      /\ UNCHANGED <<registry, health, calls>>
  BY DEF FailAttempt
<1>2. c \in CallRecord /\ WellFormed(c)
  BY CallType
<1>3. c.todo # <<>>
  BY <1>1, <1>2 DEF WellFormed
<1>4. d \in CallRecord /\ d.pc = "penaltyPeek" /\ d.todo = c.todo
      /\ d.req = c.req
  <2> HIDE DEF c
  <2> QED  BY <1>2 DEF CallRecord, PC
<1>5. WellFormed(d)
  <2> HIDE DEF c, d
  <2> QED  BY <1>1, <1>3, <1>4 DEF WellFormed
<1>6. ended' \in [Provider -> Nat]
  BY <1>1, <1>2, <1>3, Fields, EndedType
<1>7. health' \in [Records -> HealthRecord]
  BY <1>1 DEF TypeOK
<1> QED
  <2> HIDE DEF c, d
  <2> QED  BY <1>1, <1>4, <1>5, <1>6, <1>7, RecordsType

\* They survive the three steps of a cascade's penalty: the look-up ...
LEMMA PenaltyPeekType ==
    ASSUME TypeOK, NEW t \in Thread, PenaltyPeek(t)  PROVE TypeOK'
<1> DEFINE c == call[t]
           i == record[Head(c.todo)]
           d == [c EXCEPT !.pc = "penaltyRead", !.held = i]
<1>1. /\ c.pc = "penaltyPeek"
      /\ \/ Reads(t, NextAttempt(c, "FAILED"))
         \/ i # NoRecord /\ Reads(t, d)
  BY DEF PenaltyPeek
<1>2. c \in CallRecord /\ WellFormed(c)
  BY CallType
<1>3. c.todo # <<>> /\ c.req.kind = "cascade"
  BY <1>1, <1>2 DEF WellFormed
<1>4. i \in Records \cup {NoRecord}
  <2>1. Head(c.todo) \in Provider
    BY <1>2, <1>3, Fields
  <2> QED  BY <2>1 DEF TypeOK, Records, NoRecord
<1>5. /\ d \in CallRecord /\ d.pc = "penaltyRead" /\ d.todo = c.todo
      /\ d.req = c.req /\ d.held = i
  <2> HIDE DEF c, i
  <2> QED  BY <1>2, <1>4 DEF CallRecord, PC
<1>6. i # NoRecord => WellFormed(d)
  <2> HIDE DEF c, d, i
  <2> QED  BY <1>3, <1>5 DEF WellFormed
<1>7. /\ NextAttempt(c, "FAILED") \in CallRecord
      /\ WellFormed(NextAttempt(c, "FAILED"))
  <2> HIDE DEF c
  <2> QED  BY <1>2, <1>3, NextAttemptType DEF Status
<1> QED
  <2> HIDE DEF d, i
  <2> QED  BY <1>1, <1>5, <1>6, <1>7, ReadsType

\* ... the read of the streak ...
LEMMA PenaltyReadType ==
    ASSUME TypeOK, NEW t \in Thread, PenaltyRead(t)  PROVE TypeOK'
<1> DEFINE c == call[t]
           n == health[c.held].consecutive_failures
           d == [c EXCEPT !.pc = "penalise", !.streak = n]
<1>1. /\ c.pc = "penaltyRead"
      /\ Reads(t, d) \/ Reads(t, Returned(c, "RAISED"))
  BY DEF PenaltyRead
<1>2. c \in CallRecord /\ WellFormed(c) /\ c.held \in Records \cup {NoRecord}
  BY CallType, Fields
<1>3. c.todo # <<>> /\ c.req.kind = "cascade" /\ c.held # NoRecord
  BY <1>1, <1>2 DEF WellFormed
<1>4. n \in Nat
  <2> HIDE DEF c
  <2> QED  BY <1>2, <1>3 DEF TypeOK, HealthRecord
<1>5. /\ d \in CallRecord /\ d.pc = "penalise" /\ d.todo = c.todo
      /\ d.req = c.req /\ d.held = c.held
  <2> HIDE DEF c, n
  <2> QED  BY <1>2, <1>4 DEF CallRecord, PC
<1>6. WellFormed(d)
  <2> HIDE DEF c, d
  <2> QED  BY <1>3, <1>5 DEF WellFormed
<1>7. /\ Returned(c, "RAISED") \in CallRecord
      /\ WellFormed(Returned(c, "RAISED"))
  <2> HIDE DEF c
  <2> QED  BY <1>2, ReturnedType DEF Status
<1> QED
  <2> HIDE DEF d
  <2> QED  BY <1>1, <1>5, <1>6, <1>7, ReadsType

\* ... and the record_failure.
LEMMA PenaliseType ==
    ASSUME TypeOK, NEW t \in Thread, Penalise(t)  PROVE TypeOK'
<1> DEFINE c == call[t]
           d == NextAttempt(c, "FAILED")
<1>1. /\ c.pc = "penalise"
      /\ health' = [health EXCEPT ![c.held] = RecordFailure(@, Backoff(c.streak))]
      /\ Become(t, d)
      /\ UNCHANGED <<registry, calls, ended>>
  BY DEF Penalise
<1>2. c \in CallRecord /\ WellFormed(c) /\ c.streak \in Nat
  BY CallType DEF CallRecord
<1>3. c.todo # <<>> /\ c.req.kind = "cascade"
  BY <1>1, <1>2 DEF WellFormed
<1>4. d \in CallRecord /\ WellFormed(d)
  <2> HIDE DEF c
  <2> QED  BY <1>2, <1>3, NextAttemptType DEF Status
<1>5. Backoff(c.streak) \in Int
  BY <1>2, BackoffType
<1>6. \A i \in Records : RecordFailure(health[i], Backoff(c.streak)) \in HealthRecord
  <2> DEFINE b == Backoff(c.streak)
  <2> HIDE DEF b
  <2>1. \A i \in Records : RecordFailure(health[i], b) \in HealthRecord
    BY <1>5, HealthOperators DEF TypeOK, b
  <2> QED
    BY <2>1 DEF b
<1>7. health' \in [Records -> HealthRecord]
  <2> DEFINE b == Backoff(c.streak)
  <2> HIDE DEF c, b
  <2> QED  BY <1>1, <1>6 DEF TypeOK, b
<1> QED
  <2> HIDE DEF c, d
  <2> QED  BY <1>1, <1>4, <1>7, RecordsType DEF TypeOK

\* They survive the reset of one record.
LEMMA ResetOneType ==
    ASSUME TypeOK, NEW t \in Thread, ResetOne(t)  PROVE TypeOK'
<1> DEFINE c == call[t]
<1>1. c \in CallRecord
  BY CallType
<1>2. CASE Reads(t, Returned(c, "none"))
  BY <1>1, <1>2, ReadsType, ReturnedType DEF Status
<1>3. ASSUME NEW i \in c.targets, c.pc = "resetting",
             health' = [health EXCEPT ![i] = Reset(@)],
             Become(t, [c EXCEPT !.targets = @ \ {i}]),
             UNCHANGED <<registry, calls, ended>>
      PROVE  TypeOK'
  <2> DEFINE rest == c.targets \ {i}
             d == [c EXCEPT !.targets = rest]
  <2>1. rest \subseteq Records
    BY <1>1, Fields
  <2>2. d \in CallRecord /\ d.pc = "resetting"
    <3> HIDE DEF c, rest
    <3> QED  BY <1>1, <1>3, <2>1 DEF CallRecord
  <2>3. WellFormed(d)
    <3> HIDE DEF d
    <3> QED  BY <2>2 DEF WellFormed
  <2>4. health' \in [Records -> HealthRecord]
    <3>1. \A j \in Records : Reset(health[j]) \in HealthRecord
      BY HealthOperators DEF TypeOK
    <3> QED
      BY <1>3, <3>1 DEF TypeOK
  <2>5. Become(t, d) /\ ended' \in [Provider -> Nat]
    BY <1>3 DEF TypeOK
  <2> QED
    <3> HIDE DEF d
    <3> QED  BY <1>3, <2>2, <2>3, <2>4, <2>5, RecordsType
<1> QED
  BY <1>2, <1>3 DEF ResetOne

\* They survive the return of a call to its caller.
LEMMA ReturnType ==
    ASSUME TypeOK, NEW t \in Thread, Return(t)  PROVE TypeOK'
  BY IdleType, ReadsType DEF Return

\* A call that has just begun is well formed, whatever its request.
LEMMA BegunType ==
    ASSUME NEW r \in Request
    PROVE  /\ Begun(r) \in CallRecord /\ Begun(r).req = r
           /\ Begun(r).todo = r.names /\ r.names \in Seq(Provider)
           /\ r.accepts \subseteq Provider
<1>1. r.names \in Seq(Provider) /\ r.accepts \subseteq Provider
  BY RequestAssumption
<1>2. Begun(r) \in CallRecord /\ Begun(r).req = r /\ Begun(r).todo = r.names
  BY <1>1, IdleType DEF Begun, CallRecord
<1> QED
  BY <1>1, <1>2

\* A listing of some registered names is a sequence of names.
LEMMA ListingsType ==
    ASSUME NEW S \in SUBSET Provider, NEW q \in Listings(S)
    PROVE  q \in Seq(Provider)
<1>1. Cardinality(S) \in Nat
  BY BoundAssumption, FS_Subset, FS_CardinalityType
<1>2. q \in [1..Cardinality(S) -> Provider]
  BY DEF Listings
<1> QED
  BY <1>1, <1>2

\* They survive the beginning of a call of any kind.
LEMMA StartType ==
    ASSUME TypeOK, NEW t \in Thread, Start(t)  PROVE TypeOK'
<1>1. ASSUME NEW r \in Request, NEW q \in Seq(Provider), NEW s \in SUBSET Provider,
             Starts(t, [Begun(r) EXCEPT !.pc = "peek", !.pool = q, !.todo = q,
                                        !.skipped = s])
      PROVE  TypeOK'
  <2> DEFINE b == Begun(r)
             d == [b EXCEPT !.pc = "peek", !.pool = q, !.todo = q, !.skipped = s]
  <2>1. d \in CallRecord /\ d.pc = "peek"
    <3>1. b \in CallRecord
      BY BegunType
    <3> HIDE DEF b
    <3> QED  BY <3>1 DEF CallRecord, PC
  <2>2. WellFormed(d)
    <3> HIDE DEF d
    <3> QED  BY <2>1 DEF WellFormed
  <2> QED
    <3> HIDE DEF d
    <3> QED  BY <1>1, <2>1, <2>2, StartsType DEF d
<1>2. ASSUME NEW r \in Request,
             Starts(t, [Begun(r) EXCEPT !.pc = IF r.names = <<>> THEN "peek"
                                               ELSE "collect"])
      PROVE  TypeOK'
  <2> DEFINE b == Begun(r)
             pc == IF r.names = <<>> THEN "peek" ELSE "collect"
             d == [b EXCEPT !.pc = pc]
  <2>1. b \in CallRecord /\ b.req = r /\ b.todo = r.names
    BY BegunType
  <2>2. d \in CallRecord /\ d.pc = pc /\ d.req = r /\ d.todo = r.names
    <3>1. pc \in PC
      BY DEF PC
    <3> HIDE DEF b, pc
    <3> QED  BY <2>1, <3>1 DEF CallRecord
  <2>3. WellFormed(d)
    <3> HIDE DEF d
    <3> QED  BY <2>2 DEF WellFormed
  <2> QED
    <3> HIDE DEF d
    <3> QED  BY <1>2, <2>2, <2>3, StartsType DEF d
<1>3. ASSUME NEW r \in Request, r.kind = "cascade",
             Starts(t, [Begun(r) EXCEPT !.pc = "attempt"])
      PROVE  TypeOK'
  <2> DEFINE b == Begun(r)
             d == [b EXCEPT !.pc = "attempt"]
  <2>1. b \in CallRecord /\ b.req = r
    BY BegunType
  <2>2. d \in CallRecord /\ d.pc = "attempt" /\ d.req = r
    <3> HIDE DEF b
    <3> QED  BY <2>1 DEF CallRecord, PC
  <2>3. WellFormed(d)
    <3> HIDE DEF d
    <3> QED  BY <1>3, <2>2 DEF WellFormed
  <2> QED
    <3> HIDE DEF d
    <3> QED  BY <1>3, <2>2, <2>3, StartsType DEF d
<1>4. ASSUME NEW r \in Request, NEW names \in SUBSET Provider,
             \A n \in names : Registered(n),
             Starts(t, [Begun(r) EXCEPT !.pc = "resetting",
                          !.targets = {record[n] : n \in names}])
      PROVE  TypeOK'
  <2> DEFINE b == Begun(r)
             targets == {record[n] : n \in names}
             d == [b EXCEPT !.pc = "resetting", !.targets = targets]
  <2>1. b \in CallRecord
    BY BegunType
  <2>2. targets \subseteq Records
    BY <1>4 DEF TypeOK, Records, Registered, NoRecord
  <2>3. d \in CallRecord /\ d.pc = "resetting"
    <3> HIDE DEF b, targets
    <3> QED  BY <2>1, <2>2 DEF CallRecord, PC
  <2>4. WellFormed(d)
    <3> HIDE DEF d
    <3> QED  BY <2>3 DEF WellFormed
  <2> QED
    <3> HIDE DEF d
    <3> QED  BY <1>4, <2>3, <2>4, StartsType DEF d
<1>5. CASE StartOverAll(t)
  <2>1. PICK r \in Request :
          \E q \in Listings({n \in r.accepts : Registered(n)}) :
             Starts(t, [Begun(r) EXCEPT !.pc = "peek", !.pool = q, !.todo = q,
                !.skipped = {n \in Provider \ r.accepts : Registered(n)}])
    BY <1>5 DEF StartOverAll
  <2>2. PICK q \in Listings({n \in r.accepts : Registered(n)}) :
          Starts(t, [Begun(r) EXCEPT !.pc = "peek", !.pool = q, !.todo = q,
             !.skipped = {n \in Provider \ r.accepts : Registered(n)}])
    BY <2>1
  <2>3. q \in Seq(Provider)
    BY BegunType, ListingsType
  <2>4. {n \in Provider \ r.accepts : Registered(n)} \in SUBSET Provider
    OBVIOUS
  <2> QED
    BY <1>1, <2>2, <2>3, <2>4
<1>6. CASE StartReset(t)
  <2>1. PICK r \in Request :
          LET named == r.names # <<>> /\ Registered(Head(r.names))
              names == IF named THEN {Head(r.names)}
                       ELSE {n \in Provider : Registered(n)}
          IN Starts(t, [Begun(r) EXCEPT !.pc = "resetting",
                          !.targets = {record[n] : n \in names}])
    BY <1>6 DEF StartReset
  <2> DEFINE named == r.names # <<>> /\ Registered(Head(r.names))
             names == IF named THEN {Head(r.names)}
                      ELSE {n \in Provider : Registered(n)}
  <2>2. names \in SUBSET Provider /\ \A n \in names : Registered(n)
    BY BegunType
  <2> QED
    <3>1. Starts(t, [Begun(r) EXCEPT !.pc = "resetting",
                       !.targets = {record[n] : n \in names}])
      BY <2>1
    <3> HIDE DEF names
    <3> QED  BY <1>4, <2>2, <3>1
<1>7. CASE StartOverNames(t)
  BY <1>2, <1>7 DEF StartOverNames
<1>8. CASE StartCascade(t)
  BY <1>3, <1>8 DEF StartCascade
<1> QED
  BY <1>5, <1>6, <1>7, <1>8 DEF Start

\* They survive registrations and unregistrations ...
LEMMA RegistryType ==
    ASSUME TypeOK, NEW n \in Provider, Register(n) \/ Unregister(n)
    PROVE  TypeOK'
<1>1. CASE Register(n)
  <2>1. NewHealth \in HealthRecord
    BY DEF HealthRecord, NewHealth, Health
  <2>2. created \in Nat /\ created' = created + 1 /\ created' \in 0..MaxRecord
    BY <1>1, BoundAssumption DEF TypeOK, Register
  <2>3. record' \in [Provider -> 0..created']
    BY <1>1, <2>2 DEF TypeOK, Register
  <2>4. health' \in [Records -> HealthRecord]
    BY <1>1, <2>1 DEF TypeOK, Register
  <2> QED
    BY <1>1, <2>2, <2>3, <2>4 DEF TypeOK, Register
<1>2. CASE Unregister(n)
  BY <1>2 DEF TypeOK, Unregister, NoRecord
<1> QED
  BY <1>1, <1>2

\* ... and the passing of time.
LEMMA TickType == ASSUME TypeOK, Tick  PROVE TypeOK'
<1>1. \A i \in Records : Elapse(health[i]) \in HealthRecord
  BY HealthOperators DEF TypeOK
<1> QED
  BY <1>1 DEF TypeOK, Tick, registry

\* The initial state has the types.
LEMMA TypeInit == Init => TypeOK
<1>1. NewHealth \in HealthRecord
  BY DEF NewHealth, HealthRecord, Health
<1> QED
  BY <1>1, IdleType, BoundAssumption DEF Init, TypeOK, NoRecord

\* The types hold initially and no step of the system breaks them.
LEMMA TypeNext == TypeOK /\ [Next]_vars => TypeOK'
<1> SUFFICES ASSUME TypeOK, [Next]_vars  PROVE TypeOK'
  OBVIOUS
<1>1. ASSUME NEW t \in Thread, Step(t)  PROVE TypeOK'
  BY <1>1, CollectType, RescanType, PeekType, ProbeType, PickType, LookupType,
     AttemptType, AttemptPeekType, AttemptProbeType, SucceedType,
     FailInvokeType, FailAttemptType, PenaltyPeekType, PenaltyReadType,
     PenaliseType, ResetOneType, ReturnType
     DEF Step
<1>2. CASE UNCHANGED vars
  BY <1>2 DEF TypeOK, vars, registry
<1> QED
  BY <1>1, <1>2, StartType, RegistryType, TickType DEF Next

\* The variables of Atlas keep their types and every call in progress stays
\* well formed, whatever the threads, the registrations and the clock do:
\* router.py and cascade.py never use a name or a record they do not hold.
THEOREM TypeCorrect == Spec => []TypeOK
  BY TypeInit, TypeNext, PTL DEF Spec

-----------------------------------------------------------------------------
(* The health records                                                      *)

\* All that a step can do to a record.
Updated(i) ==
    \/ health'[i] = health[i]
    \/ health'[i] = RecordSuccess(health[i])
    \/ \E d \in Int : health'[i] = RecordFailure(health[i], d)
    \/ health'[i] = Reset(health[i])
    \/ health'[i] = Elapse(health[i])
    \/ i = created' /\ created' = created + 1 /\ health'[i] = NewHealth

\* Every step leaves each record as it is or applies one of its methods.
LEMMA HealthSteps ==
    ASSUME TypeOK, [Next]_vars, NEW i \in Records  PROVE Updated(i)
<1> USE DEF Updated
<1>1. CASE UNCHANGED health
  BY <1>1
<1>2. ASSUME NEW t \in Thread, Succeed(t)  PROVE Updated(i)
  BY <1>2 DEF Succeed, TypeOK
<1>3. ASSUME NEW t \in Thread, FailInvoke(t)  PROVE Updated(i)
  <2>1. DefaultCooldown \in Int
    BY BoundAssumption
  <2>2. health' = [health EXCEPT ![call[t].held] =
                     RecordFailure(health[call[t].held], DefaultCooldown)]
    BY <1>3 DEF FailInvoke
  <2> QED
    BY <2>1, <2>2 DEF TypeOK
<1>4. ASSUME NEW t \in Thread, Penalise(t)  PROVE Updated(i)
  <2> DEFINE b == Backoff(call[t].streak)
  <2>1. b \in Int
    BY CallType, BackoffType DEF CallRecord
  <2>2. health' = [health EXCEPT ![call[t].held] =
                     RecordFailure(health[call[t].held], b)]
    BY <1>4 DEF Penalise
  <2> HIDE DEF b
  <2> QED
    BY <2>1, <2>2 DEF TypeOK
<1>5. ASSUME NEW t \in Thread, ResetOne(t)  PROVE Updated(i)
  BY <1>1, <1>5 DEF ResetOne, Reads, TypeOK
<1>6. ASSUME NEW n \in Provider, Register(n)  PROVE Updated(i)
  BY <1>6 DEF Register, TypeOK
<1>7. CASE Tick
  BY <1>7 DEF Tick
<1>8. ASSUME NEW t \in Thread, Start(t)  PROVE UNCHANGED health
  BY <1>8 DEF Start, StartOverAll, StartOverNames, StartCascade, StartReset,
              Starts
<1>9. ASSUME NEW t \in Thread, Step(t), ~Succeed(t), ~FailInvoke(t),
             ~Penalise(t), ~ResetOne(t)
      PROVE  UNCHANGED health
  BY <1>9 DEF Step, Reads, Collect, Rescan, Peek, Probe, Pick, Lookup,
              LookupHealth, Attempt, AttemptPeek, AttemptProbe, FailAttempt,
              PenaltyPeek, PenaltyRead, Return
<1>10. ASSUME NEW n \in Provider, Unregister(n)  PROVE UNCHANGED health
  BY <1>10 DEF Unregister
<1>11. CASE UNCHANGED vars
  BY <1>1, <1>11 DEF vars
<1> QED
  BY <1>1, <1>2, <1>3, <1>4, <1>5, <1>6, <1>7, <1>8, <1>9, <1>10, <1>11
     DEF Next

\* The counters agree after a step if they agreed before it.
LEMMA HealthNext ==
    TypeOK /\ HealthConsistent /\ [Next]_vars => HealthConsistent'
<1> SUFFICES ASSUME TypeOK, HealthConsistent, [Next]_vars, NEW i \in Records
             PROVE  CountersAgree(health'[i])
  BY DEF HealthConsistent
<1>1. health[i] \in HealthRecord /\ CountersAgree(health[i])
  BY DEF TypeOK, HealthConsistent
<1>2. Updated(i)
  BY HealthSteps
<1> QED
  BY <1>1, <1>2, HealthOperators DEF Updated

\* The counters of every health record agree, and a cooldown is open only
\* over an unbroken streak of failures, whatever mix of invoke, cascades,
\* resets and registrations touches the record.
THEOREM HealthCorrect == Spec => []HealthConsistent
<1>1. Init => HealthConsistent
  BY HealthOperators DEF Init, HealthConsistent, HealthRecord, NewHealth, Health,
     CountersAgree
<1> QED
  BY <1>1, TypeCorrect, HealthNext, PTL DEF Spec

-----------------------------------------------------------------------------
(* The health filter                                                       *)

\* Every step keeps the history variables.
LEMMA Observed == ASSUME [Next]_vars  PROVE Observe \/ UNCHANGED vars
<1>1. ASSUME NEW n \in Provider, Register(n) \/ Unregister(n)  PROVE Observe
  BY <1>1 DEF Register, Unregister
<1>2. ASSUME NEW t \in Thread, Start(t)  PROVE Observe
  BY <1>2 DEF Start, StartOverAll, StartOverNames, StartCascade, StartReset,
              Starts
<1>3. ASSUME NEW t \in Thread, Step(t)  PROVE Observe
  BY <1>3 DEF Step, Reads, Collect, Rescan, Peek, Probe, Pick, Lookup,
              LookupHealth, Attempt, AttemptPeek, AttemptProbe, Succeed,
              FailInvoke, FailAttempt, PenaltyPeek, PenaltyRead, Penalise,
              ResetOne, Return
<1>4. CASE Tick
  BY <1>4 DEF Tick
<1> QED
  BY <1>1, <1>2, <1>3, <1>4 DEF Next

\* The registry changes in three ways only.
LEMMA RegistrySteps ==
    ASSUME TypeOK, [Next]_vars
    PROVE  \/ UNCHANGED registry
           \/ /\ created' = created + 1 /\ created' \in Records
              /\ \A n \in Provider : record'[n] \in {record[n], created'}
           \/ /\ created' = created
              /\ \A n \in Provider : record'[n] \in {record[n], NoRecord}
<1>1. ASSUME NEW n \in Provider, Register(n)
      PROVE  /\ created' = created + 1 /\ created' \in Records
             /\ \A m \in Provider : record'[m] \in {record[m], created'}
  BY <1>1, BoundAssumption DEF Register, TypeOK, Records
<1>2. ASSUME NEW n \in Provider, Unregister(n)
      PROVE  /\ created' = created
             /\ \A m \in Provider : record'[m] \in {record[m], NoRecord}
  BY <1>2 DEF Unregister, TypeOK
<1>3. ASSUME NEW t \in Thread, Start(t)  PROVE UNCHANGED registry
  BY <1>3 DEF Start, StartOverAll, StartOverNames, StartCascade, StartReset,
              Starts
<1>4. ASSUME NEW t \in Thread, Step(t)  PROVE UNCHANGED registry
  BY <1>4 DEF Step, Reads, Collect, Rescan, Peek, Probe, Pick, Lookup,
              LookupHealth, Attempt, AttemptPeek, AttemptProbe, Succeed,
              FailInvoke, FailAttempt, PenaltyPeek, PenaltyRead, Penalise,
              ResetOne, Return
<1>5. CASE Tick
  BY <1>5 DEF Tick
<1>6. CASE UNCHANGED vars
  BY <1>6 DEF vars
<1> QED
  BY <1>1, <1>2, <1>3, <1>4, <1>5, <1>6 DEF Next

\* While a call goes on, what is news to it stays news; a name's record only
\* gives way to none or to a newer one; and a record only goes into cooldown
\* by a failure, which is news.
LEMMA Stable ==
    ASSUME TypeOK, [Next]_vars, NEW t \in Thread, Busy(t), Busy(t)'
    PROVE  /\ \A i \in fresh[t] : i \in fresh'[t]
           /\ \A n \in Provider :
                record'[n] \in {record[n], NoRecord} \cup fresh'[t]
           /\ \A i \in Records : Excused(t, i) => Excused(t, i)'
           /\ \A n \in Provider :
                Excused(t, record[n]) => Excused(t, record[n])'
<1>1. CASE UNCHANGED vars
  BY <1>1 DEF vars, registry, history, Excused, TypeOK
<1>2. CASE Observe
  <2>1. fresh'[t] = fresh[t] \cup (created + 1)..created'
                    \cup {i \in Records :
                            health'[i].total_failures > health[i].total_failures}
    BY <1>2 DEF Observe
  <2>2. \A n \in Provider : record'[n] \in {record[n], NoRecord} \cup fresh'[t]
    <3>1. created \in Nat
      BY BoundAssumption DEF TypeOK
    <3>2. created' = created + 1 => created' \in fresh'[t]
      BY <2>1, <3>1
    <3> QED
      BY <3>1, <3>2, RegistrySteps DEF registry
  <2>3. ASSUME NEW i \in Records, Excused(t, i)  PROVE Excused(t, i)'
    <3>1. CASE i \in fresh[t]
      BY <2>1, <3>1 DEF Excused
    <3>2. CASE i = NoRecord
      BY <3>2 DEF Excused, NoRecord
    <3>3. CASE IsHealthy(health[i])
      <4>1. health[i] \in HealthRecord /\ Updated(i)
        BY HealthSteps DEF TypeOK
      <4>2. CASE \E d \in Int : health'[i] = RecordFailure(health[i], d)
        <5>1. health'[i].total_failures > health[i].total_failures
          BY <4>1, <4>2 DEF RecordFailure, Health, HealthRecord
        <5> QED
          BY <2>1, <5>1 DEF Excused
      <4>3. CASE health'[i] \in {health[i], RecordSuccess(health[i]),
                                 Reset(health[i]), Elapse(health[i]), NewHealth}
        <5>1. health'[i].cooldown <= 0
          BY <3>3, <4>1, <4>3
             DEF IsHealthy, RecordSuccess, Reset, Elapse, NewHealth, Health,
                 HealthRecord
        <5> QED
          BY <5>1 DEF Excused, IsHealthy
      <4> QED
        BY <4>1, <4>2, <4>3 DEF Updated
    <3> QED
      BY <2>3, <3>1, <3>2, <3>3 DEF Excused
  <2>4. ASSUME NEW n \in Provider, Excused(t, record[n])
        PROVE  Excused(t, record[n])'
    <3>1. CASE record'[n] \in fresh'[t] \/ record'[n] = NoRecord
      BY <3>1 DEF Excused
    <3>2. CASE record'[n] = record[n] /\ record[n] # NoRecord
      <4>1. record[n] \in Records
        BY <3>2, BoundAssumption DEF TypeOK, Records, NoRecord
      <4> QED
        BY <2>3, <2>4, <3>2, <4>1 DEF Excused
    <3> QED
      BY <2>2, <3>1, <3>2
  <2> QED
    BY <2>1, <2>2, <2>3, <2>4
<1> QED
  BY <1>1, <1>2, Observed

\* What a step does to the names a call has let through the filter, and how
\* a provider comes to be called: by invoke, on the record it has just looked
\* up, or by a cascade, on the record it has just found healthy.
Filters(c, d) ==
    /\ d.pc = "probe" =>
          \/ c.pc = "probe" /\ d.todo = c.todo /\ d.held = c.held
          \/ /\ d.todo # <<>>
             /\ d.held = record[Head(d.todo)]
             /\ UNCHANGED registry
    /\ \/ d.healthy \in {c.healthy, <<>>}
       \/ /\ c.pc = "probe"
          /\ c.held = NoRecord \/ IsHealthy(health[c.held])
          /\ d.healthy = Append(c.healthy, Head(c.todo))
    /\ d.pc \in {"lookup", "lookupHealth"} =>
          \/ c.pc \in {"lookup", "lookupHealth"} /\ d.chosen = c.chosen
          \/ \E k \in DOMAIN c.healthy : d.chosen = c.healthy[k]
    /\ d.pc = "calling" /\ c.pc # "calling" =>
          \/ c.pc = "lookupHealth" /\ d.held = record[c.chosen]
          \/ /\ d.held = c.held
             /\ c.held = NoRecord \/ IsHealthy(health[c.held])

\* A step of one thread leaves the calls of the others alone.
LEMMA BecomeCall ==
    ASSUME TypeOK, NEW t \in Thread, NEW c, Become(t, c)
    PROVE  call'[t] = c /\ \A u \in Thread : u # t => call'[u] = call[u]
  BY DEF TypeOK, Become

\* Returning and going on to the next attempt leave the filter empty or as is.
LEMMA LeavesFilter ==
    ASSUME NEW c \in CallRecord, NEW s \in Status
    PROVE  /\ Returned(c, s).pc = "returned" /\ Returned(c, s).healthy = <<>>
           /\ Filters(c, Returned(c, s))
           /\ c.todo # <<>> => Filters(c, NextAttempt(c, s))
<1>1. ASSUME NEW e \in CallRecord
      PROVE  Returned(e, s).pc = "returned" /\ Returned(e, s).healthy = <<>>
  BY <1>1, IdleType DEF Returned, CallRecord, Idle
<1>2. Filters(c, Returned(c, s))
  BY <1>1 DEF Filters
<1>3. CASE s = "SUCCESS" /\ c.todo # <<>>
  <2>1. [c EXCEPT !.chosen = Head(c.todo)] \in CallRecord
    <3> DEFINE n == Head(c.todo)
    <3>1. n \in Provider
      BY <1>3, Fields
    <3> HIDE DEF n
    <3> QED  BY <3>1 DEF CallRecord, n
  <2> QED
    BY <1>1, <1>3, <2>1 DEF NextAttempt, Filters
<1>4. CASE s # "SUCCESS" /\ c.todo # <<>>
  <2> DEFINE rest == Tail(c.todo)
             tried == Append(c.attempts, s)
  <2> HIDE DEF rest, tried
  <2>1. NextAttempt(c, s) =
          [c EXCEPT !.pc = "attempt", !.todo = rest, !.held = NoRecord,
                    !.streak = 0, !.attempts = tried]
    BY <1>4 DEF NextAttempt, rest, tried
  <2>2. /\ NextAttempt(c, s).pc = "attempt"
        /\ NextAttempt(c, s).healthy = c.healthy
    BY <2>1 DEF CallRecord
  <2> QED
    BY <1>1, <1>2, <2>2 DEF Filters
<1> QED
  BY <1>1, <1>2, <1>3, <1>4

\* Each step of a call, through the filter.
LEMMA OwnFilters ==
    ASSUME TypeOK, NEW t \in Thread, Step(t)
    PROVE  Filters(call[t], call'[t])
<1> DEFINE c == call[t]
<1>1. c \in CallRecord /\ WellFormed(c) /\ c.status \in Status
  BY CallType, Fields
<1>2. ASSUME NEW d, Become(t, d), Filters(c, d)  PROVE Filters(c, call'[t])
  BY <1>2, BecomeCall
<1>3. ASSUME NEW s \in Status, Become(t, Returned(c, s))
      PROVE  Filters(c, call'[t])
  BY <1>1, <1>3, <1>2, LeavesFilter
<1>4. ASSUME NEW s \in Status, c.todo # <<>>, Become(t, NextAttempt(c, s))
      PROVE  Filters(c, call'[t])
  BY <1>1, <1>4, <1>2, LeavesFilter
<1>5. "SUCCESS" \in Status /\ "FAILED" \in Status /\ "RAISED" \in Status
      /\ "NO_CANDIDATES" \in Status /\ "ALL_UNHEALTHY" \in Status
      /\ "none" \in Status
  BY DEF Status
<1>6. ASSUME NEW d, d.healthy = c.healthy,
             d.pc \notin {"probe", "lookup", "lookupHealth", "calling"}
      PROVE  Filters(c, d)
  BY <1>6 DEF Filters
<1>7. CASE Collect(t)
  <2> DEFINE n == Head(c.todo)
             rest == Tail(c.todo)
             pool == IF Registered(n) /\ n \in c.req.accepts
                     THEN Append(c.pool, n) ELSE c.pool
             rejected == IF Registered(n) /\ n \notin c.req.accepts
                         THEN {n} ELSE {}
             skipped == c.skipped \cup rejected
             pc == IF rest = <<>> THEN "rescan" ELSE c.pc
             todo == IF rest = <<>> THEN c.req.names ELSE rest
             d == [c EXCEPT !.pool = pool, !.skipped = skipped,
                            !.pc = pc, !.todo = todo]
  <2>1. Become(t, d) /\ pc \in {"collect", "rescan"}
    BY <1>7 DEF Collect, Reads
  <2>2. d.healthy = c.healthy /\ d.pc = pc
    <3> HIDE DEF c, pool, skipped, pc, todo
    <3> QED  BY <1>1 DEF CallRecord
  <2> QED
    <3> HIDE DEF d, pc
    <3> QED  BY <1>2, <1>6, <2>1, <2>2
<1>8. CASE Rescan(t)
  <2> DEFINE n == Head(c.todo)
             rest == Tail(c.todo)
             skipped == IF Registered(n) THEN c.skipped
                        ELSE c.skipped \cup {n}
             pc == IF rest = <<>> THEN "peek" ELSE c.pc
             todo == IF rest = <<>> THEN c.pool ELSE rest
             d == [c EXCEPT !.skipped = skipped, !.pc = pc, !.todo = todo]
  <2>1. Become(t, d) /\ pc \in {"peek", "rescan"}
    BY <1>8 DEF Rescan, Reads
  <2>2. d.healthy = c.healthy /\ d.pc = pc
    <3> HIDE DEF c, skipped, pc, todo
    <3> QED  BY <1>1 DEF CallRecord
  <2> QED
    <3> HIDE DEF d, pc
    <3> QED  BY <1>2, <1>6, <2>1, <2>2
<1>9. CASE Peek(t)
  <2> DEFINE i == record[Head(c.todo)]
             d == [c EXCEPT !.pc = "probe", !.held = i]
  <2>1. Become(t, d) /\ UNCHANGED registry /\ c.todo # <<>>
    BY <1>9 DEF Peek, Reads
  <2>2. d.pc = "probe" /\ d.healthy = c.healthy /\ d.todo = c.todo /\ d.held = i
    <3> HIDE DEF c, i
    <3> QED  BY <1>1 DEF CallRecord
  <2>3. Filters(c, d)
    <3> HIDE DEF d
    <3> QED  BY <2>1, <2>2 DEF Filters
  <2> QED
    <3> HIDE DEF d
    <3> QED  BY <1>2, <2>1, <2>3
<1>10. CASE Probe(t)
  <2> DEFINE n == Head(c.todo)
             rest == Tail(c.todo)
             pass == c.held = NoRecord \/ IsHealthy(health[c.held])
             healthy == IF pass THEN Append(c.healthy, n) ELSE c.healthy
             skipped == IF pass THEN c.skipped ELSE c.skipped \cup {n}
             d == [c EXCEPT !.pc = "peek", !.todo = rest, !.held = NoRecord,
                            !.healthy = healthy, !.skipped = skipped]
  <2>1. Become(t, d) /\ c.pc = "probe"
    BY <1>10 DEF Probe, Reads
  <2>2. d.pc = "peek" /\ d.healthy = healthy
    <3> HIDE DEF c, rest, healthy, skipped
    <3> QED  BY <1>1 DEF CallRecord
  <2>3. Filters(c, d)
    <3> HIDE DEF d, c
    <3> QED  BY <2>1, <2>2 DEF Filters
  <2> QED
    <3> HIDE DEF d
    <3> QED  BY <1>2, <2>1, <2>3
<1>11. CASE Lookup(t)
  <2> DEFINE d == [c EXCEPT !.pc = "lookupHealth"]
  <2>1. /\ c.pc = "lookup"
        /\ Become(t, d) \/ Become(t, Returned(c, c.status))
    BY <1>11 DEF Lookup, Reads
  <2>2. d.pc = "lookupHealth" /\ d.healthy = c.healthy /\ d.chosen = c.chosen
    <3> HIDE DEF c
    <3> QED  BY <1>1 DEF CallRecord
  <2>3. Filters(c, d)
    <3> HIDE DEF d, c
    <3> QED  BY <2>1, <2>2 DEF Filters
  <2> QED
    <3> HIDE DEF d
    <3> QED  BY <1>1, <1>2, <1>3, <2>1, <2>3
<1>12. CASE LookupHealth(t)
  <2> DEFINE i == record[c.chosen]
             d == [c EXCEPT !.pc = "calling", !.held = i]
  <2>1. Become(t, d) \/ Become(t, Returned(c, c.status))
    BY <1>12 DEF LookupHealth, Reads
  <2>2. d.pc = "calling" /\ d.healthy = c.healthy /\ d.held = i
    <3> HIDE DEF c, i
    <3> QED  BY <1>1 DEF CallRecord
  <2>3. Filters(c, d)
    <3> HIDE DEF d
    <3> QED  BY <1>12, <2>2 DEF Filters, LookupHealth
  <2> QED
    <3> HIDE DEF d
    <3> QED  BY <1>1, <1>2, <1>3, <2>1, <2>3
<1>13. CASE Attempt(t)
  <2> DEFINE d == [c EXCEPT !.pc = "attemptPeek"]
  <2>1. \/ Become(t, d)
        \/ c.todo # <<>> /\ Become(t, NextAttempt(c, "NO_CANDIDATES"))
        \/ Become(t, Returned(c, Verdict(c.attempts)))
    BY <1>13 DEF Attempt, Reads
  <2>2. d.pc = "attemptPeek" /\ d.healthy = c.healthy
    <3> HIDE DEF c
    <3> QED  BY <1>1 DEF CallRecord
  <2>3. Verdict(c.attempts) \in Status
    BY DEF Verdict, Status
  <2> QED
    <3> HIDE DEF d
    <3> QED  BY <1>2, <1>3, <1>4, <1>5, <1>6, <2>1, <2>2, <2>3
<1>14. CASE AttemptPeek(t)
  <2> DEFINE i == record[Head(c.todo)]
             d == [c EXCEPT !.pc = "attemptProbe", !.held = i]
  <2>1. Become(t, d)
    BY <1>14 DEF AttemptPeek, Reads
  <2>2. d.pc = "attemptProbe" /\ d.healthy = c.healthy
    <3> HIDE DEF c, i
    <3> QED  BY <1>1 DEF CallRecord
  <2> QED
    <3> HIDE DEF d
    <3> QED  BY <1>2, <1>6, <2>1, <2>2
<1>15. CASE AttemptProbe(t)
  <2> DEFINE d == [c EXCEPT !.pc = "calling"]
  <2>1. \/ /\ Become(t, d)
           /\ c.held = NoRecord \/ IsHealthy(health[c.held])
        \/ Become(t, NextAttempt(c, "ALL_UNHEALTHY"))
    BY <1>15 DEF AttemptProbe, Reads
  <2>2. d.pc = "calling" /\ d.healthy = c.healthy /\ d.held = c.held
    <3> HIDE DEF c
    <3> QED  BY <1>1 DEF CallRecord
  <2>3. c.todo # <<>>
    BY <1>1, <1>15 DEF AttemptProbe, WellFormed
  <2>4. c.held = NoRecord \/ IsHealthy(health[c.held]) => Filters(c, d)
    <3> HIDE DEF d
    <3> QED  BY <2>2 DEF Filters
  <2> QED
    <3> HIDE DEF d
    <3> QED  BY <1>2, <1>4, <1>5, <2>1, <2>3, <2>4
<1>16. CASE Succeed(t)
  <2>1. Become(t, Returned(c, c.status)) \/ Become(t, NextAttempt(c, "SUCCESS"))
    BY <1>16 DEF Succeed
  <2>2. c.todo # <<>>
    BY <1>1, <1>16 DEF Succeed, WellFormed
  <2> QED
    BY <1>1, <1>3, <1>4, <1>5, <2>1, <2>2
<1>17. CASE FailInvoke(t)
  <2> DEFINE r == Returned(c, c.status)
             d == [r EXCEPT !.ok = FALSE]
  <2>1. Become(t, d)
    BY <1>17 DEF FailInvoke
  <2>2. r \in CallRecord /\ r.pc = "returned" /\ r.healthy = <<>>
    BY <1>1, ReturnedType, LeavesFilter
  <2>3. d.pc = "returned" /\ d.healthy = <<>>
    <3> HIDE DEF r
    <3> QED  BY <2>2 DEF CallRecord
  <2>4. Filters(c, d)
    <3> HIDE DEF d
    <3> QED  BY <2>3 DEF Filters
  <2> QED
    <3> HIDE DEF d
    <3> QED  BY <1>2, <2>1, <2>4
<1>18. CASE FailAttempt(t)
  <2> DEFINE d == [c EXCEPT !.pc = "penaltyPeek"]
  <2>1. Become(t, d)
    BY <1>18 DEF FailAttempt
  <2>2. d.pc = "penaltyPeek" /\ d.healthy = c.healthy
    <3> HIDE DEF c
    <3> QED  BY <1>1 DEF CallRecord
  <2> QED
    <3> HIDE DEF d
    <3> QED  BY <1>2, <1>6, <2>1, <2>2
<1>19. CASE PenaltyPeek(t)
  <2> DEFINE i == record[Head(c.todo)]
             d == [c EXCEPT !.pc = "penaltyRead", !.held = i]
  <2>1. Become(t, d) \/ Become(t, NextAttempt(c, "FAILED"))
    BY <1>19 DEF PenaltyPeek, Reads
  <2>2. d.pc = "penaltyRead" /\ d.healthy = c.healthy
    <3> HIDE DEF c, i
    <3> QED  BY <1>1 DEF CallRecord
  <2>3. c.todo # <<>>
    BY <1>1, <1>19 DEF PenaltyPeek, WellFormed
  <2> QED
    <3> HIDE DEF d
    <3> QED  BY <1>2, <1>4, <1>5, <1>6, <2>1, <2>2, <2>3
<1>20. CASE PenaltyRead(t)
  <2> DEFINE n == health[c.held].consecutive_failures
             d == [c EXCEPT !.pc = "penalise", !.streak = n]
  <2>1. Become(t, d) \/ Become(t, Returned(c, "RAISED"))
    BY <1>20 DEF PenaltyRead, Reads
  <2>2. d.pc = "penalise" /\ d.healthy = c.healthy
    <3> HIDE DEF c, n
    <3> QED  BY <1>1 DEF CallRecord
  <2> QED
    <3> HIDE DEF d
    <3> QED  BY <1>2, <1>3, <1>5, <1>6, <2>1, <2>2
<1>21. CASE Penalise(t)
  <2>1. Become(t, NextAttempt(c, "FAILED")) /\ c.todo # <<>>
    BY <1>1, <1>21 DEF Penalise, WellFormed
  <2> QED
    BY <1>4, <1>5, <2>1
<1>22. CASE ResetOne(t)
  <2>1. CASE Reads(t, Returned(c, "none"))
    BY <1>3, <1>5, <2>1 DEF Reads
  <2>2. ASSUME NEW i \in c.targets, c.pc = "resetting",
               Become(t, [c EXCEPT !.targets = @ \ {i}])
        PROVE  Filters(c, call'[t])
    <3> DEFINE rest == c.targets \ {i}
               d == [c EXCEPT !.targets = rest]
    <3>1. d.pc = "resetting" /\ d.healthy = c.healthy
      <4> HIDE DEF c, rest
      <4> QED  BY <1>1, <2>2 DEF CallRecord
    <3>2. Become(t, d)
      BY <2>2
    <3> QED
      <4> HIDE DEF d
      <4> QED  BY <1>2, <1>6, <3>1, <3>2
  <2> QED
    BY <1>22, <2>1, <2>2 DEF ResetOne
<1>23. CASE Return(t)
  <2>1. Become(t, Idle) /\ Idle.healthy = <<>> /\ Idle.pc = "idle"
    BY <1>23 DEF Return, Reads, Idle
  <2> QED
    BY <1>2, <2>1 DEF Filters
<1>24. CASE Pick(t)
  <2>1. ASSUME NEW k \in DOMAIN c.healthy,
               LET d == [c EXCEPT !.status = "SUCCESS", !.chosen = c.healthy[k]]
               IN Become(t, IF c.req.kind = "route" THEN Returned(d, "SUCCESS")
                            ELSE [d EXCEPT !.pc = "lookup",
                                           !.todo = <<c.healthy[k]>>,
                                           !.pool = <<>>, !.healthy = <<>>])
        PROVE  Filters(c, call'[t])
    <3> DEFINE n == c.healthy[k]
               d == [c EXCEPT !.status = "SUCCESS", !.chosen = n]
               one == <<n>>
               e == [d EXCEPT !.pc = "lookup", !.todo = one, !.pool = <<>>,
                              !.healthy = <<>>]
    <3>1. n \in Provider
      BY <1>1, <2>1, Fields
    <3>2. d \in CallRecord /\ d.chosen = n
      <4> HIDE DEF c, n
      <4> QED  BY <1>1, <1>5, <3>1 DEF CallRecord
    <3>3. e.pc = "lookup" /\ e.healthy = <<>> /\ e.chosen = n
      <4> HIDE DEF d, n, one
      <4> QED  BY <3>2 DEF CallRecord
    <3>4. Filters(c, e)
      <4> HIDE DEF d, e
      <4> QED  BY <2>1, <3>3 DEF Filters
    <3>5. Filters(c, Returned(d, "SUCCESS"))
      <4> HIDE DEF d
      <4> QED  BY <1>5, <3>2, LeavesFilter DEF Filters
    <3>6. Become(t, Returned(d, "SUCCESS")) \/ Become(t, e)
      BY <2>1
    <3> QED
      <4> HIDE DEF d, e
      <4> QED  BY <1>2, <3>4, <3>5, <3>6
  <2> QED
    BY <1>3, <1>5, <1>24, <2>1 DEF Pick, Reads
<1> QED
  BY <1>7, <1>8, <1>9, <1>10, <1>11, <1>12, <1>13, <1>14, <1>15, <1>16, <1>17,
     <1>18, <1>19, <1>20, <1>21, <1>22, <1>23, <1>24 DEF Step

\* Every step, of this thread or another, leaves t's call as it is or moves
\* it the way the health filter allows.
LEMMA AllFilters ==
    ASSUME TypeOK, [Next]_vars, NEW t \in Thread
    PROVE  Filters(call[t], call'[t])
<1>1. Filters(call[t], call[t])
  BY DEF Filters
<1>2. ASSUME NEW r \in Request, NEW q, Starts(t, q), q.healthy = <<>>,
             q.pc \notin {"probe", "lookup", "lookupHealth", "calling"}
      PROVE  Filters(call[t], call'[t])
  BY <1>2, BecomeCall DEF Starts, Filters
<1>3. ASSUME Start(t)  PROVE Filters(call[t], call'[t])
  <2>1. ASSUME NEW r \in Request
        PROVE  Begun(r) \in CallRecord /\ Begun(r).healthy = <<>>
    BY BegunType, IdleType DEF Begun, Idle, CallRecord
  <2>2. ASSUME NEW r \in Request, NEW q, NEW s,
               Starts(t, [Begun(r) EXCEPT !.pc = "peek", !.pool = q, !.todo = q,
                                          !.skipped = s])
        PROVE  Filters(call[t], call'[t])
    <3> DEFINE b == Begun(r)
               d == [b EXCEPT !.pc = "peek", !.pool = q, !.todo = q,
                              !.skipped = s]
    <3>1. d.pc = "peek" /\ d.healthy = <<>>
      <4>1. b \in CallRecord /\ b.healthy = <<>>
        BY <2>1
      <4> HIDE DEF b
      <4> QED  BY <4>1 DEF CallRecord
    <3>2. Starts(t, d)
      BY <2>2
    <3> QED
      <4> HIDE DEF d
      <4> QED  BY <1>2, <3>1, <3>2
  <2>3. ASSUME NEW r \in Request, NEW pc \in {"peek", "collect", "attempt"},
               Starts(t, [Begun(r) EXCEPT !.pc = pc])
        PROVE  Filters(call[t], call'[t])
    <3> DEFINE b == Begun(r)
               d == [b EXCEPT !.pc = pc]
    <3>1. d.pc = pc /\ d.healthy = <<>>
      <4>1. b \in CallRecord /\ b.healthy = <<>>
        BY <2>1
      <4> HIDE DEF b
      <4> QED  BY <4>1 DEF CallRecord
    <3>2. Starts(t, d)
      BY <2>3
    <3> QED
      <4> HIDE DEF d
      <4> QED  BY <1>2, <2>3, <3>1, <3>2
  <2>4. ASSUME NEW r \in Request, NEW q,
               Starts(t, [Begun(r) EXCEPT !.pc = "resetting", !.targets = q])
        PROVE  Filters(call[t], call'[t])
    <3> DEFINE b == Begun(r)
               d == [b EXCEPT !.pc = "resetting", !.targets = q]
    <3>1. d.pc = "resetting" /\ d.healthy = <<>>
      <4>1. b \in CallRecord /\ b.healthy = <<>>
        BY <2>1
      <4> HIDE DEF b
      <4> QED  BY <4>1 DEF CallRecord
    <3>2. Starts(t, d)
      BY <2>4
    <3> QED
      <4> HIDE DEF d
      <4> QED  BY <1>2, <3>1, <3>2
  <2> QED
    BY <1>3, <2>2, <2>3, <2>4
       DEF Start, StartOverAll, StartOverNames, StartCascade, StartReset
<1>4. ASSUME NEW u \in Thread, u # t, Start(u) \/ Step(u)
      PROVE  call'[t] = call[t]
  <2>1. ASSUME NEW d, Become(u, d)  PROVE call'[t] = call[t]
    BY <1>4, <2>1, BecomeCall
  <2> QED
    BY <1>4, <2>1
       DEF Start, StartOverAll, StartOverNames, StartCascade, StartReset, Starts,
           Step, Reads, Collect, Rescan, Peek, Probe, Pick, Lookup,
           LookupHealth, Attempt, AttemptPeek, AttemptProbe, Succeed,
           FailInvoke, FailAttempt, PenaltyPeek, PenaltyRead, Penalise,
           ResetOne, Return
<1>5. ASSUME NEW n \in Provider, Register(n) \/ Unregister(n)
      PROVE  call'[t] = call[t]
  BY <1>5 DEF Register, Unregister
<1>6. CASE Tick \/ UNCHANGED vars
  BY <1>1, <1>6 DEF Tick, vars
<1> QED
  BY <1>1, <1>3, <1>4, <1>5, <1>6, OwnFilters DEF Next

\* Excused(t, i)' for an i that may itself be a primed expression.
ExcusedNext(t, i) == i = NoRecord \/ IsHealthy(health'[i]) \/ i \in fresh'[t]

\* The filter's invariant is preserved: a name just passed stands for the
\* record that was healthy, or for a newer one, and Stable does the rest.
LEMMA ScreenedNext == TypeOK /\ Screened /\ [Next]_vars => Screened'
<1> SUFFICES ASSUME TypeOK, Screened, [Next]_vars, NEW t \in Thread
             PROVE  PassedFilter(t)'
  BY DEF Screened
<1> DEFINE c == call[t]
           d == call'[t]
<1> SUFFICES /\ d.pc = "probe" => record'[Head(d.todo)]
                                    \in {NoRecord, d.held} \cup fresh'[t]
             /\ \A k \in DOMAIN d.healthy :
                   ExcusedNext(t, record'[d.healthy[k]])
             /\ d.pc \in {"lookup", "lookupHealth"} =>
                   ExcusedNext(t, record'[d.chosen])
  BY DEF PassedFilter, Excused, ExcusedNext, IsHealthy
<1>1. /\ c \in CallRecord /\ WellFormed(c) /\ PassedFilter(t)
      /\ d \in CallRecord /\ WellFormed(d)
  <2>1. TypeOK'
    BY TypeNext
  <2> QED
    BY <2>1 DEF TypeOK, Screened, WellFormed
<1>2. Filters(c, d)
  BY AllFilters
<1>3. CASE ~Busy(t) \/ ~Busy(t)'
  <2>1. d.healthy = <<>>
    BY <1>1, <1>2, <1>3 DEF WellFormed, Busy, Filters
  <2>2. d.pc \notin {"lookup", "lookupHealth"}
    BY <1>1, <1>2, <1>3 DEF WellFormed, Busy, Filters
  <2>3. d.pc = "probe" => record'[Head(d.todo)] = d.held
    BY <1>2, <1>3 DEF Busy, Filters, registry
  <2> QED
    BY <2>1, <2>2, <2>3
<1>4. CASE Busy(t) /\ Busy(t)'
  <2>1. /\ \A i \in fresh[t] : i \in fresh'[t]
        /\ \A n \in Provider :
             record'[n] \in {record[n], NoRecord} \cup fresh'[t]
        /\ \A i \in Records : Excused(t, i) => ExcusedNext(t, i)
        /\ \A n \in Provider :
             Excused(t, record[n]) => ExcusedNext(t, record'[n])
    BY <1>4, Stable DEF Excused, ExcusedNext, IsHealthy
  <2>2. ASSUME d.pc = "probe"
        PROVE  record'[Head(d.todo)] \in {NoRecord, d.held} \cup fresh'[t]
    <3>1. d.todo # <<>> /\ Head(d.todo) \in Provider
      <4> HIDE DEF d
      <4> QED  BY <1>1, <2>2, Fields DEF WellFormed
    <3>2. CASE c.pc = "probe" /\ d.todo = c.todo /\ d.held = c.held
      <4>1. record[Head(d.todo)] \in {NoRecord, d.held} \cup fresh[t]
        BY <1>1, <3>2 DEF PassedFilter
      <4> QED
        <5> HIDE DEF c, d
        <5> QED  BY <2>1, <3>1, <4>1
    <3>3. CASE d.held = record[Head(d.todo)] /\ UNCHANGED registry
      BY <3>3 DEF registry
    <3> QED
      BY <1>2, <2>2, <3>2, <3>3 DEF Filters
  <2>3. ASSUME NEW k \in DOMAIN d.healthy
        PROVE  ExcusedNext(t, record'[d.healthy[k]])
    <3>1. CASE d.healthy = c.healthy
      <4>1. c.healthy[k] \in Provider /\ Excused(t, record[c.healthy[k]])
        BY <1>1, <2>3, <3>1, Fields DEF PassedFilter
      <4> QED
        <5> HIDE DEF c, d
        <5> QED  BY <2>1, <3>1, <4>1
    <3>2. CASE d.healthy = <<>>
      BY <2>3, <3>2
    <3>3. CASE /\ c.pc = "probe"
               /\ c.held = NoRecord \/ IsHealthy(health[c.held])
               /\ d.healthy = Append(c.healthy, Head(c.todo))
      <4> DEFINE n == Head(c.todo)
      <4>1. n \in Provider /\ c.healthy \in Seq(Provider)
        <5> HIDE DEF c
        <5> QED  BY <1>1, <3>3, Fields DEF WellFormed
      <4>2. Excused(t, record[n])
        BY <1>1, <3>3 DEF PassedFilter, Excused
      <4>3. CASE k \in DOMAIN c.healthy
        <5>1. d.healthy[k] = c.healthy[k] /\ c.healthy[k] \in Provider
          <6> HIDE DEF c, d, n
          <6> QED  BY <3>3, <4>1, <4>3 DEF n
        <5>2. Excused(t, record[c.healthy[k]])
          BY <1>1, <4>3 DEF PassedFilter
        <5> QED
          <6> HIDE DEF c, d
          <6> QED  BY <2>1, <5>1, <5>2
      <4>4. CASE k \notin DOMAIN c.healthy
        <5>1. d.healthy[k] = n
          <6> HIDE DEF c, d, n
          <6> QED  BY <2>3, <3>3, <4>1, <4>4 DEF n
        <5> QED
          <6> HIDE DEF c, d, n
          <6> QED  BY <2>1, <4>1, <4>2, <5>1
      <4> QED
        BY <4>3, <4>4
    <3> QED
      BY <1>2, <3>1, <3>2, <3>3 DEF Filters
  <2>4. ASSUME d.pc \in {"lookup", "lookupHealth"}
        PROVE  ExcusedNext(t, record'[d.chosen])
    <3>1. d.chosen \in Provider
      BY <1>1, <2>4 DEF WellFormed
    <3>2. Excused(t, record[d.chosen])
      BY <1>1, <1>2, <2>4 DEF Filters, PassedFilter
    <3> QED
      <4> HIDE DEF d
      <4> QED  BY <2>1, <3>1, <3>2
  <2> QED
    BY <2>2, <2>3, <2>4
<1> QED
  BY <1>3, <1>4

\* No call is in progress initially, so nothing has been let through.
LEMMA ScreenedInit == Init => Screened
<1>1. Idle.pc = "idle" /\ Idle.healthy = <<>>
  BY DEF Idle
<1> QED
  BY <1>1 DEF Init, Screened, PassedFilter

\* Every name that _decide lets through its health filter stands for a record
\* that is out of cooldown, or whose cooldown is newer than the call, until
\* invoke looks it up again.
THEOREM ScreenedCorrect == Spec => []Screened
  BY ScreenedInit, ScreenedNext, TypeCorrect, PTL DEF Spec

\* No call of invoke or Cascade.run goes through a cooldown that was open
\* when it started, for any number of threads, providers and calls.
THEOREM OldCooldownsRespected == Spec => NoCallThroughOldCooldown
<1>1. ASSUME TypeOK, Screened, [Next]_vars, NEW t \in Thread, EntersCall(t),
             call'[t].held # NoRecord, ~IsHealthy(health[call'[t].held])
      PROVE  call'[t].held \in fresh[t]
  BY <1>1, AllFilters DEF EntersCall, Filters, Screened, PassedFilter, Excused
<1>2. TypeOK /\ Screened /\ [Next]_vars =>
        [\A t \in Thread :
            EntersCall(t) /\ call'[t].held # NoRecord
                  /\ ~IsHealthy(health[call'[t].held])
               => call'[t].held \in fresh[t]]_vars
  BY <1>1
<1> QED
  BY <1>2, TypeCorrect, ScreenedCorrect, PTL DEF Spec, NoCallThroughOldCooldown

-----------------------------------------------------------------------------
(* The ledger                                                              *)

\* No two names share a record.
Numbered ==
    \A m, n \in Provider : Registered(m) /\ record[m] = record[n] => m = n

RegisteredNames == {n \in Provider : Registered(n)}

\* No provider was ever unregistered.
NoneLeft == created = Cardinality(RegisteredNames)

\* The outcome of this call of n is known and not yet on a record.
Owes(c, n) ==
    /\ c.pc \in {"penaltyPeek", "penaltyRead", "penalise"}
    /\ Head(c.todo) = n

\* From the look-up of a provider to the record of its outcome a call works
\* for one registered name and on that name's record.
Steadfast(c) ==
    /\ c.pc \in {"attemptPeek", "attemptProbe", "calling", "penaltyPeek",
                 "penaltyRead", "penalise"} => Registered(Head(c.todo))
    /\ c.pc \in {"attemptProbe", "calling", "penaltyRead", "penalise"} =>
          c.held = record[Head(c.todo)]
    /\ c.pc \in {"lookup", "lookupHealth"} => Head(c.todo) = c.chosen
    /\ c.pc = "lookupHealth" => Registered(c.chosen)
    /\ c.pc = "calling" /\ c.req.kind = "invoke" => Head(c.todo) = c.chosen

\* The books of one name.
Booked(n) ==
    /\ IsFiniteSet(Unrecorded(n))
    /\ Registered(n) =>
          health[record[n]].total_calls + Cardinality(Unrecorded(n)) = ended[n]
    /\ ~Registered(n) => ended[n] = 0 /\ Unrecorded(n) = {}

Ledger ==
    /\ Numbered
    /\ NoneLeft => /\ \A t \in Thread : Steadfast(call[t])
                   /\ \A n \in Provider : Booked(n)

\* No streak of failures is so long that float(2 ** n) overflows.
NoOverflow == \A i \in Records : health[i].consecutive_failures < OverflowAt

Debt(c, n) == IF Owes(c, n) THEN 1 ELSE 0

\* A step of thread t balances: what it adds to the answers of n it adds to
\* the record of n or to the debt of the call, and the call goes on with a
\* registered name and its record.
Balances(t) ==
    /\ Steadfast(call[t])'
    /\ \A n \in Provider : Registered(n) =>
          health'[record[n]].total_calls + Debt(call'[t], n) + ended[n] =
          health[record[n]].total_calls + Debt(call[t], n) + ended'[n]
    /\ \A n \in Provider : ~Registered(n) =>
          ended'[n] = ended[n] /\ ~Owes(call'[t], n)

\* A record number is the number of a record.
LEMMA RecordType ==
    ASSUME TypeOK, NEW n \in Provider, Registered(n)
    PROVE  record[n] \in Records /\ health[record[n]].total_calls \in Nat
<1>1. record[n] \in Records
  BY BoundAssumption DEF TypeOK, Records, Registered, NoRecord
<1> QED
  BY <1>1 DEF TypeOK, HealthRecord

\* A step that only reads balances if it leaves the call's debt as it is.
LEMMA ReadsBalance ==
    ASSUME TypeOK, NEW t \in Thread, NEW d, Reads(t, d), Steadfast(call[t]),
           Steadfast(d), \A n \in Provider : Owes(d, n) <=> Owes(call[t], n)
    PROVE  Balances(t)
<1>1. call'[t] = d /\ UNCHANGED <<record, health, ended>>
  BY BecomeCall DEF Reads, registry
<1>2. Steadfast(call[t])'
  BY <1>1 DEF Steadfast, Registered
<1>3. \A n \in Provider : Debt(call'[t], n) = Debt(call[t], n)
  BY <1>1 DEF Debt
<1>4. \A n \in Provider : Owes(call[t], n) => Registered(n)
  BY DEF Owes, Steadfast
<1> QED
  BY <1>1, <1>2, <1>3, <1>4 DEF Balances

\* Where a call has no provider at hand there is nothing to hold on to.
Free(c) ==
    c.pc \notin {"attemptPeek", "attemptProbe", "calling", "penaltyPeek",
                 "penaltyRead", "penalise", "lookup", "lookupHealth"}

\* A call without a provider is steadfast and owes nothing.
LEMMA FreeIs ==
    ASSUME NEW c, Free(c)
    PROVE  Steadfast(c) /\ \A n \in Provider : ~Owes(c, n)
  BY DEF Free, Steadfast, Owes

\* A call that has returned, or goes on with the next attempt, is without.
LEMMA MovesOnFree ==
    ASSUME NEW c \in CallRecord, NEW s \in Status
    PROVE  /\ Free(Returned(c, s))
           /\ c.todo # <<>> => Free(NextAttempt(c, s))
<1>1. Free(Returned(c, s))
  BY LeavesFilter DEF Free
<1>2. CASE s = "SUCCESS" /\ c.todo # <<>>
  <2> DEFINE n == Head(c.todo)
             e == [c EXCEPT !.chosen = n]
  <2>1. n \in Provider
    BY <1>2, Fields
  <2>2. e \in CallRecord
    <3> HIDE DEF n
    <3> QED  BY <2>1 DEF CallRecord
  <2>3. Returned(e, s).pc = "returned"
    <3> HIDE DEF e
    <3> QED  BY <2>2, LeavesFilter
  <2>4. NextAttempt(c, s) = Returned(e, s)
    BY <1>2 DEF NextAttempt
  <2> QED
    BY <1>1, <2>3, <2>4 DEF Free
<1>3. CASE s # "SUCCESS"
  <2> DEFINE rest == Tail(c.todo)
             tried == Append(c.attempts, s)
  <2> HIDE DEF rest, tried
  <2>1. NextAttempt(c, s) =
          [c EXCEPT !.pc = "attempt", !.todo = rest, !.held = NoRecord,
                    !.streak = 0, !.attempts = tried]
    BY <1>3 DEF NextAttempt, rest, tried
  <2>2. NextAttempt(c, s).pc = "attempt"
    BY <2>1 DEF CallRecord
  <2> QED
    BY <1>1, <2>2 DEF Free
<1> QED
  BY <1>1, <1>2, <1>3

\* The steps of _decide and of a reset balance: they never touch the totals.
LEMMA DecideBalances ==
    ASSUME TypeOK, NEW t \in Thread, Steadfast(call[t]),
           Collect(t) \/ Rescan(t) \/ Peek(t) \/ Probe(t) \/ Pick(t)
              \/ Return(t)
    PROVE  Balances(t)
<1> DEFINE c == call[t]
<1>1. c \in CallRecord /\ WellFormed(c) /\ c.status \in Status
  BY CallType, Fields
<1>2. Free(c)
  BY DEF Collect, Rescan, Peek, Probe, Pick, Return, Free
<1>3. ASSUME NEW d, Reads(t, d), Free(d)  PROVE Balances(t)
  BY <1>2, <1>3, FreeIs, ReadsBalance
<1>4. ASSUME NEW s \in Status, Reads(t, Returned(c, s))  PROVE Balances(t)
  BY <1>1, <1>3, <1>4, MovesOnFree
<1>5. /\ "SUCCESS" \in Status /\ "NO_CANDIDATES" \in Status
      /\ "ALL_UNHEALTHY" \in Status
  BY DEF Status
<1>6. CASE Collect(t)
  <2> DEFINE n == Head(c.todo)
             rest == Tail(c.todo)
             pool == IF Registered(n) /\ n \in c.req.accepts
                     THEN Append(c.pool, n) ELSE c.pool
             rejected == IF Registered(n) /\ n \notin c.req.accepts
                         THEN {n} ELSE {}
             skipped == c.skipped \cup rejected
             pc == IF rest = <<>> THEN "rescan" ELSE c.pc
             todo == IF rest = <<>> THEN c.req.names ELSE rest
             d == [c EXCEPT !.pool = pool, !.skipped = skipped,
                            !.pc = pc, !.todo = todo]
  <2>1. Reads(t, d) /\ pc \in {"collect", "rescan"}
    BY <1>6 DEF Collect
  <2>2. d.pc = pc
    <3> HIDE DEF c, pool, skipped, pc, todo
    <3> QED  BY <1>1 DEF CallRecord
  <2> QED
    <3> HIDE DEF d, pc
    <3> QED  BY <1>3, <2>1, <2>2 DEF Free
<1>7. CASE Rescan(t)
  <2> DEFINE n == Head(c.todo)
             rest == Tail(c.todo)
             skipped == IF Registered(n) THEN c.skipped
                        ELSE c.skipped \cup {n}
             pc == IF rest = <<>> THEN "peek" ELSE c.pc
             todo == IF rest = <<>> THEN c.pool ELSE rest
             d == [c EXCEPT !.skipped = skipped, !.pc = pc, !.todo = todo]
  <2>1. Reads(t, d) /\ pc \in {"peek", "rescan"}
    BY <1>7 DEF Rescan
  <2>2. d.pc = pc
    <3> HIDE DEF c, skipped, pc, todo
    <3> QED  BY <1>1 DEF CallRecord
  <2> QED
    <3> HIDE DEF d, pc
    <3> QED  BY <1>3, <2>1, <2>2 DEF Free
<1>8. CASE Peek(t)
  <2> DEFINE i == record[Head(c.todo)]
             d == [c EXCEPT !.pc = "probe", !.held = i]
  <2>1. Reads(t, d)
    BY <1>8 DEF Peek
  <2>2. d.pc = "probe"
    <3> HIDE DEF c, i
    <3> QED  BY <1>1 DEF CallRecord
  <2> QED
    <3> HIDE DEF d
    <3> QED  BY <1>3, <2>1, <2>2 DEF Free
<1>9. CASE Probe(t)
  <2> DEFINE n == Head(c.todo)
             rest == Tail(c.todo)
             pass == c.held = NoRecord \/ IsHealthy(health[c.held])
             healthy == IF pass THEN Append(c.healthy, n) ELSE c.healthy
             skipped == IF pass THEN c.skipped ELSE c.skipped \cup {n}
             d == [c EXCEPT !.pc = "peek", !.todo = rest, !.held = NoRecord,
                            !.healthy = healthy, !.skipped = skipped]
  <2>1. Reads(t, d)
    BY <1>9 DEF Probe
  <2>2. d.pc = "peek"
    <3> HIDE DEF c, rest, healthy, skipped
    <3> QED  BY <1>1 DEF CallRecord
  <2> QED
    <3> HIDE DEF d
    <3> QED  BY <1>3, <2>1, <2>2 DEF Free
<1>10. ASSUME NEW k \in DOMAIN c.healthy,
              LET d == [c EXCEPT !.status = "SUCCESS", !.chosen = c.healthy[k]]
              IN Reads(t, IF c.req.kind = "route" THEN Returned(d, "SUCCESS")
                          ELSE [d EXCEPT !.pc = "lookup",
                                         !.todo = <<c.healthy[k]>>,
                                         !.pool = <<>>, !.healthy = <<>>])
       PROVE  Balances(t)
  <2> DEFINE n == c.healthy[k]
             d == [c EXCEPT !.status = "SUCCESS", !.chosen = n]
             one == <<n>>
             e == [d EXCEPT !.pc = "lookup", !.todo = one, !.pool = <<>>,
                            !.healthy = <<>>]
  <2>1. n \in Provider
    BY <1>1, <1>10, Fields
  <2>2. one \in Seq(Provider) /\ Head(one) = n
    <3> HIDE DEF n
    <3> QED  BY <2>1
  <2>3. d \in CallRecord /\ d.chosen = n
    <3> HIDE DEF c, n
    <3> QED  BY <1>1, <2>1 DEF CallRecord, Status
  <2>4. e.pc = "lookup" /\ e.todo = one /\ e.chosen = n
    <3> HIDE DEF d, n, one
    <3> QED  BY <2>3 DEF CallRecord
  <2>5. Steadfast(e) /\ \A m \in Provider : ~Owes(e, m)
    <3> HIDE DEF e, n, one
    <3> QED  BY <2>2, <2>4 DEF Steadfast, Owes
  <2>6. CASE Reads(t, Returned(d, "SUCCESS"))
    <3>1. Free(Returned(d, "SUCCESS"))
      <4> HIDE DEF d
      <4> QED  BY <2>3, <1>5, MovesOnFree
    <3> QED
      <4> HIDE DEF d
      <4> QED  BY <2>6, <3>1, <1>3
  <2>7. CASE Reads(t, e)
    <3>1. \A m \in Provider : ~Owes(call[t], m)
      BY <1>2, FreeIs
    <3> HIDE DEF e
    <3> QED  BY <2>5, <2>7, <3>1, ReadsBalance
  <2> QED
    BY <1>10, <2>6, <2>7
<1>11. CASE Pick(t)
  BY <1>4, <1>5, <1>10, <1>11 DEF Pick
<1>12. CASE Return(t)
  BY <1>3, <1>12 DEF Return, Free, Idle
<1> QED
  BY <1>6, <1>7, <1>8, <1>9, <1>11, <1>12

\* The look-ups and the check before a provider is called balance.
LEMMA LookupsBalance ==
    ASSUME TypeOK, NEW t \in Thread, Steadfast(call[t]),
           Lookup(t) \/ LookupHealth(t) \/ Attempt(t) \/ AttemptPeek(t)
              \/ AttemptProbe(t)
    PROVE  Balances(t)
<1> DEFINE c == call[t]
<1>1. c \in CallRecord /\ WellFormed(c) /\ c.status \in Status
  BY CallType, Fields
<1>2. \A n \in Provider : ~Owes(c, n)
  BY DEF Lookup, LookupHealth, Attempt, AttemptPeek, AttemptProbe, Owes
<1>3. ASSUME NEW d, Reads(t, d), Steadfast(d),
             d.pc \notin {"penaltyPeek", "penaltyRead", "penalise"}
      PROVE  Balances(t)
  <2>1. \A n \in Provider : ~Owes(d, n)
    BY <1>3 DEF Owes
  <2> QED
    BY <1>2, <1>3, <2>1, ReadsBalance
<1>4. ASSUME NEW d, Reads(t, d), Free(d)  PROVE Balances(t)
  BY <1>3, <1>4, FreeIs DEF Free
<1>5. ASSUME NEW s \in Status, Reads(t, Returned(c, s))  PROVE Balances(t)
  BY <1>1, <1>4, <1>5, MovesOnFree
<1>6. ASSUME NEW s \in Status, c.todo # <<>>, Reads(t, NextAttempt(c, s))
      PROVE  Balances(t)
  BY <1>1, <1>4, <1>6, MovesOnFree
<1>7. /\ "NO_CANDIDATES" \in Status /\ "ALL_UNHEALTHY" \in Status
  BY DEF Status
<1>8. CASE Lookup(t)
  <2> DEFINE d == [c EXCEPT !.pc = "lookupHealth"]
  <2>1. d.pc = "lookupHealth" /\ d.todo = c.todo /\ d.chosen = c.chosen
    <3> HIDE DEF c
    <3> QED  BY <1>1 DEF CallRecord
  <2>2. c.pc = "lookup"
    BY <1>8 DEF Lookup
  <2>3. Registered(c.chosen) => Steadfast(d)
    <3>1. Head(c.todo) = c.chosen
      BY <2>2 DEF Steadfast
    <3> HIDE DEF c, d
    <3> QED  BY <2>1, <3>1 DEF Steadfast
  <2>4. \/ Registered(c.chosen) /\ Reads(t, d)
        \/ Reads(t, Returned(c, c.status))
    BY <1>8 DEF Lookup
  <2> QED
    <3> HIDE DEF c, d
    <3> QED  BY <1>1, <1>3, <1>5, <2>1, <2>3, <2>4
<1>9. CASE LookupHealth(t)
  <2> DEFINE i == record[c.chosen]
             d == [c EXCEPT !.pc = "calling", !.held = i]
  <2>1. d.pc = "calling" /\ d.todo = c.todo /\ d.chosen = c.chosen /\ d.held = i
    <3> HIDE DEF c, i
    <3> QED  BY <1>1 DEF CallRecord
  <2>2. c.pc = "lookupHealth"
    BY <1>9 DEF LookupHealth
  <2>3. Steadfast(d)
    <3>1. Head(c.todo) = c.chosen /\ Registered(c.chosen)
      BY <2>2 DEF Steadfast
    <3> HIDE DEF c, d
    <3> QED  BY <2>1, <3>1 DEF Steadfast
  <2>4. Reads(t, d) \/ Reads(t, Returned(c, c.status))
    BY <1>9 DEF LookupHealth
  <2> QED
    <3> HIDE DEF c, d
    <3> QED  BY <1>1, <1>3, <1>5, <2>1, <2>3, <2>4
<1>10. CASE Attempt(t)
  <2> DEFINE d == [c EXCEPT !.pc = "attemptPeek"]
  <2>1. d.pc = "attemptPeek" /\ d.todo = c.todo
    <3> HIDE DEF c
    <3> QED  BY <1>1 DEF CallRecord
  <2>2. Registered(Head(c.todo)) => Steadfast(d)
    <3> HIDE DEF c, d
    <3> QED  BY <2>1 DEF Steadfast
  <2>3. \/ Registered(Head(c.todo)) /\ Reads(t, d)
        \/ c.todo # <<>> /\ Reads(t, NextAttempt(c, "NO_CANDIDATES"))
        \/ Reads(t, Returned(c, Verdict(c.attempts)))
    BY <1>10 DEF Attempt
  <2>4. Verdict(c.attempts) \in Status
    BY DEF Verdict, Status
  <2> QED
    <3> HIDE DEF c, d
    <3> QED  BY <1>3, <1>5, <1>6, <1>7, <2>1, <2>2, <2>3, <2>4
<1>11. CASE AttemptPeek(t)
  <2> DEFINE i == record[Head(c.todo)]
             d == [c EXCEPT !.pc = "attemptProbe", !.held = i]
  <2>1. d.pc = "attemptProbe" /\ d.todo = c.todo /\ d.held = i
    <3> HIDE DEF c, i
    <3> QED  BY <1>1 DEF CallRecord
  <2>2. c.pc = "attemptPeek" /\ Reads(t, d)
    BY <1>11 DEF AttemptPeek
  <2>3. Steadfast(d)
    <3>1. Registered(Head(c.todo))
      BY <2>2 DEF Steadfast
    <3> HIDE DEF c, d
    <3> QED  BY <2>1, <3>1 DEF Steadfast
  <2> QED
    <3> HIDE DEF c, d
    <3> QED  BY <1>3, <2>1, <2>2, <2>3
<1>12. CASE AttemptProbe(t)
  <2> DEFINE d == [c EXCEPT !.pc = "calling"]
  <2>1. d.pc = "calling" /\ d.todo = c.todo /\ d.held = c.held /\ d.req = c.req
    <3> HIDE DEF c
    <3> QED  BY <1>1 DEF CallRecord
  <2>2. c.pc = "attemptProbe"
        /\ (Reads(t, d) \/ Reads(t, NextAttempt(c, "ALL_UNHEALTHY")))
    BY <1>12 DEF AttemptProbe
  <2>3. c.req.kind = "cascade" /\ c.todo # <<>>
    BY <1>1, <2>2 DEF WellFormed
  <2>4. Steadfast(d)
    <3>1. Registered(Head(c.todo)) /\ c.held = record[Head(c.todo)]
      BY <2>2 DEF Steadfast
    <3> HIDE DEF c, d
    <3> QED  BY <2>1, <2>3, <3>1 DEF Steadfast
  <2> QED
    <3> HIDE DEF c, d
    <3> QED  BY <1>3, <1>6, <1>7, <2>1, <2>2, <2>3, <2>4
<1> QED
  BY <1>8, <1>9, <1>10, <1>11, <1>12

\* A step that adds one call to the held record balances if it counts the
\* answer of the provider at hand, or pays what the call owed for it.
LEMMA CountsBalance ==
    ASSUME TypeOK, Numbered, NEW t \in Thread, NEW d, Become(t, d), Free(d),
           UNCHANGED registry, call[t].todo # <<>>,
           Registered(Head(call[t].todo)),
           call[t].held = record[Head(call[t].todo)],
           \A i \in Records : health'[i].total_calls =
              health[i].total_calls + (IF i = call[t].held THEN 1 ELSE 0),
           \/ /\ call[t].pc = "calling"
              /\ ended' = [ended EXCEPT ![Head(call[t].todo)] = @ + 1]
           \/ call[t].pc = "penalise" /\ UNCHANGED ended
    PROVE  Balances(t)
<1> DEFINE c == call[t]
           m == Head(c.todo)
<1>1. m \in Provider
  BY CallType, Fields
<1>2. call'[t] = d /\ UNCHANGED record
  BY BecomeCall DEF registry
<1>3. Steadfast(call[t])' /\ \A n \in Provider : ~Owes(call'[t], n)
  <2>1. Free(call'[t])
    BY <1>2
  <2>2. Steadfast(call[t])'
    BY <2>1 DEF Steadfast, Free
  <2> QED
    BY <2>1, <2>2, FreeIs
<1>4. \A n \in Provider : Debt(call'[t], n) = 0
  BY <1>3 DEF Debt
<1>5. \A n \in Provider : Registered(n) => (record[n] = c.held <=> n = m)
  BY <1>1 DEF Numbered
<1>6. \A n \in Provider : Debt(c, n) = IF c.pc = "penalise" /\ n = m THEN 1 ELSE 0
  BY DEF Debt, Owes, Free
<1>7. ended \in [Provider -> Nat]
  BY DEF TypeOK
<1>8. ASSUME NEW n \in Provider, Registered(n)
      PROVE  health'[record[n]].total_calls + Debt(call'[t], n) + ended[n] =
             health[record[n]].total_calls + Debt(call[t], n) + ended'[n]
  <2>1. /\ record[n] \in Records /\ health[record[n]].total_calls \in Nat
        /\ ended[n] \in Nat
    BY <1>7, <1>8, RecordType
  <2>2. health'[record[n]].total_calls =
          health[record[n]].total_calls + (IF n = m THEN 1 ELSE 0)
    BY <1>5, <1>8, <2>1
  <2>3. \/ ended'[n] = (IF n = m THEN ended[n] + 1 ELSE ended[n])
           /\ Debt(c, n) = 0
        \/ ended'[n] = ended[n] /\ Debt(c, n) = IF n = m THEN 1 ELSE 0
    BY <1>1, <1>6, <1>7 DEF Free
  <2> QED
    BY <1>4, <2>1, <2>2, <2>3
<1>9. \A n \in Provider : ~Registered(n) => ended'[n] = ended[n]
  BY <1>7
<1> QED
  BY <1>3, <1>8, <1>9 DEF Balances

\* The answers and the penalties of the providers balance.
LEMMA AnswersBalance ==
    ASSUME TypeOK, Numbered, NoOverflow, NEW t \in Thread, Steadfast(call[t]),
           Succeed(t) \/ FailInvoke(t) \/ FailAttempt(t)
              \/ PenaltyPeek(t) \/ PenaltyRead(t) \/ Penalise(t)
    PROVE  Balances(t)
<1> DEFINE c == call[t]
           m == Head(c.todo)
<1>1. c \in CallRecord /\ WellFormed(c) /\ c.status \in Status
  BY CallType, Fields
<1>2. c.todo # <<>> /\ Registered(m) /\ m \in Provider
  <2>1. c.todo # <<>>
    BY <1>1 DEF WellFormed, Succeed, FailInvoke, FailAttempt, PenaltyPeek,
                PenaltyRead, Penalise
  <2>2. Registered(m)
    BY DEF Steadfast, Succeed, FailInvoke, FailAttempt, PenaltyPeek,
           PenaltyRead, Penalise
  <2> QED
    BY <1>1, <2>1, <2>2, Fields
<1>3. record[m] \in Records
  BY <1>2, RecordType
<1>4. /\ "SUCCESS" \in Status /\ "FAILED" \in Status
  BY DEF Status
<1>5. ASSUME NEW h \in HealthRecord, NEW b \in Int
      PROVE  /\ RecordFailure(h, b).total_calls = h.total_calls + 1
             /\ RecordSuccess(h).total_calls = h.total_calls + 1
  BY DEF RecordFailure, RecordSuccess, Health
<1>6. health \in [Records -> HealthRecord]
  BY DEF TypeOK
<1>7. ASSUME NEW b \in Int, c.held \in Records,
             health' = [health EXCEPT ![c.held] = RecordFailure(@, b)]
      PROVE  \A i \in Records : health'[i].total_calls =
                health[i].total_calls + (IF i = c.held THEN 1 ELSE 0)
  <2> SUFFICES ASSUME NEW i \in Records
               PROVE  health'[i].total_calls =
                         health[i].total_calls + (IF i = c.held THEN 1 ELSE 0)
    OBVIOUS
  <2>1. health[i] \in HealthRecord /\ health[i].total_calls \in Nat
    BY <1>6 DEF HealthRecord
  <2>2. CASE i = c.held
    <3>1. health'[i] = RecordFailure(health[i], b)
      BY <1>6, <1>7, <2>2
    <3> QED
      BY <1>5, <2>1, <2>2, <3>1
  <2>3. CASE i # c.held
    <3>1. health'[i] = health[i]
      BY <1>6, <1>7, <2>3
    <3> QED
      BY <2>1, <2>3, <3>1
  <2> QED
    BY <2>2, <2>3
<1>8. CASE Succeed(t)
  <2> DEFINE d == IF c.req.kind = "invoke" THEN Returned(c, c.status)
                  ELSE NextAttempt(c, "SUCCESS")
  <2>1. /\ c.pc = "calling"
        /\ Become(t, d)
        /\ ended' = [ended EXCEPT ![m] = @ + 1]
        /\ health' = [i \in Records |-> IF i = c.held
                        THEN RecordSuccess(health[i]) ELSE health[i]]
        /\ UNCHANGED registry
    BY <1>8 DEF Succeed
  <2>2. c.held = record[m]
    BY <2>1 DEF Steadfast
  <2>3. Free(d)
    <3> HIDE DEF c
    <3> QED  BY <1>1, <1>2, <1>4, MovesOnFree
  <2>4. \A i \in Records : health'[i].total_calls =
           health[i].total_calls + (IF i = c.held THEN 1 ELSE 0)
    <3> SUFFICES ASSUME NEW i \in Records
                 PROVE  health'[i].total_calls =
                          health[i].total_calls + (IF i = c.held THEN 1 ELSE 0)
      OBVIOUS
    <3>1. health[i] \in HealthRecord /\ health[i].total_calls \in Nat
      BY <1>6 DEF HealthRecord
    <3>2. RecordSuccess(health[i]).total_calls = health[i].total_calls + 1
      BY <1>5, <3>1
    <3>3. health'[i] = IF i = c.held THEN RecordSuccess(health[i]) ELSE health[i]
      BY <2>1
    <3> QED
      BY <3>1, <3>2, <3>3
  <2> QED
    <3> HIDE DEF d
    <3> QED  BY <1>2, <2>1, <2>2, <2>3, <2>4, CountsBalance
<1>9. CASE FailInvoke(t)
  <2> DEFINE r == Returned(c, c.status)
             d == [r EXCEPT !.ok = FALSE]
  <2>1. /\ c.pc = "calling" /\ c.req.kind = "invoke"
        /\ Become(t, d)
        /\ ended' = [ended EXCEPT ![c.chosen] = @ + 1]
        /\ health' = [health EXCEPT ![c.held] = RecordFailure(@, DefaultCooldown)]
        /\ UNCHANGED registry
    BY <1>9 DEF FailInvoke
  <2>2. c.held = record[m] /\ c.chosen = m
    BY <2>1 DEF Steadfast
  <2>3. Free(d)
    <3>1. r \in CallRecord /\ r.pc = "returned"
      BY <1>1, LeavesFilter, ReturnedType
    <3>2. d.pc = "returned"
      <4> HIDE DEF r
      <4> QED  BY <3>1 DEF CallRecord
    <3> HIDE DEF d
    <3> QED  BY <3>2 DEF Free
  <2>4. DefaultCooldown \in Int
    BY BoundAssumption
  <2>5. \A i \in Records : health'[i].total_calls =
           health[i].total_calls + (IF i = c.held THEN 1 ELSE 0)
    BY <1>3, <1>7, <2>1, <2>2, <2>4
  <2> QED
    <3> HIDE DEF d
    <3> QED  BY <1>2, <2>1, <2>2, <2>3, <2>5, CountsBalance
<1>10. CASE Penalise(t)
  <2> DEFINE d == NextAttempt(c, "FAILED")
             b == Backoff(c.streak)
  <2>1. /\ c.pc = "penalise"
        /\ Become(t, d)
        /\ health' = [health EXCEPT ![c.held] = RecordFailure(@, b)]
        /\ UNCHANGED <<registry, ended>>
    BY <1>10 DEF Penalise
  <2>2. c.held = record[m]
    BY <2>1 DEF Steadfast
  <2>3. Free(d)
    <3> HIDE DEF c
    <3> QED  BY <1>1, <1>2, <1>4, MovesOnFree
  <2>4. b \in Int
    <3>1. c.streak \in Nat
      BY <1>1 DEF CallRecord
    <3> QED
      BY <3>1, BackoffType
  <2>5. \A i \in Records : health'[i].total_calls =
           health[i].total_calls + (IF i = c.held THEN 1 ELSE 0)
    <3> HIDE DEF b
    <3> QED  BY <1>3, <1>7, <2>1, <2>2, <2>4
  <2> QED
    <3> HIDE DEF d
    <3> QED  BY <1>2, <2>1, <2>2, <2>3, <2>5, CountsBalance
<1>11. CASE FailAttempt(t)
  <2> DEFINE d == [c EXCEPT !.pc = "penaltyPeek"]
  <2>1. /\ c.pc = "calling" /\ Become(t, d)
        /\ ended' = [ended EXCEPT ![m] = @ + 1]
        /\ UNCHANGED <<registry, health>>
    BY <1>11 DEF FailAttempt
  <2>2. d.pc = "penaltyPeek" /\ d.todo = c.todo
    <3> HIDE DEF c
    <3> QED  BY <1>1 DEF CallRecord
  <2>3. call'[t] = d /\ UNCHANGED record
    BY <2>1, BecomeCall DEF registry
  <2> HIDE DEF d
  <2>4. Steadfast(call[t])'
    BY <1>2, <2>2, <2>3 DEF Steadfast, Registered
  <2>5. \A n \in Provider : Owes(call'[t], n) <=> n = m
    BY <2>2, <2>3 DEF Owes
  <2>6. \A n \in Provider : Debt(call[t], n) = 0
    BY <2>1 DEF Debt, Owes
  <2>7. \A n \in Provider : Debt(call'[t], n) = IF n = m THEN 1 ELSE 0
    BY <2>5 DEF Debt
  <2>8. \A n \in Provider : /\ ended[n] \in Nat
                            /\ ended'[n] = IF n = m THEN ended[n] + 1 ELSE ended[n]
    BY <1>2, <2>1 DEF TypeOK
  <2>9. ASSUME NEW n \in Provider, Registered(n)
        PROVE  health'[record[n]].total_calls + Debt(call'[t], n) + ended[n] =
               health[record[n]].total_calls + Debt(call[t], n) + ended'[n]
    <3> DEFINE x == health[record[n]].total_calls
    <3>1. x \in Nat /\ health'[record[n]].total_calls = x
      BY <2>1, <2>9, RecordType
    <3> HIDE DEF x
    <3>2. x + Debt(call'[t], n) + ended[n] = x + Debt(call[t], n) + ended'[n]
      BY <2>6, <2>7, <2>8, <3>1
    <3> QED
      BY <3>1, <3>2 DEF x
  <2>10. \A n \in Provider : ~Registered(n) =>
           ended'[n] = ended[n] /\ ~Owes(call'[t], n)
    BY <1>2, <2>5, <2>8
  <2> QED
    BY <2>4, <2>9, <2>10 DEF Balances
<1>12. CASE PenaltyPeek(t)
  <2> DEFINE i == record[m]
             d == [c EXCEPT !.pc = "penaltyRead", !.held = i]
  <2>1. c.pc = "penaltyPeek" /\ Reads(t, d)
    BY <1>2, <1>12 DEF PenaltyPeek, Registered
  <2>2. d.pc = "penaltyRead" /\ d.todo = c.todo /\ d.held = i
    <3> HIDE DEF c, i
    <3> QED  BY <1>1 DEF CallRecord
  <2>3. Steadfast(d) /\ \A n \in Provider : Owes(d, n) <=> Owes(c, n)
    <3> HIDE DEF d
    <3> QED  BY <1>2, <2>1, <2>2 DEF Steadfast, Owes
  <2> QED
    <3> HIDE DEF d
    <3> QED  BY <2>1, <2>3, ReadsBalance
<1>13. CASE PenaltyRead(t)
  <2> DEFINE n == health[c.held].consecutive_failures
             d == [c EXCEPT !.pc = "penalise", !.streak = n]
  <2>1. c.pc = "penaltyRead"
    BY <1>13 DEF PenaltyRead
  <2>2. c.held = record[m]
    BY <2>1 DEF Steadfast
  <2>3. n < OverflowAt /\ n \in Nat
    BY <1>3, <1>6, <2>2 DEF NoOverflow, HealthRecord
  <2>4. Reads(t, d)
    <3>1. ~(n >= OverflowAt)
      BY <2>3, BoundAssumption
    <3> QED
      BY <1>13, <3>1 DEF PenaltyRead
  <2>5. d.pc = "penalise" /\ d.todo = c.todo /\ d.held = c.held
    <3> HIDE DEF c, n
    <3> QED  BY <1>1 DEF CallRecord
  <2>6. Steadfast(d) /\ \A k \in Provider : Owes(d, k) <=> Owes(c, k)
    <3> HIDE DEF d
    <3> QED  BY <1>2, <2>1, <2>2, <2>5 DEF Steadfast, Owes
  <2> QED
    <3> HIDE DEF d
    <3> QED  BY <2>4, <2>6, ReadsBalance
<1> QED
  BY <1>8, <1>9, <1>10, <1>11, <1>12, <1>13

\* A reset balances: the lifetime totals survive it.
LEMMA ResetBalances ==
    ASSUME TypeOK, NEW t \in Thread, Steadfast(call[t]), ResetOne(t)
    PROVE  Balances(t)
<1> DEFINE c == call[t]
<1>1. c \in CallRecord
  BY CallType
<1>2. Free(c)
  BY DEF ResetOne, Free
<1>3. CASE Reads(t, Returned(c, "none"))
  <2>1. Free(Returned(c, "none"))
    BY <1>1, MovesOnFree DEF Status
  <2> QED
    BY <1>2, <1>3, <2>1, FreeIs, ReadsBalance
<1>4. ASSUME NEW i \in c.targets, c.pc = "resetting",
             health' = [health EXCEPT ![i] = Reset(@)],
             Become(t, [c EXCEPT !.targets = @ \ {i}]),
             UNCHANGED <<registry, calls, ended>>
      PROVE  Balances(t)
  <2> DEFINE rest == c.targets \ {i}
             d == [c EXCEPT !.targets = rest]
  <2>1. d.pc = "resetting"
    <3> HIDE DEF c, rest
    <3> QED  BY <1>1, <1>4 DEF CallRecord
  <2>2. call'[t] = d /\ UNCHANGED <<record, ended>>
    BY <1>4, BecomeCall DEF registry
  <2> HIDE DEF d
  <2>3. Free(call'[t])
    BY <2>1, <2>2 DEF Free
  <2>4. Steadfast(call[t])'
    BY <2>3 DEF Steadfast, Free
  <2>5. \A n \in Provider : ~Owes(call'[t], n) /\ ~Owes(call[t], n)
    BY <1>2, <2>3, FreeIs
  <2>6. \A n \in Provider : Debt(call'[t], n) = 0 /\ Debt(call[t], n) = 0
    BY <2>5 DEF Debt
  <2>7. \A j \in Records : health'[j].total_calls = health[j].total_calls
    <3>1. health'[i].total_calls = health[i].total_calls \/ i \notin Records
      BY <1>4 DEF TypeOK, Reset, Health
    <3> QED
      BY <1>4, <3>1 DEF TypeOK
  <2> QED
    BY <2>2, <2>4, <2>5, <2>6, <2>7, RecordType DEF Balances
<1> QED
  BY <1>3, <1>4 DEF ResetOne

\* Every step of a call balances.
LEMMA StepBalances ==
    ASSUME TypeOK, Numbered, NoOverflow, NEW t \in Thread, Steadfast(call[t]),
           Step(t)
    PROVE  Balances(t)
  BY DecideBalances, LookupsBalance, AnswersBalance, ResetBalances DEF Step

\* No step of a call touches the registry.
LEMMA CallKeepsRegistry ==
    ASSUME NEW t \in Thread, Start(t) \/ Step(t)
    PROVE  UNCHANGED registry
<1>1. ASSUME Start(t)  PROVE UNCHANGED registry
  BY <1>1 DEF Start, StartOverAll, StartOverNames, StartCascade, StartReset,
              Starts
<1>2. ASSUME Step(t)  PROVE UNCHANGED registry
  BY <1>2 DEF Step, Reads, Collect, Rescan, Peek, Probe, Pick, Lookup,
              LookupHealth, Attempt, AttemptPeek, AttemptProbe, Succeed,
              FailInvoke, FailAttempt, PenaltyPeek, PenaltyRead, Penalise,
              ResetOne, Return
<1> QED
  BY <1>1, <1>2

\* No step of a call touches the call of another thread.
LEMMA CallMovesOne ==
    ASSUME TypeOK, NEW t \in Thread, Start(t) \/ Step(t)
    PROVE  \A u \in Thread : u # t => call'[u] = call[u]
<1>1. ASSUME Start(t)  PROVE \E d : Become(t, d)
  BY <1>1 DEF Start, StartOverAll, StartOverNames, StartCascade, StartReset,
              Starts
<1>2. ASSUME Step(t)  PROVE \E d : Become(t, d)
  BY <1>2 DEF Step, Reads, Collect, Rescan, Peek, Probe, Pick, Lookup,
              LookupHealth, Attempt, AttemptPeek, AttemptProbe, Succeed,
              FailInvoke, FailAttempt, PenaltyPeek, PenaltyRead, Penalise,
              ResetOne, Return
<1> QED
  BY <1>1, <1>2, BecomeCall

\* The beginning of a call balances.
LEMMA StartBalances ==
    ASSUME TypeOK, NEW t \in Thread, Start(t)
    PROVE  Balances(t)
<1>1. ASSUME NEW d, Starts(t, d), Free(d)  PROVE Balances(t)
  <2>1. call'[t] = d /\ UNCHANGED <<record, health, ended>>
    BY <1>1, BecomeCall DEF Starts, registry
  <2>2. Free(call[t]) /\ Free(call'[t])
    BY <1>1, <2>1 DEF Starts, Busy, Free
  <2>3. Steadfast(call[t])'
    BY <2>2 DEF Steadfast, Free
  <2>4. \A n \in Provider : ~Owes(call'[t], n) /\ ~Owes(call[t], n)
    BY <2>2, FreeIs
  <2>5. \A n \in Provider : Debt(call'[t], n) = 0 /\ Debt(call[t], n) = 0
    BY <2>4 DEF Debt
  <2> QED
    BY <2>1, <2>3, <2>4, <2>5 DEF Balances
<1>2. ASSUME NEW r \in Request  PROVE Begun(r) \in CallRecord
  BY <1>2, BegunType
<1>3. CASE StartOverAll(t)
  <2>1. PICK r \in Request : \E q, s :
          Starts(t, [Begun(r) EXCEPT !.pc = "peek", !.pool = q, !.todo = q,
                                     !.skipped = s])
    BY <1>3 DEF StartOverAll
  <2>3. PICK q, s :
          Starts(t, [Begun(r) EXCEPT !.pc = "peek", !.pool = q, !.todo = q,
                                     !.skipped = s])
    BY <2>1
  <2> DEFINE b == Begun(r)
             d == [b EXCEPT !.pc = "peek", !.pool = q, !.todo = q, !.skipped = s]
  <2>2. d.pc = "peek"
    <3>1. b \in CallRecord
      BY <1>2
    <3> HIDE DEF b
    <3> QED  BY <3>1 DEF CallRecord
  <2> HIDE DEF d
  <2> QED
    BY <1>1, <2>2, <2>3 DEF d, Free
<1>4. CASE StartOverNames(t)
  <2>1. PICK r \in Request :
          Starts(t, [Begun(r) EXCEPT !.pc = IF r.names = <<>> THEN "peek"
                                            ELSE "collect"])
    BY <1>4 DEF StartOverNames
  <2> DEFINE b == Begun(r)
             pc == IF r.names = <<>> THEN "peek" ELSE "collect"
             d == [b EXCEPT !.pc = pc]
  <2>2. d.pc = pc
    <3>1. b \in CallRecord
      BY <1>2
    <3> HIDE DEF b, pc
    <3> QED  BY <3>1 DEF CallRecord
  <2>3. Free(d)
    <3> HIDE DEF d
    <3> QED  BY <2>2 DEF Free
  <2> HIDE DEF d
  <2> QED
    BY <1>1, <2>1, <2>3 DEF d
<1>5. CASE StartCascade(t)
  <2>1. PICK r \in Request : Starts(t, [Begun(r) EXCEPT !.pc = "attempt"])
    BY <1>5 DEF StartCascade
  <2> DEFINE b == Begun(r)
             d == [b EXCEPT !.pc = "attempt"]
  <2>2. d.pc = "attempt"
    <3>1. b \in CallRecord
      BY <1>2
    <3> HIDE DEF b
    <3> QED  BY <3>1 DEF CallRecord
  <2> HIDE DEF d
  <2> QED
    BY <1>1, <2>1, <2>2 DEF d, Free
<1>6. CASE StartReset(t)
  <2>1. PICK r \in Request : \E s :
          Starts(t, [Begun(r) EXCEPT !.pc = "resetting", !.targets = s])
    BY <1>6 DEF StartReset
  <2>4. PICK s :
          Starts(t, [Begun(r) EXCEPT !.pc = "resetting", !.targets = s])
    BY <2>1
  <2> DEFINE b == Begun(r)
             d == [b EXCEPT !.pc = "resetting", !.targets = s]
  <2>2. d.pc = "resetting"
    <3>1. b \in CallRecord
      BY <1>2
    <3> HIDE DEF b
    <3> QED  BY <3>1 DEF CallRecord
  <2> HIDE DEF d
  <2> QED
    BY <1>1, <2>2, <2>4 DEF d, Free
<1> QED
  BY <1>3, <1>4, <1>5, <1>6 DEF Start

\* The names on the books are finitely many, and no more than the records.
LEMMA NamesAreFew ==
    ASSUME TypeOK, Numbered
    PROVE  /\ IsFiniteSet(RegisteredNames)
           /\ Cardinality(RegisteredNames) \in Nat
           /\ Cardinality(RegisteredNames) <= created
<1>1. IsFiniteSet(RegisteredNames) /\ Cardinality(RegisteredNames) \in Nat
  <2>1. RegisteredNames \in SUBSET Provider
    BY DEF RegisteredNames
  <2> QED
    BY <2>1, BoundAssumption, FS_Subset, FS_CardinalityType
<1>2. created \in Nat /\ 1 \in Int
  BY BoundAssumption DEF TypeOK
<1>3. IsFiniteSet(1..created) /\ Cardinality(1..created) = created
  <2>1. IsFiniteSet(1..created)
        /\ Cardinality(1..created) = IF 1 > created THEN 0 ELSE created - 1 + 1
    BY <1>2, FS_Interval
  <2> QED
    BY <1>2, <2>1
<1> DEFINE f == [n \in RegisteredNames |-> record[n]]
<1>4. f \in Injection(RegisteredNames, 1..created)
  <2>1. \A n \in RegisteredNames : record[n] \in 1..created
    BY <1>2 DEF TypeOK, RegisteredNames, Registered, NoRecord
  <2>2. f \in [RegisteredNames -> 1..created]
    BY <2>1
  <2>3. \A m, n \in RegisteredNames : f[m] = f[n] => m = n
    BY DEF Numbered, RegisteredNames
  <2> QED
    BY <2>2, <2>3 DEF Injection, IsInjective
<1>5. Cardinality(RegisteredNames) <= Cardinality(1..created)
  <2> HIDE DEF f
  <2> QED  BY <1>3, <1>4, FS_Injection
<1> QED
  BY <1>1, <1>3, <1>5

\* Names keep distinct records.
LEMMA NumberedNext == ASSUME TypeOK, Numbered, [Next]_vars  PROVE Numbered'
<1> SUFFICES ASSUME NEW m \in Provider, NEW n \in Provider,
                    record'[m] # NoRecord, record'[m] = record'[n]
             PROVE  m = n
  BY DEF Numbered, Registered
<1>1. CASE UNCHANGED record
  BY <1>1 DEF Numbered, Registered
<1>2. ASSUME NEW k \in Provider, Register(k)  PROVE m = n
  <2>1. created \in Nat /\ record[m] \in 0..created /\ record[n] \in 0..created
    BY BoundAssumption DEF TypeOK
  <2>2. \A p \in Provider : record'[p] = IF p = k THEN created + 1 ELSE record[p]
    BY <1>2 DEF Register, TypeOK
  <2> QED
    BY <2>1, <2>2 DEF Numbered, Registered
<1>3. ASSUME NEW k \in Provider, Unregister(k)  PROVE m = n
  <2>1. \A p \in Provider : record'[p] = IF p = k THEN NoRecord ELSE record[p]
    BY <1>3 DEF Unregister, TypeOK
  <2> QED
    BY <2>1 DEF Numbered, Registered
<1>4. ASSUME NEW t \in Thread, Start(t) \/ Step(t)  PROVE UNCHANGED registry
  BY <1>4, CallKeepsRegistry
<1> QED
  BY <1>1, <1>2, <1>3, <1>4 DEF Next, Tick, vars, registry

\* While every name is left registered, the registry only grows.
LEMMA NoneLeftBack ==
    ASSUME TypeOK, Numbered, [Next]_vars, NoneLeft'
    PROVE  NoneLeft /\ \A n \in Provider : ~Unregister(n)
<1>1. /\ IsFiniteSet(RegisteredNames) /\ Cardinality(RegisteredNames) \in Nat
      /\ Cardinality(RegisteredNames) <= created
  BY NamesAreFew
<1>2. created \in Nat
  BY BoundAssumption DEF TypeOK
<1>3. ASSUME NEW k \in Provider, Register(k)  PROVE NoneLeft
  <2>1. RegisteredNames' = RegisteredNames \cup {k} /\ k \notin RegisteredNames
    <3>1. \A p \in Provider : record'[p] = IF p = k THEN created + 1 ELSE record[p]
      BY <1>3 DEF Register, TypeOK
    <3>2. created + 1 # 0
      BY <1>2
    <3> QED
      BY <1>3, <3>1, <3>2 DEF RegisteredNames, Registered, Register, NoRecord
  <2>2. Cardinality(RegisteredNames') = Cardinality(RegisteredNames) + 1
    BY <1>1, <2>1, FS_AddElement
  <2>3. created' = created + 1
    BY <1>3 DEF Register
  <2> QED
    BY <1>1, <1>2, <2>2, <2>3 DEF NoneLeft
<1>4. ASSUME NEW k \in Provider, Unregister(k)  PROVE FALSE
  <2>1. RegisteredNames' = RegisteredNames \ {k} /\ k \in RegisteredNames
    <3>1. \A p \in Provider : record'[p] = IF p = k THEN NoRecord ELSE record[p]
      BY <1>4 DEF Unregister, TypeOK
    <3> QED
      BY <1>4, <3>1 DEF RegisteredNames, Registered, Unregister
  <2>2. Cardinality(RegisteredNames') = Cardinality(RegisteredNames) - 1
    BY <1>1, <2>1, FS_RemoveElement
  <2>3. created' = created
    BY <1>4 DEF Unregister
  <2> QED
    BY <1>1, <1>2, <2>2, <2>3 DEF NoneLeft
<1>5. ASSUME UNCHANGED registry  PROVE NoneLeft
  <2>1. UNCHANGED <<record, created>>
    BY <1>5 DEF registry
  <2>2. RegisteredNames' = RegisteredNames
    BY <2>1 DEF RegisteredNames, Registered
  <2> QED
    BY <2>1, <2>2 DEF NoneLeft
<1>6. ASSUME NEW t \in Thread, Start(t) \/ Step(t)  PROVE UNCHANGED registry
  BY <1>6, CallKeepsRegistry
<1>7. NoneLeft
  BY <1>3, <1>4, <1>5, <1>6 DEF Next, Tick, vars
<1> QED
  BY <1>4, <1>7

\* The set of calls in debt changes by the one that moved.
LEMMA DebtIsCounted ==
    ASSUME TypeOK, NEW t \in Thread, NEW n \in Provider,
           \A u \in Thread : u # t => call'[u] = call[u],
           IsFiniteSet(Unrecorded(n))
    PROVE  /\ IsFiniteSet(Unrecorded(n)')
           /\ Cardinality(Unrecorded(n)) \in Nat
           /\ Cardinality(Unrecorded(n)') \in Nat
           /\ Cardinality(Unrecorded(n)') + Debt(call[t], n) =
              Cardinality(Unrecorded(n)) + Debt(call'[t], n)
<1> DEFINE A == Unrecorded(n)
           B == Unrecorded(n)'
<1>1. \A u \in Thread : /\ u \in A <=> Owes(call[u], n)
                        /\ u \in B <=> Owes(call'[u], n)
  BY DEF Unrecorded, Owes
<1>2. A \subseteq Thread /\ B \subseteq Thread
  BY DEF Unrecorded
<1>3. /\ Debt(call[t], n) = IF t \in A THEN 1 ELSE 0
      /\ Debt(call'[t], n) = IF t \in B THEN 1 ELSE 0
  BY <1>1 DEF Debt
<1>4. B = IF t \in B THEN A \cup {t} ELSE A \ {t}
  BY <1>1, <1>2
<1>5. IsFiniteSet(A) /\ Cardinality(A) \in Nat
  BY FS_CardinalityType
<1> HIDE DEF A, B
<1>6. /\ IsFiniteSet(A \cup {t}) /\ IsFiniteSet(A \ {t})
      /\ Cardinality(A \cup {t}) =
           IF t \in A THEN Cardinality(A) ELSE Cardinality(A) + 1
      /\ Cardinality(A \ {t}) =
           IF t \in A THEN Cardinality(A) - 1 ELSE Cardinality(A)
  BY <1>5, FS_AddElement, FS_RemoveElement
<1>7. IsFiniteSet(B) /\ Cardinality(B) \in Nat
  <2>1. IsFiniteSet(B)
    BY <1>4, <1>6
  <2> QED
    BY <2>1, FS_CardinalityType
<1>8. Cardinality(B) + (IF t \in A THEN 1 ELSE 0) =
      Cardinality(A) + (IF t \in B THEN 1 ELSE 0)
  <2> DEFINE a == Cardinality(A)
             b == Cardinality(B)
  <2>1. a \in Nat
    BY <1>5
  <2>2. t \in B => b = IF t \in A THEN a ELSE a + 1
    BY <1>4, <1>6
  <2>3. t \notin B => b = IF t \in A THEN a - 1 ELSE a
    BY <1>4, <1>6
  <2> HIDE DEF a, b
  <2>4. b + (IF t \in A THEN 1 ELSE 0) = a + (IF t \in B THEN 1 ELSE 0)
    BY <2>1, <2>2, <2>3
  <2> QED
    BY <2>4 DEF a, b
<1> QED
  BY <1>3, <1>5, <1>7, <1>8 DEF A, B

\* The books stay right over a step of a call ...
LEMMA CallBooked ==
    ASSUME TypeOK, NEW t \in Thread, Start(t) \/ Step(t), Balances(t),
           \A u \in Thread : Steadfast(call[u]),
           \A n \in Provider : Booked(n)
    PROVE  /\ \A u \in Thread : Steadfast(call[u])'
           /\ \A n \in Provider : Booked(n)'
<1>1. UNCHANGED record
  BY CallKeepsRegistry DEF registry
<1>2. \A u \in Thread : u # t => call'[u] = call[u]
  BY CallMovesOne
<1>3. ASSUME NEW u \in Thread  PROVE Steadfast(call[u])'
  <2>1. CASE u = t
    BY <2>1 DEF Balances
  <2>2. CASE u # t
    BY <1>1, <1>2, <2>2 DEF Steadfast, Registered
  <2> QED
    BY <2>1, <2>2
<1>4. ASSUME NEW n \in Provider  PROVE Booked(n)'
  <2>1. IsFiniteSet(Unrecorded(n))
    BY DEF Booked
  <2>2. /\ IsFiniteSet(Unrecorded(n)')
        /\ Cardinality(Unrecorded(n)) \in Nat
        /\ Cardinality(Unrecorded(n)') \in Nat
        /\ Cardinality(Unrecorded(n)') + Debt(call[t], n) =
           Cardinality(Unrecorded(n)) + Debt(call'[t], n)
    BY <1>2, <2>1, DebtIsCounted
  <2>3. Debt(call[t], n) \in Nat /\ Debt(call'[t], n) \in Nat
    BY DEF Debt
  <2>4. TypeOK'
    BY TypeNext DEF Next
  <2>5. ended[n] \in Nat /\ ended'[n] \in Nat
    BY <2>4 DEF TypeOK
  <2>6. CASE Registered(n)
    <3>1. /\ record[n] \in Records
          /\ health[record[n]].total_calls \in Nat
          /\ health'[record[n]].total_calls \in Nat
      BY <2>4, <2>6, RecordType DEF TypeOK, HealthRecord
    <3>2. health[record[n]].total_calls + Cardinality(Unrecorded(n)) = ended[n]
      BY <2>6 DEF Booked
    <3>3. health'[record[n]].total_calls + Debt(call'[t], n) + ended[n] =
          health[record[n]].total_calls + Debt(call[t], n) + ended'[n]
      BY <2>6 DEF Balances
    <3> DEFINE x == health[record[n]].total_calls
               y == health'[record[n]].total_calls
               a == Cardinality(Unrecorded(n))
               b == Cardinality(Unrecorded(n)')
               c == Debt(call[t], n)
               d == Debt(call'[t], n)
               e == ended[n]
               f == ended'[n]
    <3>4. x \in Int /\ y \in Int /\ a \in Int /\ b \in Int
      BY <2>2, <3>1
    <3>5. c \in Int /\ d \in Int /\ e \in Int /\ f \in Int
      BY <2>3, <2>5
    <3>6. b + c = a + d
      BY <2>2
    <3>7. x + a = e
      BY <3>2
    <3>8. y + d + e = x + c + f
      BY <3>3
    <3>9. y + b = f
      <4> HIDE DEF x, y, a, b, c, d, e, f
      <4> QED  BY <3>4, <3>5, <3>6, <3>7, <3>8
    <3> QED
      BY <1>1, <2>2, <2>6, <3>9 DEF Booked, Registered
  <2>7. CASE ~Registered(n)
    <3>1. ended[n] = 0 /\ Unrecorded(n) = {}
      BY <2>7 DEF Booked
    <3>2. ended'[n] = ended[n] /\ ~Owes(call'[t], n)
      BY <2>7 DEF Balances
    <3>3. Unrecorded(n)' = {}
      BY <1>2, <3>1, <3>2 DEF Unrecorded, Owes
    <3> QED
      BY <1>1, <2>2, <2>7, <3>1, <3>2, <3>3 DEF Booked, Registered
  <2> QED
    BY <2>6, <2>7
<1> QED
  BY <1>3, <1>4

\* ... over a registration ...
LEMMA RegisterBooked ==
    ASSUME TypeOK, NEW k \in Provider, Register(k),
           \A u \in Thread : Steadfast(call[u]),
           \A n \in Provider : Booked(n)
    PROVE  /\ \A u \in Thread : Steadfast(call[u])'
           /\ \A n \in Provider : Booked(n)'
<1>1. /\ \A p \in Provider : record'[p] = IF p = k THEN created + 1 ELSE record[p]
      /\ \A i \in Records : health'[i] = IF i = created + 1 THEN NewHealth
                                         ELSE health[i]
      /\ created + 1 \in Records /\ UNCHANGED <<call, ended>>
  BY BoundAssumption DEF Register, TypeOK, Records
<1>2. record[k] = NoRecord
  BY DEF Register, Registered
<1>3. \A p \in Provider : record[p] # NoRecord => record'[p] = record[p]
  BY <1>1, <1>2
<1>4. ASSUME NEW u \in Thread  PROVE Steadfast(call[u])'
  <2> DEFINE c == call[u]
  <2>1. c.todo # <<>> => Head(c.todo) \in Provider
    BY CallType, Fields
  <2>2. c.pc \in {"attemptPeek", "attemptProbe", "calling", "penaltyPeek",
                  "penaltyRead", "penalise"} =>
          c.todo # <<>> /\ record[Head(c.todo)] # NoRecord
    BY CallType DEF WellFormed, Steadfast, Registered
  <2>3. c.pc = "lookupHealth" => /\ c.chosen \in Provider
                                 /\ record[c.chosen] # NoRecord
    BY CallType DEF WellFormed, Steadfast, Registered
  <2>4. Steadfast(c)
    OBVIOUS
  <2>5. call'[u] = c
    BY <1>1
  <2> HIDE DEF c
  <2> QED
    BY <1>3, <2>1, <2>2, <2>3, <2>4, <2>5 DEF Steadfast, Registered
<1>5. ASSUME NEW n \in Provider  PROVE Booked(n)'
  <2>1. Unrecorded(n)' = Unrecorded(n) /\ ended'[n] = ended[n]
    BY <1>1 DEF Unrecorded
  <2>2. CASE n = k
    <3>1. ended[n] = 0 /\ Unrecorded(n) = {}
      BY <1>2, <2>2 DEF Booked, Registered
    <3>2. record'[n] = created + 1 /\ health'[created + 1].total_calls = 0
      BY <1>1, <2>2 DEF NewHealth, Health
    <3>3. Cardinality(Unrecorded(n)') = 0 /\ IsFiniteSet(Unrecorded(n)')
      BY <2>1, <3>1, FS_EmptySet
    <3>4. record'[n] # NoRecord
      BY <3>2, BoundAssumption DEF TypeOK, NoRecord
    <3> QED
      BY <2>1, <3>1, <3>2, <3>3, <3>4 DEF Booked, Registered
  <2>3. CASE n # k
    <3>1. record'[n] = record[n] /\ record[n] # created + 1
      BY <1>1, <2>3, BoundAssumption DEF TypeOK
    <3>2. Registered(n) => health'[record[n]] = health[record[n]]
      BY <1>1, <3>1, RecordType
    <3> QED
      BY <2>1, <3>1, <3>2 DEF Booked, Registered
  <2> QED
    BY <2>2, <2>3
<1> QED
  BY <1>4, <1>5

\* ... and over the passing of time.
LEMMA TickBooked ==
    ASSUME TypeOK, Tick,
           \A u \in Thread : Steadfast(call[u]),
           \A n \in Provider : Booked(n)
    PROVE  /\ \A u \in Thread : Steadfast(call[u])'
           /\ \A n \in Provider : Booked(n)'
<1>1. UNCHANGED <<record, call, ended>>
  BY DEF Tick, registry
<1>2. \A i \in Records : health'[i].total_calls = health[i].total_calls
  <2>1. \A i \in Records : health[i] \in HealthRecord /\ health'[i] = Elapse(health[i])
    BY DEF Tick, TypeOK
  <2>2. ASSUME NEW h \in HealthRecord  PROVE Elapse(h).total_calls = h.total_calls
    BY DEF Elapse, HealthRecord
  <2> QED
    BY <2>1, <2>2
<1>3. \A n \in Provider : Registered(n) =>
        health'[record[n]].total_calls = health[record[n]].total_calls
  BY <1>2, RecordType
<1> QED
  BY <1>1, <1>3 DEF Steadfast, Booked, Unrecorded, Registered

\* The books are right after a step if they were before it and no streak
\* overflows.
LEMMA LedgerNext ==
    TypeOK /\ NoOverflow /\ Ledger /\ [Next]_vars => Ledger'
<1> SUFFICES ASSUME TypeOK, NoOverflow, Ledger, [Next]_vars  PROVE Ledger'
  OBVIOUS
<1>1. Numbered /\ Numbered'
  BY NumberedNext DEF Ledger
<1>2. ASSUME NoneLeft'
      PROVE  /\ \A t \in Thread : Steadfast(call[t])'
             /\ \A n \in Provider : Booked(n)'
  <2>1. NoneLeft /\ \A n \in Provider : ~Unregister(n)
    BY <1>1, <1>2, NoneLeftBack
  <2>2. /\ \A t \in Thread : Steadfast(call[t])
        /\ \A n \in Provider : Booked(n)
    BY <2>1 DEF Ledger
  <2>3. ASSUME NEW t \in Thread, Start(t) \/ Step(t)
        PROVE  /\ \A u \in Thread : Steadfast(call[u])'
               /\ \A n \in Provider : Booked(n)'
    <3>1. Balances(t)
      BY <1>1, <2>2, <2>3, StartBalances, StepBalances
    <3> QED
      BY <2>2, <2>3, <3>1, CallBooked
  <2>4. CASE UNCHANGED vars
    BY <2>2, <2>4 DEF vars, registry, Steadfast, Booked, Unrecorded, Registered
  <2> QED
    BY <2>1, <2>2, <2>3, <2>4, RegisterBooked, TickBooked DEF Next
<1> QED
  BY <1>1, <1>2 DEF Ledger

\* No outcome of a provider's invoke is lost or counted twice, however invoke
\* and cascades overlap: while no provider was unregistered, total_calls of a
\* record and the cascades about to penalise it add up to the calls that have
\* ended.  The hypothesis rules out the OverflowError of 2 ** n, which loses
\* the failure it was to record.
THEOREM LedgerCorrect == Spec /\ []NoOverflow => []LedgerExact
<1>1. Init => Ledger
  <2> SUFFICES ASSUME Init  PROVE Ledger
    OBVIOUS
  <2>1. \A t \in Thread : Steadfast(call[t])
    BY DEF Init, Idle, Steadfast
  <2>2. \A n \in Provider : Unrecorded(n) = {} /\ ~Registered(n) /\ ended[n] = 0
    BY DEF Init, Unrecorded, Idle, Registered
  <2>3. Numbered
    BY <2>2 DEF Numbered
  <2> QED
    BY <2>1, <2>2, <2>3, FS_EmptySet DEF Ledger, Booked
<1>2. Ledger => LedgerExact
  BY DEF Ledger, LedgerExact, NoneLeft, RegisteredNames, Booked
<1> QED
  BY <1>1, <1>2, LedgerNext, TypeCorrect, PTL DEF Spec

-----------------------------------------------------------------------------
(* The steady names                                                        *)

\* A loop over the names of q has done the first p and has todo left.
Rest(q, todo, p) ==
    /\ p \in 0..Len(q)
    /\ Len(todo) = Len(q) - p
    /\ \A i \in 1..Len(todo) : todo[i] = q[p + i]

\* The list q has the k-th of names, behind none that comes after it there.
Listed(q, names, k) ==
    \E i \in DOMAIN q :
        /\ q[i] = names[k]
        /\ \A h \in 1..i : \E j \in 1..k : q[h] = names[j]

\* All of q comes from the first p of names.
From(q, names, p) == \A h \in DOMAIN q : \E j \in 1..p : q[h] = names[j]

\* The look-up of the candidates has listed every steady one it has done.
Collects(c, S) ==
    c.pc = "collect" =>
        /\ ~c.req.all
        /\ \E p \in Nat :
              /\ Rest(c.req.names, c.todo, p)
              /\ From(c.pool, c.req.names, p)
              /\ \A k \in 1..p : c.req.names[k] \in S \cap c.req.accepts =>
                    Listed(c.pool, c.req.names, k)

\* The pool has every steady candidate, and only candidates.
Pools(c, S) ==
    /\ c.pc \in {"rescan", "peek", "probe"} =>
          \A k \in DOMAIN Candidates(c) :
              Candidates(c)[k] \in S \cap Eligible(c) =>
                  Listed(c.pool, Candidates(c), k)
    /\ c.pc \in {"collect", "rescan", "peek", "probe"} =>
          /\ c.req.kind \in {"route", "invoke"}
          /\ \A i \in DOMAIN c.pool : c.pool[i] \in c.req.accepts
    /\ c.pc \in {"collect", "rescan"} => c.healthy = <<>>

\* The health filter has let through every steady name it has done.
FiltersWell(c, S) ==
    c.pc \in {"peek", "probe"} =>
        \E p \in Nat :
           /\ Rest(c.pool, c.todo, p)
           /\ From(c.healthy, c.pool, p)
           /\ \A k \in 1..p : c.pool[k] \in S => Listed(c.healthy, c.pool, k)

\* What an invoke or a cascade does after its choice.
Kinds(c) ==
    /\ c.pc \in {"lookup", "lookupHealth"} => c.req.kind = "invoke"
    /\ c.pc = "calling" => c.req.kind \in {"invoke", "cascade"}

Attempting(c) ==
    \/ c.pc \in {"attempt", "attemptPeek", "attemptProbe", "penaltyPeek",
                 "penaltyRead", "penalise"}
    \/ c.pc = "calling" /\ c.req.kind = "cascade"

\* A cascade has gone past no steady name.
Falls(c, S) ==
    Attempting(c) =>
        \E p \in Nat : /\ Rest(c.req.names, c.todo, p)
                       /\ \A k \in 1..p : c.req.names[k] \notin S

\* The record at hand is that of the name at hand, if the name is steady.
AtHand(c, S) ==
    c.pc \in {"probe", "attemptProbe", "penaltyRead", "penalise"}
        /\ Head(c.todo) \in S
      => c.held = record[Head(c.todo)]

Attends(c, S) ==
    /\ Collects(c, S) /\ Pools(c, S) /\ FiltersWell(c, S)
    /\ Kinds(c) /\ Falls(c, S) /\ AtHand(c, S)

Attentive ==
    \A t \in Thread :
        /\ \A n \in steady[t] : Busy(t) /\ n \in Provider /\ Available(n)
        /\ Attends(call[t], steady[t])

\* A loop that has something left is at the next name.
LEMMA RestNext ==
    ASSUME NEW q \in Seq(Provider), NEW todo \in Seq(Provider), NEW p \in Nat,
           Rest(q, todo, p), todo # <<>>
    PROVE  /\ p + 1 \in 1..Len(q) /\ Head(todo) = q[p + 1]
           /\ Rest(q, Tail(todo), p + 1)
           /\ Tail(todo) = <<>> => p + 1 = Len(q)
<1>1. Len(q) \in Nat /\ Len(todo) \in Nat /\ Len(todo) > 0
  OBVIOUS
<1>2. Head(todo) = todo[1] /\ Len(Tail(todo)) = Len(todo) - 1
      /\ \A i \in 1..Len(Tail(todo)) : Tail(todo)[i] = todo[i + 1]
  OBVIOUS
<1> HIDE DEF Rest
<1>3. Len(todo) = Len(q) - p /\ \A i \in 1..Len(todo) : todo[i] = q[p + i]
  BY DEF Rest
<1>4. \A i \in 1..Len(Tail(todo)) : Tail(todo)[i] = q[p + 1 + i]
  <2> SUFFICES ASSUME NEW i \in 1..Len(Tail(todo))
               PROVE  Tail(todo)[i] = q[p + 1 + i]
    OBVIOUS
  <2>1. i \in Nat /\ i + 1 \in 1..Len(todo)
    BY <1>1, <1>2
  <2>2. Tail(todo)[i] = q[p + (i + 1)]
    BY <1>2, <1>3, <2>1
  <2>3. p + (i + 1) = p + 1 + i
    BY <2>1
  <2> QED
    BY <2>2, <2>3
<1>5. Tail(todo) = <<>> => Len(Tail(todo)) = 0
  <2>1. Len(<<>>) = 0
    OBVIOUS
  <2> QED  BY <2>1, Zenon
<1> QED
  BY <1>1, <1>2, <1>3, <1>4, <1>5 DEF Rest

\* A loop begins with all of its names and ends with none.
LEMMA RestEnds ==
    ASSUME NEW q \in Seq(Provider)
    PROVE  /\ Rest(q, q, 0)
           /\ \A p \in Nat : Rest(q, <<>>, p) => p = Len(q)
<1>1. Len(q) \in Nat
  OBVIOUS
<1>2. Rest(q, q, 0)
  BY <1>1 DEF Rest
<1>3. \A p \in Nat : Rest(q, <<>>, p) => p = Len(q)
  BY <1>1 DEF Rest
<1> QED
  BY <1>2, <1>3

\* A list that only grows at its end keeps what it has ...
LEMMA ListedGrows ==
    ASSUME NEW q \in Seq(Provider), NEW names \in Seq(Provider), NEW k \in Nat,
           Listed(q, names, k), NEW x \in Provider
    PROVE  Listed(Append(q, x), names, k)
<1>1. PICK i \in DOMAIN q :
        q[i] = names[k] /\ \A h \in 1..i : \E j \in 1..k : q[h] = names[j]
  BY DEF Listed
<1>2. Len(q) \in Nat /\ DOMAIN q = 1..Len(q)
  OBVIOUS
<1> DEFINE r == Append(q, x)
<1>3. DOMAIN r = 1..(Len(q) + 1) /\ \A h \in 1..Len(q) : r[h] = q[h]
  OBVIOUS
<1> HIDE DEF r
<1>4. i \in DOMAIN r /\ r[i] = names[k] /\ \A h \in 1..i : r[h] = q[h]
  BY <1>1, <1>2, <1>3
<1> QED
  BY <1>1, <1>4 DEF Listed, r

\* ... and a list of earlier names may take the next one.
LEMMA ListedNew ==
    ASSUME NEW q \in Seq(Provider), NEW names \in Seq(Provider), NEW p \in Nat,
           From(q, names, p), p + 1 \in 1..Len(names)
    PROVE  /\ Listed(Append(q, names[p + 1]), names, p + 1)
           /\ From(Append(q, names[p + 1]), names, p + 1)
           /\ From(q, names, p + 1)
<1> DEFINE r == Append(q, names[p + 1])
<1>1. Len(q) \in Nat /\ DOMAIN q = 1..Len(q)
  OBVIOUS
<1>2. /\ DOMAIN r = 1..(Len(q) + 1) /\ r[Len(q) + 1] = names[p + 1]
      /\ \A h \in 1..Len(q) : r[h] = q[h]
  <2>1. names[p + 1] \in Provider
    OBVIOUS
  <2> QED
    BY <2>1
<1> HIDE DEF r
<1>3. \A h \in 1..Len(q) : \E j \in 1..(p + 1) : q[h] = names[j]
  BY <1>1 DEF From
<1>4. \A h \in DOMAIN r : \E j \in 1..(p + 1) : r[h] = names[j]
  <2> SUFFICES ASSUME NEW h \in DOMAIN r
               PROVE  \E j \in 1..(p + 1) : r[h] = names[j]
    OBVIOUS
  <2>1. CASE h \in 1..Len(q)
    BY <1>2, <1>3, <2>1
  <2>2. CASE h = Len(q) + 1
    BY <1>2, <2>2
  <2> QED
    BY <1>1, <1>2, <2>1, <2>2
<1>5. Len(q) + 1 \in DOMAIN r /\ 1..(Len(q) + 1) = DOMAIN r
  BY <1>1, <1>2
<1>6. Listed(r, names, p + 1)
  BY <1>2, <1>4, <1>5 DEF Listed
<1>7. From(r, names, p + 1) /\ From(q, names, p + 1)
  BY <1>1, <1>3, <1>4 DEF From
<1> QED
  BY <1>6, <1>7 DEF r

\* A list has its own names, each at its place.
LEMMA ListedSelf ==
    ASSUME NEW q \in Seq(Provider), NEW k \in DOMAIN q
    PROVE  Listed(q, q, k)
  BY DEF Listed

\* What is listed in order from a list in order comes first.
LEMMA ListedFirst ==
    ASSUME NEW q \in Seq(Provider), NEW pool \in Seq(Provider),
           NEW names \in Seq(Provider), NEW k \in DOMAIN names,
           Listed(pool, names, k),
           \A i \in DOMAIN pool : pool[i] = names[k] => Listed(q, pool, i)
    PROVE  q # <<>> /\ \E j \in 1..k : q[1] = names[j]
<1>1. PICK i \in DOMAIN pool :
        pool[i] = names[k] /\ \A h \in 1..i : \E j \in 1..k : pool[h] = names[j]
  BY DEF Listed
<1>2. PICK l \in DOMAIN q :
        q[l] = pool[i] /\ \A h \in 1..l : \E j \in 1..i : q[h] = pool[j]
  BY <1>1 DEF Listed
<1>3. 1 \in 1..l /\ q # <<>>
  OBVIOUS
<1> QED
  BY <1>1, <1>2, <1>3

\* The fewer names are steady the less there is to attend to.
LEMMA AttendsLess ==
    ASSUME NEW c, NEW S, NEW S2 \in SUBSET S, Attends(c, S)
    PROVE  Attends(c, S2)
<1>1. Collects(c, S2)
  BY DEF Attends, Collects
<1>2. Pools(c, S2)
  BY DEF Attends, Pools
<1>3. FiltersWell(c, S2)
  BY DEF Attends, FiltersWell
<1>4. Falls(c, S2)
  BY DEF Attends, Falls
<1>5. AtHand(c, S2)
  BY DEF Attends, AtHand
<1> QED
  BY <1>1, <1>2, <1>3, <1>4, <1>5 DEF Attends

\* A call that is free, returned or resetting has nothing to attend to.
LEMMA AttendsNothing ==
    ASSUME NEW d, NEW S, d.pc \in {"idle", "resetting", "returned"}
    PROVE  Attends(d, S)
  BY DEF Attends, Collects, Pools, FiltersWell, Kinds, Falls, Attempting, AtHand

\* What is to be shown of a step of t: the call goes on attending to the
\* names of S, and if it decides, it decides well.
Serves(t, S) ==
    /\ Attends(call'[t], S)
    /\ Decides(t) => DecidesWell(t)

\* A step that leaves the status alone decides nothing.
LEMMA ServesOn ==
    ASSUME TypeOK, NEW t \in Thread, NEW d, NEW S, Become(t, d), Attends(d, S),
           d.status = call[t].status
    PROVE  Serves(t, S)
<1>1. call'[t] = d
  BY BecomeCall
<1> QED
  BY <1>1 DEF Serves, Decides

\* A call that returns its status as it is, or without a decision, serves.
LEMMA ServesReturned ==
    ASSUME TypeOK, NEW t \in Thread, NEW s \in Status, NEW S,
           Become(t, Returned(call[t], s)),
           s \in {call[t].status, "RAISED", "none"}
    PROVE  Serves(t, S)
<1> DEFINE d == Returned(call[t], s)
<1>1. d.pc = "returned"
  BY CallType, LeavesFilter
<1>2. d.status = s
  BY IdleType DEF Returned, CallRecord
<1>3. call'[t] = d
  BY BecomeCall
<1>4. Attends(d, S)
  <2> HIDE DEF d
  <2> QED  BY <1>1, AttendsNothing
<1> HIDE DEF d
<1> QED
  BY <1>2, <1>3, <1>4 DEF Serves, Decides

\* The names a call has at hand before it knows which of them are healthy.
LEMMA CandidateTypes ==
    ASSUME NEW c \in CallRecord
    PROVE  /\ Candidates(c) \in Seq(Provider)
           /\ c.req \in Request => c.req.accepts \subseteq Provider
  BY Fields, RequestAssumption DEF Candidates

\* The look-up of a candidate serves ...
LEMMA CollectServes ==
    ASSUME TypeOK, NEW t \in Thread, Attends(call[t], steady[t]),
           \A n \in steady[t] : n \in Provider /\ Available(n), Collect(t)
    PROVE  Serves(t, steady[t])
<1> DEFINE c == call[t]
           S == steady[t]
           n == Head(c.todo)
           rest == Tail(c.todo)
           names == c.req.names
           pool == IF Registered(n) /\ n \in c.req.accepts
                   THEN Append(c.pool, n) ELSE c.pool
           rejected == IF Registered(n) /\ n \notin c.req.accepts
                       THEN {n} ELSE {}
           skipped == c.skipped \cup rejected
           pc == IF rest = <<>> THEN "rescan" ELSE c.pc
           todo == IF rest = <<>> THEN c.req.names ELSE rest
           d == [c EXCEPT !.pool = pool, !.skipped = skipped,
                          !.pc = pc, !.todo = todo]
<1>1. c.pc = "collect" /\ Become(t, d)
  BY DEF Collect, Reads
<1>2. c \in CallRecord /\ WellFormed(c)
  BY CallType
<1>3. c.todo # <<>> /\ c.todo \in Seq(Provider) /\ names \in Seq(Provider)
      /\ c.pool \in Seq(Provider) /\ n \in Provider
  <2>1. c.todo # <<>>
    BY <1>1, <1>2 DEF WellFormed
  <2> QED
    BY <1>2, <2>1, Fields
<1>4. /\ d.pc = pc /\ d.todo = todo /\ d.req = c.req /\ d.pool = pool
      /\ d.healthy = c.healthy /\ d.status = c.status
  <2> HIDE DEF c, pool, skipped, pc, todo
  <2> QED  BY <1>2 DEF CallRecord
<1>5. /\ ~c.req.all /\ c.req.kind \in {"route", "invoke"} /\ c.healthy = <<>>
      /\ \A i \in DOMAIN c.pool : c.pool[i] \in c.req.accepts
  BY <1>1 DEF Attends, Collects, Pools
<1>6. PICK p \in Nat :
         /\ Rest(names, c.todo, p)
         /\ From(c.pool, names, p)
         /\ \A k \in 1..p : names[k] \in S \cap c.req.accepts =>
               Listed(c.pool, names, k)
  BY <1>1 DEF Attends, Collects
<1>7. /\ p + 1 \in 1..Len(names) /\ n = names[p + 1]
      /\ Rest(names, rest, p + 1)
      /\ rest = <<>> => p + 1 = Len(names)
  <2> HIDE DEF c, names
  <2> QED  BY <1>3, <1>6, RestNext
<1>8. From(pool, names, p + 1)
  <2> HIDE DEF c, names
  <2> QED  BY <1>3, <1>6, <1>7, ListedNew
<1>9. ASSUME NEW k \in 1..(p + 1), names[k] \in S \cap c.req.accepts
      PROVE  Listed(pool, names, k)
  <2>1. CASE k = p + 1
    <3>1. Registered(n) /\ n \in c.req.accepts
      BY <1>7, <1>9, <2>1 DEF Available
    <3>2. Listed(Append(c.pool, names[p + 1]), names, p + 1)
      <4> HIDE DEF c, names
      <4> QED  BY <1>3, <1>6, <1>7, ListedNew
    <3> QED
      BY <1>7, <2>1, <3>1, <3>2
  <2>2. CASE k # p + 1
    <3>1. k \in 1..p /\ k \in Nat
      BY <2>2
    <3>2. Listed(c.pool, names, k)
      BY <1>6, <1>9, <3>1
    <3>3. Listed(Append(c.pool, n), names, k)
      <4> HIDE DEF c, n, names
      <4> QED  BY <1>3, <3>1, <3>2, ListedGrows
    <3> QED
      BY <3>2, <3>3
  <2> QED
    BY <2>1, <2>2
<1>10. \A i \in DOMAIN pool : pool[i] \in c.req.accepts
  <2> HIDE DEF c
  <2> QED  BY <1>3, <1>5
<1>11. Attends(d, S)
  <2>1. pc \in {"collect", "rescan"}
    BY <1>1
  <2>2. Collects(d, S)
    <3> SUFFICES ASSUME pc = "collect"
                 PROVE  /\ ~c.req.all
                        /\ \E q \in Nat :
                             /\ Rest(names, todo, q)
                             /\ From(pool, names, q)
                             /\ \A k \in 1..q : names[k] \in S \cap c.req.accepts
                                  => Listed(pool, names, k)
      <4> HIDE DEF d, pc, pool, todo
      <4> QED  BY <1>4 DEF Collects
    <3>1. rest # <<>> /\ todo = rest
      OBVIOUS
    <3> HIDE DEF pool, todo
    <3> QED  BY <1>5, <1>7, <1>8, <1>9, <3>1
  <2>3. Pools(d, S)
    <3>1. pc = "rescan" => \A k \in DOMAIN names :
             names[k] \in S \cap c.req.accepts => Listed(pool, names, k)
      <4> SUFFICES ASSUME pc = "rescan"
                   PROVE  \A k \in DOMAIN names :
             names[k] \in S \cap c.req.accepts => Listed(pool, names, k)
        OBVIOUS
      <4>1. rest = <<>>
        BY <1>1
      <4>2. DOMAIN names = 1..(p + 1)
        BY <1>3, <1>7, <4>1
      <4> QED
        BY <1>9, <4>2
    <3>2. Candidates(d) = names /\ Eligible(d) = c.req.accepts
      <4> HIDE DEF d
      <4> QED  BY <1>4, <1>5 DEF Candidates, Eligible
    <3> HIDE DEF d, pc, pool
    <3> QED  BY <1>4, <1>5, <1>10, <2>1, <3>1, <3>2 DEF Pools
  <2> HIDE DEF d, pc
  <2> QED
    BY <1>4, <2>1, <2>2, <2>3
       DEF Attends, FiltersWell, Kinds, Falls, Attempting, AtHand
<1> QED
  <2> HIDE DEF d
  <2> QED  BY <1>1, <1>4, <1>11, ServesOn

\* ... its second look-up ...
LEMMA RescanServes ==
    ASSUME TypeOK, NEW t \in Thread, Attends(call[t], steady[t]), Rescan(t)
    PROVE  Serves(t, steady[t])
<1> DEFINE c == call[t]
           S == steady[t]
           n == Head(c.todo)
           rest == Tail(c.todo)
           skipped == IF Registered(n) THEN c.skipped ELSE c.skipped \cup {n}
           pc == IF rest = <<>> THEN "peek" ELSE c.pc
           todo == IF rest = <<>> THEN c.pool ELSE rest
           d == [c EXCEPT !.skipped = skipped, !.pc = pc, !.todo = todo]
<1>1. c.pc = "rescan" /\ Become(t, d)
  BY DEF Rescan, Reads
<1>2. c \in CallRecord /\ c.pool \in Seq(Provider)
  BY CallType, Fields
<1>3. /\ d.pc = pc /\ d.todo = todo /\ d.req = c.req /\ d.pool = c.pool
      /\ d.healthy = c.healthy /\ d.status = c.status
  <2> HIDE DEF c, skipped, pc, todo
  <2> QED  BY <1>2 DEF CallRecord
<1>4. Pools(c, S) /\ c.healthy = <<>>
  BY <1>1 DEF Attends, Pools
<1>5. pc \in {"rescan", "peek"} /\ (pc = "peek" => todo = c.pool)
  BY <1>1
<1>6. Candidates(d) = Candidates(c) /\ Eligible(d) = Eligible(c)
  <2> HIDE DEF d
  <2> QED  BY <1>3 DEF Candidates, Eligible
<1>7. Pools(d, S)
  <2> HIDE DEF c, d, pc
  <2> QED  BY <1>1, <1>3, <1>4, <1>5, <1>6 DEF Pools
<1>8. FiltersWell(d, S)
  <2>1. Rest(c.pool, c.pool, 0)
    BY <1>2, RestEnds
  <2>2. From(<<>>, c.pool, 0) /\ 0 \in Nat /\ 1..0 = {}
    BY DEF From
  <2> HIDE DEF c, d, pc, todo
  <2> QED  BY <1>3, <1>4, <1>5, <2>1, <2>2 DEF FiltersWell
<1>9. Attends(d, S)
  <2> HIDE DEF d, pc
  <2> QED
    BY <1>3, <1>5, <1>7, <1>8
       DEF Attends, Collects, Kinds, Falls, Attempting, AtHand
<1> QED
  <2> HIDE DEF d
  <2> QED  BY <1>1, <1>3, <1>9, ServesOn

\* ... the look-up of its record ...
LEMMA PeekServes ==
    ASSUME TypeOK, NEW t \in Thread, Attends(call[t], steady[t]), Peek(t)
    PROVE  Serves(t, steady[t])
<1> DEFINE c == call[t]
           S == steady[t]
           i == record[Head(c.todo)]
           d == [c EXCEPT !.pc = "probe", !.held = i]
<1>1. c.pc = "peek" /\ Become(t, d)
  BY DEF Peek, Reads
<1>2. c \in CallRecord
  BY CallType
<1>3. /\ d.pc = "probe" /\ d.todo = c.todo /\ d.req = c.req /\ d.pool = c.pool
      /\ d.healthy = c.healthy /\ d.status = c.status /\ d.held = i
  <2> HIDE DEF c, i
  <2> QED  BY <1>2 DEF CallRecord
<1>4. Candidates(d) = Candidates(c) /\ Eligible(d) = Eligible(c)
  <2> HIDE DEF d
  <2> QED  BY <1>3 DEF Candidates, Eligible
<1>5. Pools(c, S) /\ FiltersWell(c, S)
  BY DEF Attends
<1>6. Pools(d, S)
  <2> HIDE DEF c, d
  <2> QED  BY <1>1, <1>3, <1>4, <1>5 DEF Pools
<1>7. FiltersWell(d, S)
  <2> HIDE DEF c, d
  <2> QED  BY <1>1, <1>3, <1>5 DEF FiltersWell
<1>8. AtHand(d, S)
  <2> HIDE DEF d
  <2> QED  BY <1>3 DEF AtHand
<1>9. Attends(d, S)
  <2> HIDE DEF d
  <2> QED
    BY <1>3, <1>6, <1>7, <1>8 DEF Attends, Collects, Kinds, Falls, Attempting
<1> QED
  <2> HIDE DEF d
  <2> QED  BY <1>1, <1>3, <1>9, ServesOn

\* ... and the check of that record serve.
LEMMA ProbeServes ==
    ASSUME TypeOK, NEW t \in Thread, Attends(call[t], steady[t]),
           \A n \in steady[t] : n \in Provider /\ Available(n), Probe(t)
    PROVE  Serves(t, steady[t])
<1> DEFINE c == call[t]
           S == steady[t]
           n == Head(c.todo)
           rest == Tail(c.todo)
           pass == c.held = NoRecord \/ IsHealthy(health[c.held])
           healthy == IF pass THEN Append(c.healthy, n) ELSE c.healthy
           skipped == IF pass THEN c.skipped ELSE c.skipped \cup {n}
           d == [c EXCEPT !.pc = "peek", !.todo = rest, !.held = NoRecord,
                          !.healthy = healthy, !.skipped = skipped]
<1>1. c.pc = "probe" /\ Become(t, d)
  BY DEF Probe, Reads
<1>2. c \in CallRecord /\ WellFormed(c)
  BY CallType
<1>3. c.todo # <<>> /\ c.todo \in Seq(Provider) /\ c.healthy \in Seq(Provider)
      /\ c.pool \in Seq(Provider) /\ n \in Provider
  <2>1. c.todo # <<>>
    BY <1>1, <1>2 DEF WellFormed
  <2> QED
    BY <1>2, <2>1, Fields
<1>4. /\ d.pc = "peek" /\ d.todo = rest /\ d.req = c.req /\ d.pool = c.pool
      /\ d.healthy = healthy /\ d.status = c.status
  <2> HIDE DEF c, rest, healthy, skipped
  <2> QED  BY <1>2 DEF CallRecord
<1>5. Candidates(d) = Candidates(c) /\ Eligible(d) = Eligible(c)
  <2> HIDE DEF d
  <2> QED  BY <1>4 DEF Candidates, Eligible
<1>6. Pools(c, S) /\ FiltersWell(c, S) /\ AtHand(c, S)
  BY DEF Attends
<1>7. PICK p \in Nat :
         /\ Rest(c.pool, c.todo, p)
         /\ From(c.healthy, c.pool, p)
         /\ \A k \in 1..p : c.pool[k] \in S => Listed(c.healthy, c.pool, k)
  BY <1>1, <1>6 DEF FiltersWell
<1>8. /\ p + 1 \in 1..Len(c.pool) /\ n = c.pool[p + 1]
      /\ Rest(c.pool, rest, p + 1)
  <2> HIDE DEF c
  <2> QED  BY <1>3, <1>7, RestNext
<1>9. From(healthy, c.pool, p + 1)
  <2> HIDE DEF c, pass
  <2> QED  BY <1>3, <1>7, <1>8, ListedNew
<1>10. ASSUME NEW k \in 1..(p + 1), c.pool[k] \in S
       PROVE  Listed(healthy, c.pool, k)
  <2>1. CASE k = p + 1
    <3>1. n \in S
      BY <1>8, <1>10, <2>1
    <3>2. c.held = record[n] /\ health[record[n]].cooldown = 0
      BY <1>1, <1>6, <3>1 DEF AtHand, Available
    <3>3. pass
      BY <3>2 DEF IsHealthy
    <3>4. Listed(Append(c.healthy, c.pool[p + 1]), c.pool, p + 1)
      <4> HIDE DEF c
      <4> QED  BY <1>3, <1>7, <1>8, ListedNew
    <3> QED
      BY <1>8, <2>1, <3>3, <3>4
  <2>2. CASE k # p + 1
    <3>1. k \in 1..p /\ k \in Nat
      BY <2>2
    <3>2. Listed(c.healthy, c.pool, k)
      BY <1>7, <1>10, <3>1
    <3>3. Listed(Append(c.healthy, n), c.pool, k)
      <4> HIDE DEF c, n
      <4> QED  BY <1>3, <3>1, <3>2, ListedGrows
    <3> QED
      BY <3>2, <3>3
  <2> QED
    BY <2>1, <2>2
<1>11. Pools(d, S)
  <2> HIDE DEF c, d
  <2> QED  BY <1>1, <1>4, <1>5, <1>6 DEF Pools
<1>12. FiltersWell(d, S)
  <2>1. p + 1 \in Nat
    OBVIOUS
  <2> HIDE DEF c, d, rest, healthy
  <2> QED  BY <1>4, <1>8, <1>9, <1>10, <2>1 DEF FiltersWell
<1>13. Attends(d, S)
  <2> HIDE DEF d
  <2> QED
    BY <1>4, <1>11, <1>12
       DEF Attends, Collects, Kinds, Falls, Attempting, AtHand
<1> QED
  <2> HIDE DEF d
  <2> QED  BY <1>1, <1>4, <1>13, ServesOn

\* The choice among the healthy names is a good decision.
LEMMA PickServes ==
    ASSUME TypeOK, NEW t \in Thread, Attends(call[t], steady[t]), Pick(t)
    PROVE  Serves(t, steady[t])
<1> DEFINE c == call[t]
           S == steady[t]
           names == Candidates(c)
<1>1. c.pc = "peek" /\ c.todo = <<>>
  BY DEF Pick
<1>2. /\ c \in CallRecord /\ c.pool \in Seq(Provider)
      /\ c.healthy \in Seq(Provider) /\ names \in Seq(Provider)
  BY CallType, Fields, CandidateTypes
<1>3. /\ c.req.kind \in {"route", "invoke"}
      /\ \A i \in DOMAIN c.pool : c.pool[i] \in c.req.accepts
      /\ \A k \in DOMAIN names : names[k] \in S \cap Eligible(c) =>
            Listed(c.pool, names, k)
  BY <1>1 DEF Attends, Pools
<1>4. /\ From(c.healthy, c.pool, Len(c.pool))
      /\ \A k \in DOMAIN c.pool : c.pool[k] \in S =>
            Listed(c.healthy, c.pool, k)
  <2>1. PICK p \in Nat :
           /\ Rest(c.pool, c.todo, p)
           /\ From(c.healthy, c.pool, p)
           /\ \A k \in 1..p : c.pool[k] \in S => Listed(c.healthy, c.pool, k)
    BY <1>1 DEF Attends, FiltersWell
  <2>2. p = Len(c.pool) /\ DOMAIN c.pool = 1..Len(c.pool)
    <3> HIDE DEF c
    <3> QED  BY <1>1, <1>2, <2>1, RestEnds
  <2> HIDE DEF c
  <2> QED
    BY <2>1, <2>2
<1>5. \A i \in DOMAIN c.healthy : c.healthy[i] \in Eligible(c)
  <2>1. DOMAIN c.pool = 1..Len(c.pool)
    BY <1>2
  <2> HIDE DEF c
  <2> QED
    BY <1>3, <1>4, <2>1 DEF From, Eligible
<1>6. ASSUME NEW k \in DOMAIN names, names[k] \in S \cap Eligible(c)
      PROVE  /\ c.pool # <<>> /\ c.healthy # <<>>
             /\ \E j \in 1..k : c.healthy[1] = names[j]
  <2>1. Listed(c.pool, names, k)
    BY <1>3, <1>6
  <2>2. \A i \in DOMAIN c.pool : c.pool[i] = names[k] =>
           Listed(c.healthy, c.pool, i)
    BY <1>4, <1>6
  <2>3. c.healthy # <<>> /\ \E j \in 1..k : c.healthy[1] = names[j]
    <3> HIDE DEF c, names, S
    <3> QED  BY <1>2, <2>1, <2>2, ListedFirst
  <2>4. c.pool # <<>>
    BY <2>1 DEF Listed
  <2> QED
    BY <2>3, <2>4
<1>7. ASSUME NEW s \in Status, Become(t, Returned(c, s)),
             c.pool = <<>> \/ c.healthy = <<>>
      PROVE  Serves(t, S)
  <2>1. call'[t].pc = "returned"
    BY <1>2, <1>7, BecomeCall, LeavesFilter
  <2>2. DecidesWell(t)
    BY <1>6, <1>7 DEF DecidesWell
  <2> QED
    BY <2>1, <2>2, AttendsNothing DEF Serves
<1>8. ASSUME NEW i \in DOMAIN c.healthy, c.req.bandit \/ i = 1,
             call'[t].chosen = c.healthy[i]
      PROVE  DecidesWell(t)
  BY <1>5, <1>6, <1>8 DEF DecidesWell
<1>9. ASSUME NEW i \in DOMAIN c.healthy, c.req.bandit \/ i = 1,
             LET d == [c EXCEPT !.status = "SUCCESS", !.chosen = c.healthy[i]]
             IN Become(t, IF c.req.kind = "route" THEN Returned(d, "SUCCESS")
                          ELSE [d EXCEPT !.pc = "lookup",
                                         !.todo = <<c.healthy[i]>>,
                                         !.pool = <<>>, !.healthy = <<>>])
      PROVE  Serves(t, S)
  <2> DEFINE n == c.healthy[i]
             d == [c EXCEPT !.status = "SUCCESS", !.chosen = n]
             one == <<n>>
             e == [d EXCEPT !.pc = "lookup", !.todo = one, !.pool = <<>>,
                            !.healthy = <<>>]
             r == Returned(d, "SUCCESS")
  <2>1. n \in Provider
    BY <1>2, <1>9, Fields
  <2>2. d \in CallRecord /\ d.chosen = n /\ d.req = c.req
    <3> HIDE DEF c, n
    <3> QED  BY <1>2, <2>1 DEF CallRecord, Status
  <2>3. e.pc = "lookup" /\ e.chosen = n /\ e.req = c.req
    <3> HIDE DEF d, n, one
    <3> QED  BY <2>2 DEF CallRecord
  <2>4. r.pc = "returned" /\ r.chosen = n
    <3> HIDE DEF d
    <3>1. r.pc = "returned"
      BY <2>2, LeavesFilter DEF Status
    <3>2. r.chosen = d.chosen
      BY IdleType DEF Returned, CallRecord
    <3> QED
      BY <2>2, <3>1, <3>2
  <2>5. CASE c.req.kind = "route" /\ Become(t, r)
    <3> HIDE DEF r
    <3>1. call'[t] = r
      BY <2>5, BecomeCall
    <3> QED
      BY <1>8, <1>9, <2>4, <3>1, AttendsNothing DEF Serves
  <2>6. CASE c.req.kind # "route" /\ Become(t, e)
    <3> HIDE DEF e
    <3>1. call'[t] = e
      BY <2>6, BecomeCall
    <3>2. Attends(e, S)
      BY <1>3, <2>3, <2>6
         DEF Attends, Collects, Pools, FiltersWell, Kinds, Falls, Attempting,
             AtHand
    <3> QED
      BY <1>8, <1>9, <2>3, <3>1, <3>2 DEF Serves
  <2> QED
    BY <1>9, <2>5, <2>6
<1>10. /\ "NO_CANDIDATES" \in Status /\ "ALL_UNHEALTHY" \in Status
  BY DEF Status
<1> QED
  BY <1>7, <1>9, <1>10 DEF Pick, Reads

\* The look-ups of the chosen provider decide nothing.
LEMMA LookupServes ==
    ASSUME TypeOK, NEW t \in Thread, Attends(call[t], steady[t]),
           Lookup(t) \/ LookupHealth(t)
    PROVE  Serves(t, steady[t])
<1> DEFINE c == call[t]
           S == steady[t]
           i == record[c.chosen]
           d == [c EXCEPT !.pc = "lookupHealth"]
           e == [c EXCEPT !.pc = "calling", !.held = i]
<1>1. c \in CallRecord /\ c.status \in Status
  BY CallType, Fields
<1>2. c.req.kind = "invoke"
  BY DEF Lookup, LookupHealth, Attends, Kinds
<1>3. d.pc = "lookupHealth" /\ d.req = c.req /\ d.status = c.status
  <2> HIDE DEF c
  <2> QED  BY <1>1 DEF CallRecord
<1>4. e.pc = "calling" /\ e.req = c.req /\ e.status = c.status
  <2> HIDE DEF c, i
  <2> QED  BY <1>1 DEF CallRecord
<1>5. Attends(d, S) /\ Attends(e, S)
  <2> HIDE DEF d, e
  <2> QED
    BY <1>2, <1>3, <1>4
       DEF Attends, Collects, Pools, FiltersWell, Kinds, Falls, Attempting,
           AtHand
<1>6. \/ Become(t, d) \/ Become(t, e) \/ Become(t, Returned(c, c.status))
  BY DEF Lookup, LookupHealth, Reads
<1>7. CASE Become(t, d)
  <2> HIDE DEF d
  <2> QED  BY <1>3, <1>5, <1>7, ServesOn
<1>8. CASE Become(t, e)
  <2> HIDE DEF e
  <2> QED  BY <1>4, <1>5, <1>8, ServesOn
<1> QED
  BY <1>1, <1>6, <1>7, <1>8, ServesReturned

\* A cascade that goes on passes over a name that is not steady.
LEMMA GoesOn ==
    ASSUME TypeOK, NEW t \in Thread, NEW S, NEW s \in Status, s # "SUCCESS",
           Become(t, NextAttempt(call[t], s)), Attempting(call[t]),
           call[t].todo # <<>>, Falls(call[t], S), Head(call[t].todo) \notin S
    PROVE  Serves(t, S)
<1> DEFINE c == call[t]
           names == c.req.names
           rest == Tail(c.todo)
           tried == Append(c.attempts, s)
           d == [c EXCEPT !.pc = "attempt", !.todo = rest, !.held = NoRecord,
                          !.streak = 0, !.attempts = tried]
<1>1. /\ c \in CallRecord /\ c.todo \in Seq(Provider) /\ c.todo # <<>>
      /\ names \in Seq(Provider)
  BY CallType, Fields
<1>2. NextAttempt(c, s) = d
  BY DEF NextAttempt
<1>3. /\ d.pc = "attempt" /\ d.todo = rest /\ d.req = c.req
      /\ d.status = c.status
  <2> HIDE DEF c, rest, tried
  <2> QED  BY <1>1 DEF CallRecord
<1>4. PICK p \in Nat : /\ Rest(names, c.todo, p)
                       /\ \A k \in 1..p : names[k] \notin S
  BY DEF Falls
<1>5. Rest(names, rest, p + 1) /\ Head(c.todo) = names[p + 1]
  <2> HIDE DEF c, names
  <2> QED  BY <1>1, <1>4, RestNext
<1>6. \A k \in 1..(p + 1) : names[k] \notin S
  BY <1>4, <1>5
<1>7. Attends(d, S)
  <2>1. Falls(d, S)
    <3>1. p + 1 \in Nat
      OBVIOUS
    <3> HIDE DEF d, rest
    <3> QED  BY <1>3, <1>5, <1>6, <3>1 DEF Falls
  <2> HIDE DEF d
  <2> QED
    BY <1>3, <2>1 DEF Attends, Collects, Pools, FiltersWell, Kinds, AtHand
<1> QED
  <2> HIDE DEF d
  <2> QED  BY <1>2, <1>3, <1>7, ServesOn

\* A cascade that stays with its name attends as before.
LEMMA StaysOn ==
    ASSUME TypeOK, NEW t \in Thread, NEW S, NEW d, Become(t, d),
           Attempting(call[t]), Falls(call[t], S), d.todo = call[t].todo,
           d.req = call[t].req, d.status = call[t].status,
           d.pc \in {"attemptPeek", "attemptProbe", "calling", "penaltyPeek",
                     "penaltyRead", "penalise"},
           d.pc = "calling" => d.req.kind = "cascade", AtHand(d, S)
    PROVE  Serves(t, S)
<1>1. Falls(d, S)
  BY DEF Falls
<1>2. Attends(d, S)
  BY <1>1 DEF Attends, Collects, Pools, FiltersWell, Kinds
<1> QED
  BY <1>2, ServesOn

\* The look-ups and the check of a cascade serve: it passes over a name only
\* when it is not registered or in cooldown, and gives up only at the end.
LEMMA AttemptsServe ==
    ASSUME TypeOK, NEW t \in Thread, Attends(call[t], steady[t]),
           \A n \in steady[t] : n \in Provider /\ Available(n),
           Attempt(t) \/ AttemptPeek(t) \/ AttemptProbe(t)
    PROVE  Serves(t, steady[t])
<1> DEFINE c == call[t]
           S == steady[t]
           m == Head(c.todo)
<1>1. /\ c \in CallRecord /\ WellFormed(c) /\ c.req.names \in Seq(Provider)
      /\ c.req.kind = "cascade"
  BY CallType, Fields DEF WellFormed, Attempt, AttemptPeek, AttemptProbe
<1>2. Attempting(c) /\ Falls(c, S) /\ AtHand(c, S)
  BY DEF Attends, Attempting, Attempt, AttemptPeek, AttemptProbe
<1>3. /\ "NO_CANDIDATES" \in Status /\ "ALL_UNHEALTHY" \in Status
  BY DEF Status
<1>4. CASE Attempt(t)
  <2> DEFINE d == [c EXCEPT !.pc = "attemptPeek"]
             r == Returned(c, Verdict(c.attempts))
  <2>1. /\ d.pc = "attemptPeek" /\ d.todo = c.todo /\ d.req = c.req
        /\ d.status = c.status
    <3> HIDE DEF c
    <3> QED  BY <1>1 DEF CallRecord
  <2>2. CASE Become(t, d)
    <3>1. AtHand(d, S)
      <4> HIDE DEF d
      <4> QED  BY <2>1 DEF AtHand
    <3> HIDE DEF d
    <3> QED  BY <1>2, <2>1, <2>2, <3>1, StaysOn
  <2>3. CASE c.todo # <<>> /\ ~Registered(m)
             /\ Become(t, NextAttempt(c, "NO_CANDIDATES"))
    <3>1. m \notin S
      BY <2>3 DEF Available
    <3> QED
      BY <1>2, <1>3, <2>3, <3>1, GoesOn
  <2>4. CASE c.todo = <<>> /\ Become(t, r)
    <3>1. Verdict(c.attempts) \in Status
      BY DEF Verdict, Status
    <3>2. call'[t].pc = "returned"
      BY <1>1, <2>4, <3>1, BecomeCall, LeavesFilter
    <3>3. \A k \in DOMAIN c.req.names : c.req.names[k] \notin S
      <4>1. PICK p \in Nat : /\ Rest(c.req.names, c.todo, p)
                             /\ \A k \in 1..p : c.req.names[k] \notin S
        BY <1>2 DEF Falls
      <4>2. p = Len(c.req.names)
        BY <1>1, <2>4, <4>1, RestEnds
      <4> QED
        BY <1>1, <4>1, <4>2
    <3>4. DecidesWell(t)
      BY <1>1, <3>3 DEF DecidesWell, Candidates
    <3> QED
      BY <3>2, <3>4, AttendsNothing DEF Serves
  <2> QED
    BY <1>4, <2>2, <2>3, <2>4 DEF Attempt, Reads
<1>5. CASE AttemptPeek(t)
  <2> DEFINE i == record[m]
             d == [c EXCEPT !.pc = "attemptProbe", !.held = i]
  <2>1. /\ d.pc = "attemptProbe" /\ d.todo = c.todo /\ d.req = c.req
        /\ d.status = c.status /\ d.held = i
    <3> HIDE DEF c, i
    <3> QED  BY <1>1 DEF CallRecord
  <2>2. Become(t, d)
    BY <1>5 DEF AttemptPeek, Reads
  <2>3. AtHand(d, S)
    <3> HIDE DEF d
    <3> QED  BY <2>1 DEF AtHand
  <2> HIDE DEF d
  <2> QED
    BY <1>2, <2>1, <2>2, <2>3, StaysOn
<1>6. CASE AttemptProbe(t)
  <2> DEFINE d == [c EXCEPT !.pc = "calling"]
  <2>1. /\ d.pc = "calling" /\ d.todo = c.todo /\ d.req = c.req
        /\ d.status = c.status
    <3> HIDE DEF c
    <3> QED  BY <1>1 DEF CallRecord
  <2>2. CASE Become(t, d)
    <3>1. AtHand(d, S)
      <4> HIDE DEF d
      <4> QED  BY <2>1 DEF AtHand
    <3> HIDE DEF d
    <3> QED  BY <1>1, <1>2, <2>1, <2>2, <3>1, StaysOn
  <2>3. CASE c.held # NoRecord /\ ~IsHealthy(health[c.held])
             /\ Become(t, NextAttempt(c, "ALL_UNHEALTHY"))
    <3>1. c.todo # <<>> /\ c.pc = "attemptProbe"
      BY <1>1, <1>6 DEF WellFormed, AttemptProbe
    <3>2. m \notin S
      <4> SUFFICES ASSUME m \in S  PROVE FALSE
        OBVIOUS
      <4>1. c.held = record[m]
        BY <1>2, <3>1 DEF AtHand
      <4>2. health[record[m]].cooldown = 0
        BY DEF Available
      <4> QED
        BY <2>3, <4>1, <4>2 DEF IsHealthy
    <3> QED
      BY <1>2, <1>3, <2>3, <3>1, <3>2, GoesOn
  <2> QED
    BY <1>6, <2>2, <2>3 DEF AttemptProbe, Reads
<1> QED
  BY <1>4, <1>5, <1>6

\* The answers of the providers serve.
LEMMA AnswersServe ==
    ASSUME TypeOK, NEW t \in Thread, Attends(call[t], steady[t]),
           \A n \in steady[t] : n \in Provider /\ Available(n),
           Succeed(t) \/ FailInvoke(t) \/ FailAttempt(t)
              \/ PenaltyPeek(t) \/ PenaltyRead(t)
    PROVE  Serves(t, steady[t])
<1> DEFINE c == call[t]
           S == steady[t]
           m == Head(c.todo)
<1>1. /\ c \in CallRecord /\ WellFormed(c) /\ c.req.names \in Seq(Provider)
      /\ c.status \in Status /\ c.todo \in Seq(Provider)
  BY CallType, Fields
<1>2. c.todo # <<>> /\ m \in Provider
  <2>1. c.todo # <<>>
    BY <1>1 DEF WellFormed, Succeed, FailInvoke, FailAttempt, PenaltyPeek,
                PenaltyRead
  <2> QED
    BY <1>1, <2>1, Fields
<1>3. Kinds(c) /\ Falls(c, S) /\ AtHand(c, S)
  BY DEF Attends
<1>4. "SUCCESS" \in Status /\ "FAILED" \in Status /\ "RAISED" \in Status
  BY DEF Status
<1>5. CASE Succeed(t) /\ c.req.kind = "invoke"
  <2>1. Become(t, Returned(c, c.status))
    BY <1>5 DEF Succeed
  <2> QED
    BY <1>1, <2>1, ServesReturned
<1>6. CASE Succeed(t) /\ c.req.kind # "invoke"
  <2> DEFINE e == [c EXCEPT !.chosen = m]
             r == Returned(e, "SUCCESS")
  <2>1. Become(t, r) /\ c.pc = "calling"
    BY <1>6 DEF Succeed, NextAttempt
  <2>2. c.req.kind = "cascade"
    BY <1>3, <1>6, <2>1 DEF Kinds
  <2>3. e \in CallRecord /\ e.chosen = m
    <3> HIDE DEF c, m
    <3> QED  BY <1>1, <1>2 DEF CallRecord
  <2>4. r.pc = "returned" /\ r.chosen = m
    <3> HIDE DEF e
    <3>1. r.pc = "returned"
      BY <1>4, <2>3, LeavesFilter
    <3>2. r.chosen = e.chosen
      BY IdleType DEF Returned, CallRecord
    <3> QED
      BY <2>3, <3>1, <3>2
  <2>5. call'[t] = r
    BY <2>1, BecomeCall
  <2>6. PICK p \in Nat : /\ Rest(c.req.names, c.todo, p)
                         /\ \A k \in 1..p : c.req.names[k] \notin S
    BY <1>3, <2>1, <2>2 DEF Falls, Attempting
  <2>7. p + 1 \in 1..Len(c.req.names) /\ m = c.req.names[p + 1]
    <3> HIDE DEF c
    <3> QED  BY <1>1, <1>2, <2>6, RestNext
  <2>8. ASSUME NEW k \in DOMAIN c.req.names, c.req.names[k] \in S
        PROVE  p + 1 \in 1..k
    <3>1. k \in Nat /\ k >= 1
      BY <1>1
    <3>2. ~(k \in 1..p)
      BY <2>6, <2>8
    <3> QED
      BY <3>1, <3>2
  <2>9. DecidesWell(t)
    <3> HIDE DEF r
    <3> QED
      BY <1>2, <2>2, <2>4, <2>5, <2>7, <2>8
         DEF DecidesWell, Candidates, Eligible
  <2> HIDE DEF r
  <2> QED
    BY <2>4, <2>5, <2>9, AttendsNothing DEF Serves
<1>7. CASE FailInvoke(t)
  <2> DEFINE r == Returned(c, c.status)
             d == [r EXCEPT !.ok = FALSE]
  <2>1. Become(t, d)
    BY <1>7 DEF FailInvoke
  <2>2. r \in CallRecord /\ r.pc = "returned" /\ r.status = c.status
    <3>1. r \in CallRecord /\ r.pc = "returned"
      BY <1>1, ReturnedType, LeavesFilter
    <3>2. r.status = c.status
      BY IdleType DEF Returned, CallRecord
    <3> QED
      BY <3>1, <3>2
  <2>3. d.pc = "returned" /\ d.status = c.status
    <3> HIDE DEF r
    <3> QED  BY <2>2 DEF CallRecord
  <2> HIDE DEF d
  <2> QED
    BY <2>1, <2>3, AttendsNothing, ServesOn
<1>8. CASE FailAttempt(t)
  <2> DEFINE d == [c EXCEPT !.pc = "penaltyPeek"]
  <2>1. /\ d.pc = "penaltyPeek" /\ d.todo = c.todo /\ d.req = c.req
        /\ d.status = c.status
    <3> HIDE DEF c
    <3> QED  BY <1>1 DEF CallRecord
  <2>2. Become(t, d) /\ c.pc = "calling" /\ c.req.kind = "cascade"
    BY <1>8 DEF FailAttempt
  <2>3. AtHand(d, S)
    <3> HIDE DEF d
    <3> QED  BY <2>1 DEF AtHand
  <2>4. Attempting(c)
    BY <2>2 DEF Attempting
  <2> HIDE DEF d
  <2> QED
    BY <1>3, <2>1, <2>2, <2>3, <2>4, StaysOn
<1>9. CASE PenaltyPeek(t)
  <2> DEFINE i == record[m]
             d == [c EXCEPT !.pc = "penaltyRead", !.held = i]
  <2>1. /\ d.pc = "penaltyRead" /\ d.todo = c.todo /\ d.req = c.req
        /\ d.status = c.status /\ d.held = i
    <3> HIDE DEF c, i
    <3> QED  BY <1>1 DEF CallRecord
  <2>2. Attempting(c)
    BY <1>9 DEF Attempting, PenaltyPeek
  <2>3. CASE Become(t, d)
    <3>1. AtHand(d, S)
      <4> HIDE DEF d
      <4> QED  BY <2>1 DEF AtHand
    <3> HIDE DEF d
    <3> QED  BY <1>3, <2>1, <2>2, <2>3, <3>1, StaysOn
  <2>4. CASE i = NoRecord /\ Become(t, NextAttempt(c, "FAILED"))
    <3>1. m \notin S
      BY <2>4 DEF Available, Registered
    <3> QED
      BY <1>2, <1>3, <1>4, <2>2, <2>4, <3>1, GoesOn
  <2> QED
    BY <1>9, <2>3, <2>4 DEF PenaltyPeek, Reads
<1>10. CASE PenaltyRead(t)
  <2> DEFINE n == health[c.held].consecutive_failures
             d == [c EXCEPT !.pc = "penalise", !.streak = n]
  <2>1. /\ d.pc = "penalise" /\ d.todo = c.todo /\ d.req = c.req
        /\ d.status = c.status /\ d.held = c.held
    <3> HIDE DEF c, n
    <3> QED  BY <1>1 DEF CallRecord
  <2>2. Attempting(c) /\ c.pc = "penaltyRead"
    BY <1>10 DEF Attempting, PenaltyRead
  <2>3. CASE Become(t, d)
    <3>1. AtHand(d, S)
      <4> HIDE DEF c, d
      <4> QED  BY <1>3, <2>1, <2>2 DEF AtHand
    <3> HIDE DEF d
    <3> QED  BY <1>3, <2>1, <2>2, <2>3, <3>1, StaysOn
  <2>4. CASE Become(t, Returned(c, "RAISED"))
    BY <1>4, <2>4, ServesReturned
  <2> QED
    BY <1>10, <2>3, <2>4 DEF PenaltyRead, Reads
<1> QED
  BY <1>5, <1>6, <1>7, <1>8, <1>9, <1>10

\* A penalty serves all names but the one it is for, which it makes unsteady.
LEMMA PenaliseServes ==
    ASSUME TypeOK, NEW t \in Thread, Attends(call[t], steady[t]),
           \A n \in steady[t] : n \in Provider /\ Available(n), Penalise(t)
    PROVE  /\ Serves(t, steady[t] \ {Head(call[t].todo)})
           /\ \A n \in steady[t] :
                 n = Head(call[t].todo) => ~Available(n)'
<1> DEFINE c == call[t]
           S == steady[t]
           m == Head(c.todo)
           S2 == S \ {m}
<1>1. /\ c.pc = "penalise" /\ Become(t, NextAttempt(c, "FAILED"))
      /\ health' = [health EXCEPT ![c.held] = RecordFailure(@, Backoff(c.streak))]
      /\ UNCHANGED registry
  BY DEF Penalise
<1>2. c \in CallRecord /\ WellFormed(c) /\ c.streak \in Nat
  BY CallType DEF CallRecord
<1>3. c.todo # <<>>
  BY <1>1, <1>2 DEF WellFormed
<1>4. Attempting(c) /\ Falls(c, S2)
  <2>1. Attends(c, S2)
    BY AttendsLess
  <2> QED
    BY <1>1, <2>1 DEF Attends, Attempting
<1>5. Serves(t, S2)
  <2>1. m \notin S2
    OBVIOUS
  <2> HIDE DEF S2, m
  <2> QED
    BY <1>1, <1>3, <1>4, <2>1, GoesOn DEF Status, m
<1>6. ASSUME NEW n \in S, n = m  PROVE ~Available(n)'
  <2>1. c.held = record[n] /\ n \in Provider /\ Registered(n)
    BY <1>1, <1>6 DEF Attends, AtHand, Available
  <2>2. c.held \in Records
    BY <2>1, RecordType
  <2> DEFINE b == Backoff(c.streak)
  <2>3. b > 0
    BY <1>2, BackoffType
  <2>4. health'[c.held].cooldown = b
    <3> HIDE DEF b, c
    <3> QED  BY <1>1, <2>2 DEF TypeOK, RecordFailure, Health, b
  <2>5. b # 0
    <3>1. b \in Int
      BY <1>2, BackoffType
    <3> HIDE DEF b
    <3> QED  BY <2>3, <3>1
  <2>6. record'[n] = c.held
    BY <1>1, <2>1 DEF registry
  <2> HIDE DEF b
  <2> QED
    BY <2>4, <2>5, <2>6 DEF Available
<1> QED
  BY <1>5, <1>6

\* The end of a reset, and of a call, decide nothing.
LEMMA LeavesServe ==
    ASSUME TypeOK, NEW t \in Thread, ResetOne(t) \/ Return(t), NEW S
    PROVE  Serves(t, S)
<1> DEFINE c == call[t]
<1>1. c \in CallRecord
  BY CallType
<1>2. CASE Become(t, Returned(c, "none"))
  BY <1>2, ServesReturned DEF Status
<1>3. CASE Become(t, Idle)
  <2>1. call'[t] = Idle /\ Idle.pc = "idle" /\ Idle.status = "none"
    BY <1>3, BecomeCall DEF Idle
  <2> QED
    BY <2>1, AttendsNothing DEF Serves, Decides
<1>4. ASSUME NEW i \in c.targets, c.pc = "resetting",
             Become(t, [c EXCEPT !.targets = @ \ {i}])
      PROVE  Serves(t, S)
  <2> DEFINE rest == c.targets \ {i}
             d == [c EXCEPT !.targets = rest]
  <2>1. d.pc = "resetting" /\ d.status = c.status
    <3> HIDE DEF c, rest
    <3> QED  BY <1>1, <1>4 DEF CallRecord
  <2>2. Become(t, d)
    BY <1>4
  <2> HIDE DEF d
  <2> QED
    BY <2>1, <2>2, AttendsNothing, ServesOn
<1> QED
  BY <1>2, <1>3, <1>4 DEF ResetOne, Return, Reads

\* A call begins with everything to be done.
LEMMA StartAttends ==
    ASSUME TypeOK, NEW t \in Thread, Start(t), NEW S
    PROVE  Attends(call'[t], S)
<1>1. ASSUME NEW r \in Request
      PROVE  /\ Begun(r) \in CallRecord /\ Begun(r).req = r
             /\ Begun(r).todo = r.names /\ Begun(r).pool = <<>>
             /\ Begun(r).healthy = <<>>
             /\ r.names \in Seq(Provider) /\ r.accepts \subseteq Provider
  <2>1. Begun(r).pool = <<>> /\ Begun(r).healthy = <<>>
    BY IdleType DEF Begun, CallRecord, Idle
  <2> QED
    BY <1>1, <2>1, BegunType
<1>2. \A q : From(<<>>, q, 0)
  BY DEF From
<1>3. 1..0 = {} /\ 0 \in Nat
  OBVIOUS
<1>4. CASE StartOverAll(t)
  <2>1. PICK r \in Request :
          /\ r.kind \in {"route", "invoke"} /\ r.all
          /\ \E q \in Listings({n \in r.accepts : Registered(n)}) : \E s :
                Starts(t, [Begun(r) EXCEPT !.pc = "peek", !.pool = q,
                                           !.todo = q, !.skipped = s])
    BY <1>4 DEF StartOverAll
  <2>2. PICK q \in Listings({n \in r.accepts : Registered(n)}) : \E s :
          Starts(t, [Begun(r) EXCEPT !.pc = "peek", !.pool = q,
                                     !.todo = q, !.skipped = s])
    BY <2>1
  <2>10. PICK s :
          Starts(t, [Begun(r) EXCEPT !.pc = "peek", !.pool = q,
                                     !.todo = q, !.skipped = s])
    BY <2>2
  <2>3. q \in Seq(Provider) /\ \A i \in DOMAIN q : q[i] \in r.accepts
    <3>1. {n \in r.accepts : Registered(n)} \in SUBSET Provider
      BY <1>1
    <3>2. q \in Seq(Provider)
      BY <3>1, ListingsType
    <3> QED
      BY <3>2 DEF Listings
  <2> DEFINE b == Begun(r)
             d == [b EXCEPT !.pc = "peek", !.pool = q, !.todo = q, !.skipped = s]
  <2>4. /\ d.pc = "peek" /\ d.todo = q /\ d.pool = q /\ d.req = r
        /\ d.healthy = <<>>
    <3>1. b \in CallRecord /\ b.req = r /\ b.healthy = <<>>
      BY <1>1
    <3> HIDE DEF b
    <3> QED  BY <3>1 DEF CallRecord
  <2>5. call'[t] = d
    BY <2>10, BecomeCall DEF Starts
  <2> HIDE DEF d
  <2>6. Candidates(d) = q
    BY <2>1, <2>4 DEF Candidates
  <2>7. Pools(d, S)
    BY <2>1, <2>3, <2>4, <2>6, ListedSelf DEF Pools
  <2>8. FiltersWell(d, S)
    BY <1>2, <1>3, <2>3, <2>4, RestEnds DEF FiltersWell
  <2>9. Attends(d, S)
    BY <2>4, <2>7, <2>8 DEF Attends, Collects, Kinds, Falls, Attempting, AtHand
  <2> QED
    BY <2>5, <2>9
<1>5. CASE StartOverNames(t)
  <2>1. PICK r \in Request :
          /\ r.kind \in {"route", "invoke"} /\ ~r.all
          /\ Starts(t, [Begun(r) EXCEPT !.pc = IF r.names = <<>> THEN "peek"
                                               ELSE "collect"])
    BY <1>5 DEF StartOverNames
  <2> DEFINE b == Begun(r)
             pc == IF r.names = <<>> THEN "peek" ELSE "collect"
             d == [b EXCEPT !.pc = pc]
  <2>2. /\ d.pc = pc /\ d.todo = r.names /\ d.pool = <<>> /\ d.req = r
        /\ d.healthy = <<>>
    <3>1. /\ b \in CallRecord /\ b.req = r /\ b.healthy = <<>>
          /\ b.todo = r.names /\ b.pool = <<>>
      BY <1>1
    <3> HIDE DEF b, pc
    <3> QED  BY <3>1 DEF CallRecord
  <2>3. call'[t] = d
    BY <2>1, BecomeCall DEF Starts
  <2>4. pc \in {"peek", "collect"} /\ (pc = "peek" => r.names = <<>>)
    OBVIOUS
  <2>5. Rest(r.names, r.names, 0)
    BY <1>1, RestEnds
  <2> HIDE DEF d, pc
  <2>6. Collects(d, S)
    BY <1>2, <1>3, <2>1, <2>2, <2>5 DEF Collects
  <2>7. Pools(d, S)
    <3>1. Candidates(d) = r.names
      BY <2>1, <2>2 DEF Candidates
    <3> QED
      BY <2>1, <2>2, <2>4, <3>1 DEF Pools
  <2>8. FiltersWell(d, S)
    <3>1. d.pc = "peek" => Rest(d.pool, d.todo, 0)
      BY <2>2, <2>4, <2>5
    <3>2. From(d.healthy, d.pool, 0)
      BY <1>2, <2>2
    <3>3. d.pc \in {"peek", "probe"} => d.pc = "peek"
      BY <2>2, <2>4
    <3> QED
      BY <1>3, <3>1, <3>2, <3>3 DEF FiltersWell
  <2>9. Attends(d, S)
    BY <2>2, <2>4, <2>6, <2>7, <2>8
       DEF Attends, Kinds, Falls, Attempting, AtHand
  <2> QED
    BY <2>3, <2>9
<1>6. CASE StartCascade(t)
  <2>1. PICK r \in Request : Starts(t, [Begun(r) EXCEPT !.pc = "attempt"])
    BY <1>6 DEF StartCascade
  <2> DEFINE b == Begun(r)
             d == [b EXCEPT !.pc = "attempt"]
  <2>2. d.pc = "attempt" /\ d.todo = r.names /\ d.req = r
    <3>1. b \in CallRecord /\ b.req = r /\ b.todo = r.names
      BY <1>1
    <3> HIDE DEF b
    <3> QED  BY <3>1 DEF CallRecord
  <2>3. call'[t] = d
    BY <2>1, BecomeCall DEF Starts
  <2>4. Rest(r.names, r.names, 0)
    BY <1>1, RestEnds
  <2> HIDE DEF d
  <2>5. Falls(d, S)
    BY <1>3, <2>2, <2>4 DEF Falls
  <2>6. Attends(d, S)
    BY <2>2, <2>5 DEF Attends, Collects, Pools, FiltersWell, Kinds, AtHand
  <2> QED
    BY <2>3, <2>6
<1>7. CASE StartReset(t)
  <2>1. PICK r \in Request : \E s :
          Starts(t, [Begun(r) EXCEPT !.pc = "resetting", !.targets = s])
    BY <1>7 DEF StartReset
  <2>4. PICK s :
          Starts(t, [Begun(r) EXCEPT !.pc = "resetting", !.targets = s])
    BY <2>1
  <2> DEFINE b == Begun(r)
             d == [b EXCEPT !.pc = "resetting", !.targets = s]
  <2>2. d.pc = "resetting"
    <3>1. b \in CallRecord
      BY <1>1
    <3> HIDE DEF b
    <3> QED  BY <3>1 DEF CallRecord
  <2>3. call'[t] = d
    BY <2>4, BecomeCall DEF Starts
  <2> HIDE DEF d
  <2> QED
    BY <2>2, <2>3, AttendsNothing
<1> QED
  BY <1>4, <1>5, <1>6, <1>7 DEF Start

\* Names only cease to be steady while a call goes on, and a steady name is
\* available on the record it had.
LEMMA SteadyStep ==
    ASSUME TypeOK, Attentive, [Next]_vars, NEW t \in Thread
    PROVE  \A n \in steady'[t] :
              /\ Busy(t)' /\ n \in Provider /\ Available(n)'
              /\ Busy(t) => n \in steady[t] /\ record'[n] = record[n]
<1>1. CASE UNCHANGED vars
  <2>1. UNCHANGED <<record, health, call, steady>>
    BY <1>1 DEF vars, registry, history
  <2> QED
    BY <2>1 DEF Attentive, Available, Registered, Busy
<1>2. CASE Observe
  <2>1. steady'[t] =
          IF ~Busy(t)' THEN {}
          ELSE {n \in IF Busy(t) THEN steady[t] ELSE Provider :
                   Available(n)' /\ (Busy(t) => record'[n] = record[n])}
    BY <1>2 DEF Observe
  <2>2. \A n \in steady[t] : n \in Provider
    BY DEF Attentive
  <2> QED
    BY <2>1, <2>2
<1> QED
  BY <1>1, <1>2, Observed

\* Every step of a call serves the names that stay steady over it.
LEMMA StepServes ==
    ASSUME TypeOK, Attentive, [Next]_vars, NEW t \in Thread, Step(t)
    PROVE  Attends(call'[t], steady'[t]) /\ (Decides(t) => DecidesWell(t))
<1>1. Busy(t)
  BY DEF Step, Busy, Collect, Rescan, Peek, Probe, Pick, Lookup,
         LookupHealth, Attempt, AttemptPeek, AttemptProbe, Succeed,
         FailInvoke, FailAttempt, PenaltyPeek, PenaltyRead, Penalise,
         ResetOne, Return
<1>2. /\ Attends(call[t], steady[t])
      /\ \A n \in steady[t] : n \in Provider /\ Available(n)
  BY DEF Attentive
<1>3. \A n \in steady'[t] : n \in steady[t] /\ Available(n)'
  BY <1>1, SteadyStep
<1>4. \E S : Serves(t, S) /\ steady'[t] \subseteq S
  <2>1. CASE Penalise(t)
    <3> DEFINE m == Head(call[t].todo)
    <3>1. Serves(t, steady[t] \ {m})
      BY <1>2, <2>1, PenaliseServes
    <3>2. \A n \in steady[t] : n = m => ~Available(n)'
      BY <1>2, <2>1, PenaliseServes
    <3>3. steady'[t] \subseteq steady[t] \ {m}
      <4> HIDE DEF m
      <4> QED  BY <1>3, <3>2
    <3> QED
      BY <3>1, <3>3
  <2>2. CASE ~Penalise(t)
    <3>1. Serves(t, steady[t])
      BY <1>2, <2>2, CollectServes, RescanServes, PeekServes, ProbeServes,
         PickServes, LookupServes, AttemptsServe, AnswersServe, LeavesServe
         DEF Step
    <3> QED
      BY <1>3, <3>1
  <2> QED
    BY <2>1, <2>2
<1> QED
  BY <1>4, AttendsLess DEF Serves

\* Attention is a matter of the call, its steady names and their records.
LEMMA AttendsFrame ==
    ASSUME NEW t \in Thread, Attends(call'[t], steady'[t]),
           \A n \in steady'[t] : record'[n] = record[n]
    PROVE  Attends(call[t], steady[t])'
<1>1. PICK d : d = call'[t]
  OBVIOUS
<1>2. PICK S : S = steady'[t]
  OBVIOUS
<1>3. /\ Collects(d, S) /\ Pools(d, S) /\ FiltersWell(d, S)
      /\ Kinds(d) /\ Falls(d, S) /\ AtHand(d, S)
  BY <1>1, <1>2 DEF Attends
<1>4. Collects(call[t], steady[t])'
  BY <1>1, <1>2, <1>3 DEF Collects
<1>5. Pools(call[t], steady[t])'
  BY <1>1, <1>2, <1>3 DEF Pools, Candidates, Eligible
<1>6. FiltersWell(call[t], steady[t])'
  BY <1>1, <1>2, <1>3 DEF FiltersWell
<1>7. Kinds(call[t])'
  BY <1>1, <1>3 DEF Kinds
<1>8. Falls(call[t], steady[t])'
  BY <1>1, <1>2, <1>3 DEF Falls, Attempting
<1>9. AtHand(call[t], steady[t])'
  BY <1>1, <1>2, <1>3 DEF AtHand
<1> QED
  BY <1>4, <1>5, <1>6, <1>7, <1>8, <1>9 DEF Attends

\* Every step serves every call.
LEMMA AttentiveNext ==
    ASSUME TypeOK, Attentive, [Next]_vars
    PROVE  /\ Attentive'
           /\ \A t \in Thread : Decides(t) => DecidesWell(t)
<1>1. ASSUME NEW t \in Thread  PROVE Attends(call[t], steady[t])
  BY DEF Attentive
<1>2. ASSUME NEW t \in Thread
      PROVE  \A n \in steady'[t] : Busy(t)' /\ n \in Provider /\ Available(n)'
  BY <1>2, SteadyStep
<1>3. ASSUME NEW t \in Thread, call'[t] = call[t]
      PROVE  Attends(call[t], steady[t])' /\ ~Decides(t)
  <2>1. ~Decides(t)
    BY <1>3 DEF Decides
  <2>2. CASE Busy(t)
    <3>1. \A n \in steady'[t] : n \in steady[t] /\ record'[n] = record[n]
      BY <2>2, SteadyStep
    <3>2. Attends(call'[t], steady'[t])
      BY <1>1, <1>3, <3>1, AttendsLess
    <3> QED
      BY <2>1, <3>1, <3>2, AttendsFrame
  <2>3. CASE ~Busy(t)
    <3>1. call'[t].pc = "idle"
      BY <1>3, <2>3 DEF Busy
    <3>2. Attends(call[t], steady[t])'
      BY <3>1
         DEF Attends, Collects, Pools, FiltersWell, Kinds, Falls, Attempting,
             AtHand
    <3> QED
      BY <2>1, <3>2
  <2> QED
    BY <2>2, <2>3
<1>4. ASSUME NEW t \in Thread, Start(t) \/ Step(t)
      PROVE  Attends(call[t], steady[t])' /\ (Decides(t) => DecidesWell(t))
  <2>1. UNCHANGED record
    BY <1>4, CallKeepsRegistry DEF registry
  <2>2. Attends(call'[t], steady'[t]) /\ (Decides(t) => DecidesWell(t))
    <3>1. CASE Start(t)
      <4>1. ~Busy(t)
        BY <3>1 DEF Start, StartOverAll, StartOverNames, StartCascade,
                    StartReset, Starts
      <4> QED
        BY <3>1, <4>1, StartAttends DEF Decides
    <3>2. CASE Step(t)
      BY <3>2, StepServes
    <3> QED
      BY <1>4, <3>1, <3>2
  <2> QED
    BY <2>1, <2>2, AttendsFrame
<1>5. ASSUME NEW t \in Thread
      PROVE  Attends(call[t], steady[t])' /\ (Decides(t) => DecidesWell(t))
  <2>1. ASSUME NEW u \in Thread, Start(u) \/ Step(u)
        PROVE  Attends(call[t], steady[t])' /\ (Decides(t) => DecidesWell(t))
    <3>1. u # t => call'[t] = call[t]
      BY <2>1, CallMovesOne
    <3> QED
      BY <1>3, <1>4, <2>1, <3>1
  <2>2. ASSUME UNCHANGED call
        PROVE  Attends(call[t], steady[t])' /\ (Decides(t) => DecidesWell(t))
    BY <1>3, <2>2
  <2> QED
    BY <2>1, <2>2 DEF Next, Register, Unregister, Tick, vars
<1> QED
  BY <1>2, <1>5 DEF Attentive

\* Neither route nor invoke nor Cascade.run passes over a provider that stays
\* registered and out of cooldown throughout the call, whatever the other
\* threads, the registrations and the clock do between the steps of its scan.
THEOREM SteadyCorrect == Spec => NothingSteadyOverlooked
<1>1. Init => Attentive
  <2> SUFFICES ASSUME Init, NEW t \in Thread
               PROVE  steady[t] = {} /\ Attends(call[t], steady[t])
    BY DEF Attentive
  <2>1. call[t].pc = "idle"
    BY DEF Init, Idle
  <2> QED
    BY <2>1, AttendsNothing DEF Init
<1>2. TypeOK /\ Attentive /\ [Next]_vars => Attentive'
  BY AttentiveNext
<1>3. TypeOK /\ Attentive /\ [Next]_vars =>
        [\A t \in Thread : Decides(t) => DecidesWell(t)]_vars
  BY AttentiveNext
<1> QED
  BY <1>1, <1>2, <1>3, TypeCorrect, PTL DEF Spec, NothingSteadyOverlooked

-----------------------------------------------------------------------------
(* The reset of the cooldowns                                              *)

\* What a reset under way has yet to do, it still has on its list: a name it
\* was asked for is excused or its record is a target.
Pending(c, t) ==
    c.pc = "resetting" =>
        \A n \in Wanted(c.req) : Excused(t, record[n]) \/ record[n] \in c.targets

ResetsPending == \A t \in Thread : Pending(call[t], t)

\* The ends of an attempt and of a call are no reset.
LEMMA LeavesNoReset ==
    ASSUME NEW c \in CallRecord, NEW s \in Status
    PROVE  /\ Returned(c, s).pc # "resetting"
           /\ c.todo # <<>> => NextAttempt(c, s).pc # "resetting"
<1>1. ASSUME NEW e \in CallRecord  PROVE Returned(e, s).pc = "returned"
  BY <1>1, IdleType DEF Returned, CallRecord, Idle
<1>2. CASE s = "SUCCESS" /\ c.todo # <<>>
  <2> DEFINE n == Head(c.todo)
             d == [c EXCEPT !.chosen = n]
  <2>1. n \in Provider
    BY <1>2, Fields
  <2>2. d \in CallRecord
    <3> HIDE DEF n
    <3> QED  BY <2>1 DEF CallRecord
  <2>3. NextAttempt(c, s) = Returned(d, s)
    BY <1>2 DEF NextAttempt
  <2> HIDE DEF d
  <2> QED
    BY <1>1, <2>2, <2>3
<1>3. CASE s # "SUCCESS" /\ c.todo # <<>>
  <2> DEFINE rest == Tail(c.todo)
             tried == Append(c.attempts, s)
  <2> HIDE DEF rest, tried
  <2>1. NextAttempt(c, s) =
          [c EXCEPT !.pc = "attempt", !.todo = rest, !.held = NoRecord,
                    !.streak = 0, !.attempts = tried]
    BY <1>3 DEF NextAttempt, rest, tried
  <2> QED
    BY <1>1, <2>1 DEF CallRecord
<1> QED
  BY <1>1, <1>2, <1>3

\* Only the steps of a reset leave a call in the middle of one.
LEMMA OtherStepsNoReset ==
    ASSUME TypeOK, NEW t \in Thread, Step(t), ~ResetOne(t)
    PROVE  call'[t].pc # "resetting"
<1> DEFINE c == call[t]
<1>1. c \in CallRecord /\ WellFormed(c) /\ c.status \in Status
  BY CallType, Fields
<1>2. ASSUME NEW d, Become(t, d), d.pc # "resetting"
      PROVE  call'[t].pc # "resetting"
  BY <1>2, BecomeCall
<1>3. ASSUME NEW s \in Status, Become(t, Returned(c, s))
      PROVE  call'[t].pc # "resetting"
  BY <1>1, <1>3, <1>2, LeavesNoReset
<1>4. ASSUME NEW s \in Status, c.todo # <<>>, Become(t, NextAttempt(c, s))
      PROVE  call'[t].pc # "resetting"
  BY <1>1, <1>4, <1>2, LeavesNoReset
<1>5. {"SUCCESS", "FAILED", "RAISED", "NO_CANDIDATES", "ALL_UNHEALTHY", "none"}
        \subseteq Status
  BY DEF Status
<1>6. CASE Collect(t)
  <2> DEFINE n == Head(c.todo)
             rest == Tail(c.todo)
             pool == IF Registered(n) /\ n \in c.req.accepts
                     THEN Append(c.pool, n) ELSE c.pool
             rejected == IF Registered(n) /\ n \notin c.req.accepts
                         THEN {n} ELSE {}
             skipped == c.skipped \cup rejected
             pc == IF rest = <<>> THEN "rescan" ELSE c.pc
             todo == IF rest = <<>> THEN c.req.names ELSE rest
             d == [c EXCEPT !.pool = pool, !.skipped = skipped,
                            !.pc = pc, !.todo = todo]
  <2>1. Become(t, d) /\ pc \in {"collect", "rescan"}
    BY <1>6 DEF Collect, Reads
  <2>2. d.pc = pc
    <3> HIDE DEF c, pool, skipped, pc, todo
    <3> QED  BY <1>1 DEF CallRecord
  <2> QED
    <3> HIDE DEF d, pc
    <3> QED  BY <1>2, <2>1, <2>2
<1>7. CASE Rescan(t)
  <2> DEFINE n == Head(c.todo)
             rest == Tail(c.todo)
             skipped == IF Registered(n) THEN c.skipped
                        ELSE c.skipped \cup {n}
             pc == IF rest = <<>> THEN "peek" ELSE c.pc
             todo == IF rest = <<>> THEN c.pool ELSE rest
             d == [c EXCEPT !.skipped = skipped, !.pc = pc, !.todo = todo]
  <2>1. Become(t, d) /\ pc \in {"peek", "rescan"}
    BY <1>7 DEF Rescan, Reads
  <2>2. d.pc = pc
    <3> HIDE DEF c, skipped, pc, todo
    <3> QED  BY <1>1 DEF CallRecord
  <2> QED
    <3> HIDE DEF d, pc
    <3> QED  BY <1>2, <2>1, <2>2
<1>8. CASE Probe(t)
  <2> DEFINE n == Head(c.todo)
             rest == Tail(c.todo)
             pass == c.held = NoRecord \/ IsHealthy(health[c.held])
             healthy == IF pass THEN Append(c.healthy, n) ELSE c.healthy
             skipped == IF pass THEN c.skipped ELSE c.skipped \cup {n}
             d == [c EXCEPT !.pc = "peek", !.todo = rest, !.held = NoRecord,
                            !.healthy = healthy, !.skipped = skipped]
  <2>1. Become(t, d)
    BY <1>8 DEF Probe, Reads
  <2>2. d.pc = "peek"
    <3> HIDE DEF c, rest, healthy, skipped
    <3> QED  BY <1>1 DEF CallRecord
  <2> QED
    <3> HIDE DEF d
    <3> QED  BY <1>2, <2>1, <2>2
<1>9. CASE Peek(t)
  <2> DEFINE v == record[Head(c.todo)]
             d == [c EXCEPT !.pc = "probe", !.held = v]
  <2>1. Become(t, d)
    BY <1>9, <1>1 DEF Peek, Reads, WellFormed
  <2>2. d.pc = "probe"
    <3> HIDE DEF c, v
    <3> QED  BY <1>1 DEF CallRecord
  <2> QED
    <3> HIDE DEF d, c
    <3> QED  BY <1>2, <2>1, <2>2
<1>10. CASE Lookup(t)
  <2> DEFINE d == [c EXCEPT !.pc = "lookupHealth"]
  <2>1. \/ Become(t, d)
        \/ Become(t, Returned(c, c.status))
    BY <1>10, <1>1 DEF Lookup, Reads, WellFormed
  <2>2. d.pc = "lookupHealth"
    <3> HIDE DEF c
    <3> QED  BY <1>1 DEF CallRecord
  <2> QED
    <3> HIDE DEF d, c
    <3> QED  BY <1>1, <1>2, <1>3, <1>4, <1>5, <2>1, <2>2
<1>11. CASE LookupHealth(t)
  <2> DEFINE v == record[c.chosen]
             d == [c EXCEPT !.pc = "calling", !.held = v]
  <2>1. \/ Become(t, d)
        \/ Become(t, Returned(c, c.status))
    BY <1>11, <1>1 DEF LookupHealth, Reads, WellFormed
  <2>2. d.pc = "calling"
    <3> HIDE DEF c, v
    <3> QED  BY <1>1 DEF CallRecord
  <2> QED
    <3> HIDE DEF d, c
    <3> QED  BY <1>1, <1>2, <1>3, <1>4, <1>5, <2>1, <2>2
<1>12. CASE Attempt(t)
  <2> DEFINE d == [c EXCEPT !.pc = "attemptPeek"]
  <2>1. \/ Become(t, d)
        \/ c.todo # <<>> /\ Become(t, NextAttempt(c, "NO_CANDIDATES"))
        \/ Become(t, Returned(c, Verdict(c.attempts)))
    BY <1>12, <1>1 DEF Attempt, Reads, WellFormed
  <2>2. d.pc = "attemptPeek"
    <3> HIDE DEF c
    <3> QED  BY <1>1 DEF CallRecord
  <2>3. Verdict(c.attempts) \in Status
    BY DEF Verdict, Status
  <2> QED
    <3> HIDE DEF d, c
    <3> QED  BY <1>1, <1>2, <1>3, <1>4, <1>5, <2>1, <2>2, <2>3
<1>13. CASE AttemptPeek(t)
  <2> DEFINE v == record[Head(c.todo)]
             d == [c EXCEPT !.pc = "attemptProbe", !.held = v]
  <2>1. Become(t, d)
    BY <1>13, <1>1 DEF AttemptPeek, Reads, WellFormed
  <2>2. d.pc = "attemptProbe"
    <3> HIDE DEF c, v
    <3> QED  BY <1>1 DEF CallRecord
  <2> QED
    <3> HIDE DEF d, c
    <3> QED  BY <1>2, <2>1, <2>2
<1>14. CASE AttemptProbe(t)
  <2> DEFINE d == [c EXCEPT !.pc = "calling"]
  <2>1. \/ Become(t, d)
        \/ c.todo # <<>> /\ Become(t, NextAttempt(c, "ALL_UNHEALTHY"))
    BY <1>14, <1>1 DEF AttemptProbe, Reads, WellFormed
  <2>2. d.pc = "calling"
    <3> HIDE DEF c
    <3> QED  BY <1>1 DEF CallRecord
  <2> QED
    <3> HIDE DEF d, c
    <3> QED  BY <1>1, <1>2, <1>3, <1>4, <1>5, <2>1, <2>2
<1>15. CASE FailAttempt(t)
  <2> DEFINE d == [c EXCEPT !.pc = "penaltyPeek"]
  <2>1. Become(t, d)
    BY <1>15, <1>1 DEF FailAttempt, WellFormed
  <2>2. d.pc = "penaltyPeek"
    <3> HIDE DEF c
    <3> QED  BY <1>1 DEF CallRecord
  <2> QED
    <3> HIDE DEF d, c
    <3> QED  BY <1>2, <2>1, <2>2
<1>16. CASE PenaltyPeek(t)
  <2> DEFINE v == record[Head(c.todo)]
             d == [c EXCEPT !.pc = "penaltyRead", !.held = v]
  <2>1. \/ Become(t, d)
        \/ c.todo # <<>> /\ Become(t, NextAttempt(c, "FAILED"))
    BY <1>16, <1>1 DEF PenaltyPeek, Reads, WellFormed
  <2>2. d.pc = "penaltyRead"
    <3> HIDE DEF c, v
    <3> QED  BY <1>1 DEF CallRecord
  <2> QED
    <3> HIDE DEF d, c
    <3> QED  BY <1>1, <1>2, <1>3, <1>4, <1>5, <2>1, <2>2
<1>17. CASE PenaltyRead(t)
  <2> DEFINE v == health[c.held].consecutive_failures
             d == [c EXCEPT !.pc = "penalise", !.streak = v]
  <2>1. \/ Become(t, d)
        \/ Become(t, Returned(c, "RAISED"))
    BY <1>17, <1>1 DEF PenaltyRead, Reads, WellFormed
  <2>2. d.pc = "penalise"
    <3> HIDE DEF c, v
    <3> QED  BY <1>1 DEF CallRecord
  <2> QED
    <3> HIDE DEF d, c
    <3> QED  BY <1>1, <1>2, <1>3, <1>4, <1>5, <2>1, <2>2
<1>18. CASE Succeed(t)
  <2>1. Become(t, Returned(c, c.status)) \/ Become(t, NextAttempt(c, "SUCCESS"))
    BY <1>18 DEF Succeed
  <2>2. c.todo # <<>>
    BY <1>1, <1>18 DEF Succeed, WellFormed
  <2> QED
    BY <1>1, <1>3, <1>4, <1>5, <2>1, <2>2
<1>19. CASE FailInvoke(t)
  <2> DEFINE r == Returned(c, c.status)
             d == [r EXCEPT !.ok = FALSE]
  <2>1. Become(t, d)
    BY <1>19 DEF FailInvoke
  <2>2. r \in CallRecord /\ r.pc # "resetting"
    BY <1>1, ReturnedType, LeavesNoReset
  <2>3. d.pc # "resetting"
    <3> HIDE DEF r
    <3> QED  BY <2>2 DEF CallRecord
  <2> QED
    <3> HIDE DEF d
    <3> QED  BY <1>2, <2>1, <2>3
<1>20. CASE Penalise(t)
  <2>1. Become(t, NextAttempt(c, "FAILED")) /\ c.todo # <<>>
    BY <1>1, <1>20 DEF Penalise, WellFormed
  <2> QED
    BY <1>4, <1>5, <2>1
<1>21. CASE Return(t)
  <2>1. Become(t, Idle) /\ Idle.pc = "idle"
    BY <1>21 DEF Return, Reads, Idle
  <2> QED
    BY <1>2, <2>1
<1>22. CASE Pick(t)
  <2>1. ASSUME NEW k \in DOMAIN c.healthy,
               LET d == [c EXCEPT !.status = "SUCCESS", !.chosen = c.healthy[k]]
               IN Become(t, IF c.req.kind = "route" THEN Returned(d, "SUCCESS")
                            ELSE [d EXCEPT !.pc = "lookup",
                                           !.todo = <<c.healthy[k]>>,
                                           !.pool = <<>>, !.healthy = <<>>])
        PROVE  call'[t].pc # "resetting"
    <3> DEFINE n == c.healthy[k]
               d == [c EXCEPT !.status = "SUCCESS", !.chosen = n]
               one == <<n>>
               e == [d EXCEPT !.pc = "lookup", !.todo = one, !.pool = <<>>,
                              !.healthy = <<>>]
    <3>1. n \in Provider
      BY <1>1, <2>1, Fields
    <3>2. d \in CallRecord
      <4> HIDE DEF c, n
      <4> QED  BY <1>1, <1>5, <3>1 DEF CallRecord
    <3>3. e.pc = "lookup"
      <4> HIDE DEF d, n, one
      <4> QED  BY <3>2 DEF CallRecord
    <3>4. Returned(d, "SUCCESS").pc # "resetting"
      <4> HIDE DEF d
      <4> QED  BY <1>5, <3>2, LeavesNoReset
    <3>5. Become(t, Returned(d, "SUCCESS")) \/ Become(t, e)
      BY <2>1
    <3> QED
      <4> HIDE DEF d, e
      <4> QED  BY <1>2, <3>3, <3>4, <3>5
  <2> QED
    BY <1>3, <1>5, <1>22, <2>1 DEF Pick, Reads
<1> QED
  BY <1>6, <1>7, <1>8, <1>9, <1>10, <1>11, <1>12, <1>13, <1>14, <1>15, <1>16, <1>17, <1>18, <1>19, <1>20, <1>21, <1>22
     DEF Step

\* A reset begins with every record it is asked for on its list.
LEMMA StartPends ==
    ASSUME TypeOK, NEW t \in Thread, Start(t), call'[t].pc = "resetting"
    PROVE  \A n \in Wanted(call'[t].req) :
              record[n] = NoRecord \/ record[n] \in call'[t].targets
<1>1. ASSUME NEW r \in Request, NEW pc \in {"peek", "collect", "attempt"},
             NEW q, NEW s,
             \/ Starts(t, [Begun(r) EXCEPT !.pc = pc])
             \/ Starts(t, [Begun(r) EXCEPT !.pc = pc, !.pool = q, !.todo = q,
                                           !.skipped = s])
      PROVE  FALSE
  <2> DEFINE b == Begun(r)
             d == [b EXCEPT !.pc = pc]
             e == [b EXCEPT !.pc = pc, !.pool = q, !.todo = q, !.skipped = s]
  <2>1. d.pc = pc /\ e.pc = pc
    <3>1. b \in CallRecord
      BY BegunType
    <3> HIDE DEF b
    <3> QED  BY <3>1 DEF CallRecord
  <2>2. Become(t, d) \/ Become(t, e)
    BY <1>1 DEF Starts
  <2> QED
    <3> HIDE DEF d, e
    <3> QED  BY <1>1, <2>1, <2>2, BecomeCall
<1>2. PICK r \in Request :
         /\ r.kind = "reset"
         /\ LET named == r.names # <<>> /\ Registered(Head(r.names))
                names == IF named THEN {Head(r.names)}
                         ELSE {n \in Provider : Registered(n)}
            IN Starts(t, [Begun(r) EXCEPT !.pc = "resetting",
                             !.targets = {record[n] : n \in names}])
  <2>1. StartReset(t)
    BY <1>1 DEF Start, StartOverAll, StartOverNames, StartCascade
  <2> QED
    BY <2>1 DEF StartReset
<1> DEFINE b == Begun(r)
           names == IF r.names # <<>> /\ Registered(Head(r.names))
                    THEN {Head(r.names)} ELSE {n \in Provider : Registered(n)}
           q == {record[n] : n \in names}
           d == [b EXCEPT !.pc = "resetting", !.targets = q]
<1>3. b \in CallRecord /\ b.req = r
  BY BegunType, IdleType DEF Begun, CallRecord, Idle
<1>4. d.req = r /\ d.targets = q
  <2> HIDE DEF b, q
  <2> QED  BY <1>3 DEF CallRecord
<1>5. call'[t] = d
  BY <1>2, BecomeCall DEF Starts
<1>6. ASSUME NEW n \in Wanted(r)  PROVE record[n] = NoRecord \/ record[n] \in q
  <2>1. n \in Provider
    BY <1>6, RequestAssumption DEF Wanted
  <2> QED
    BY <1>6, <2>1 DEF Wanted, Registered
<1> HIDE DEF d, q
<1> QED
  BY <1>4, <1>5, <1>6

\* A step keeps what a reset has yet to do on its list.
LEMMA PendingNext == TypeOK /\ ResetsPending /\ [Next]_vars => ResetsPending'
<1> SUFFICES ASSUME TypeOK, ResetsPending, [Next]_vars, NEW t \in Thread,
                    call'[t].pc = "resetting", NEW n \in Wanted(call'[t].req)
             PROVE  \/ ExcusedNext(t, record'[n])
                    \/ record'[n] \in call'[t].targets
  BY DEF ResetsPending, Pending, Excused, ExcusedNext, IsHealthy
<1> DEFINE c == call[t]
           d == call'[t]
<1>1. c \in CallRecord /\ d \in CallRecord /\ TypeOK'
  BY TypeNext, CallType DEF TypeOK
<1>2. n \in Provider
  <2>1. d.req \in Request \cup {NoRequest}
    BY <1>1 DEF CallRecord
  <2> HIDE DEF d
  <2> QED
    BY <2>1, RequestAssumption DEF Wanted, NoRequest, d
<1>3. CASE Start(t)
  <2>1. record[n] = NoRecord \/ record[n] \in d.targets
    BY <1>3, StartPends
  <2>2. record' = record
    BY <1>3, CallKeepsRegistry DEF registry
  <2> QED
    BY <2>1, <2>2 DEF ExcusedNext
<1>4. ASSUME c.pc = "resetting", d.req = c.req,
             \A i \in Records : i \in c.targets =>
                i \in d.targets \/ ExcusedNext(t, i)
      PROVE  ExcusedNext(t, record'[n]) \/ record'[n] \in d.targets
  <2>1. Excused(t, record[n]) \/ record[n] \in c.targets
    BY <1>4 DEF ResetsPending, Pending
  <2>2. /\ record'[n] \in {record[n], NoRecord} \cup fresh'[t]
        /\ Excused(t, record[n]) => ExcusedNext(t, record'[n])
    BY <1>2, <1>4, Stable DEF Busy, Excused, ExcusedNext, IsHealthy
  <2>3. record[n] = NoRecord \/ record[n] \in Records
    BY <1>2, BoundAssumption DEF TypeOK, Records, NoRecord
  <2> HIDE DEF c, d
  <2> QED
    BY <1>4, <2>1, <2>2, <2>3 DEF ExcusedNext
<1>5. CASE d = c
  BY <1>4, <1>5
<1>6. CASE ResetOne(t)
  <2>1. PICK i \in c.targets :
           /\ c.pc = "resetting"
           /\ health' = [health EXCEPT ![i] = Reset(health[i])]
           /\ Become(t, [c EXCEPT !.targets = c.targets \ {i}])
    <3>1. ~Become(t, Returned(c, "none"))
      BY <1>1, BecomeCall, LeavesNoReset DEF Status
    <3> QED
      BY <1>6, <3>1 DEF ResetOne, Reads
  <2> DEFINE rest == c.targets \ {i}
             e == [c EXCEPT !.targets = rest]
  <2>2. e.req = c.req /\ e.targets = rest
    <3> HIDE DEF c, rest
    <3> QED  BY <1>1 DEF CallRecord
  <2>3. d = e
    BY <2>1, BecomeCall
  <2>4. ASSUME NEW j \in Records, j \in c.targets
        PROVE  j \in rest \/ ExcusedNext(t, j)
    <3>1. CASE j = i
      <4>1. health'[j] = Reset(health[i])
        BY <2>1, <2>4, <3>1 DEF TypeOK
      <4> QED
        BY <4>1 DEF ExcusedNext, IsHealthy, Reset, Health
    <3> QED
      BY <2>4, <3>1
  <2> HIDE DEF e, rest
  <2> QED
    BY <1>4, <2>1, <2>2, <2>3, <2>4
<1>7. ASSUME NEW u \in Thread, u # t, Start(u) \/ Step(u)  PROVE d = c
  BY <1>7, CallMovesOne
<1>8. ASSUME Step(t), ~ResetOne(t)  PROVE FALSE
  BY <1>8, OtherStepsNoReset
<1>9. ASSUME NEW m \in Provider, Register(m) \/ Unregister(m)  PROVE d = c
  BY <1>9 DEF Register, Unregister
<1>10. ASSUME Tick \/ UNCHANGED vars  PROVE d = c
  BY <1>10 DEF Tick, vars
<1> HIDE DEF c, d
<1> QED
  BY <1>3, <1>5, <1>6, <1>7, <1>8, <1>9, <1>10 DEF Next

\* No reset is under way initially.
LEMMA PendingInit == Init => ResetsPending
<1>1. Idle.pc = "idle"
  BY DEF Idle
<1> QED
  BY <1>1 DEF Init, ResetsPending, Pending

\* When reset_health is about to return, no cooldown that was open when it
\* was called is left on a name it was asked for, whatever providers and
\* calls do between the listing and the resets.
THEOREM ResetsCorrect == Spec => ResetEndsOldCooldowns
<1>1. ASSUME TypeOK, ResetsPending, [Next]_vars, NEW t \in Thread, EndsReset(t),
             NEW n \in Wanted(call[t].req)
      PROVE  Excused(t, record[n])
  <2> DEFINE c == call[t]
  <2>1. c \in CallRecord /\ c.pc = "resetting" /\ call'[t].pc = "returned"
    BY <1>1, CallType DEF EndsReset
  <2>2. c.targets = {}
    <3>1. ASSUME NEW i \in c.targets, Become(t, [c EXCEPT !.targets = @ \ {i}])
          PROVE  FALSE
      <4> DEFINE rest == c.targets \ {i}
                 e == [c EXCEPT !.targets = rest]
      <4>1. e.pc = "resetting"
        <5> HIDE DEF c, rest
        <5> QED  BY <2>1 DEF CallRecord
      <4>2. call'[t] = e
        BY <1>1, <3>1, BecomeCall
      <4> HIDE DEF e
      <4> QED
        BY <2>1, <4>1, <4>2
    <3>2. ResetOne(t)
      <4>1. ~UNCHANGED call /\ ~Start(t)
        BY <2>1
           DEF Start, StartOverAll, StartOverNames, StartCascade, StartReset,
               Starts, Busy
      <4>2. Step(t)
        BY <1>1, <2>1, <4>1, CallMovesOne
           DEF Next, Register, Unregister, Tick, vars
      <4> QED
        BY <2>1, <4>2
           DEF Step, Collect, Rescan, Peek, Probe, Pick, Lookup, LookupHealth,
               Attempt, AttemptPeek, AttemptProbe, Succeed, FailInvoke,
               FailAttempt, PenaltyPeek, PenaltyRead, Penalise, Return
    <3> QED
      BY <3>1, <3>2 DEF ResetOne
  <2> QED
    BY <1>1, <2>1, <2>2 DEF ResetsPending, Pending
<1>2. TypeOK /\ ResetsPending /\ [Next]_vars =>
        [\A t \in Thread : EndsReset(t) =>
            \A n \in Wanted(call[t].req) : Excused(t, record[n])]_vars
  BY <1>1
<1>3. Spec => []ResetsPending
  BY PendingInit, PendingNext, TypeCorrect, PTL DEF Spec
<1> QED
  BY <1>2, <1>3, TypeCorrect, PTL DEF Spec, ResetEndsOldCooldowns
=============================================================================
