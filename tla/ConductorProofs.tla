--------------------------- MODULE ConductorProofs ---------------------------
(***************************************************************************)
(* Proofs about Conductor: the types, what results mean, what may still    *)
(* run under a delegation, and what a trajectory records.  Then proofs     *)
(* about Pipeline: a pipeline uses the conductor as any host thread does,  *)
(* so all that is proved of Conductor holds of it; its outputs form a      *)
(* chain, and a named agent is the one that runs.                          *)
(***************************************************************************)
EXTENDS Pipeline, FiniteSetTheorems, WellFoundedInduction, TLAPS

\* What the constants are.
LEMMA Constants ==
    /\ MaxDelegations \in Nat /\ MaxRegistrations \in Nat
    /\ Advertises \subseteq Agent /\ Caller \cap Nat = {}
    /\ Id \subseteq Nat /\ 0 \notin Id /\ Thread = Caller \cup Id
    /\ \A c \in Caller : c \notin Id /\ c # 0
    /\ \A r \in Request : r.named \in Seq(Agent) /\ r.timed \in BOOLEAN
<1>1. /\ MaxDelegations \in Nat /\ MaxRegistrations \in Nat
      /\ Advertises \subseteq Agent /\ Caller \cap Nat = {}
      /\ \A r \in Request : r.named \in Seq(Agent) /\ r.timed \in BOOLEAN
  BY ConductorAssumption DEF ConductorAssumption
<1>2. Id \subseteq Nat /\ 0 \notin Id
  BY <1>1 DEF Id
<1> QED
  BY <1>1, <1>2 DEF Thread

\* A set of numbers that is not empty has a least one.
LEMMA Least ==
    ASSUME NEW S, S \subseteq Nat, S # {}
    PROVE  \E x \in S : \A y \in S : x <= y
<1> DEFINE R == {ss \in Nat \X Nat : ss[1] < ss[2]}
<1>1. IsWellFoundedOn(R, Nat)
  BY NatLessThanWellFounded DEF OpToRel
<1> HIDE DEF R
<1>2. PICK x \in S : \A y \in S : ~(<<y, x>> \in R)
  BY <1>1, IsWellFoundedOnSubset, WFMin
<1>3. \A y \in S : ~(y < x)
  BY <1>2 DEF R
<1> QED
  BY <1>3

\* A request that is not refused has an agent for its target.
LEMMA TargetType ==
    ASSUME RegistryOK, NEW r \in Request
    PROVE  Target(r) \in Agent \cup {NoAgent}
<1> DEFINE able == {i \in DOMAIN r.named : r.named[i] \in Advertises}
           pool == IF r.capability /\ able # {} THEN able ELSE DOMAIN r.named
<1>0. r.named \in Seq(Agent) /\ DOMAIN r.named \subseteq Nat
  BY Constants
<1>1. CASE r.named # <<>>
  <2>1. pool \subseteq DOMAIN r.named /\ pool # {}
    BY <1>0, <1>1
  <2>2. Target(r) = r.named[CHOOSE i \in pool : \A j \in pool : i <= j]
    BY <1>1 DEF Target
  <2> HIDE DEF pool
  <2>3. \E i \in pool : \A j \in pool : i <= j
    BY <1>0, <2>1, Least
  <2>4. (CHOOSE i \in pool : \A j \in pool : i <= j) \in pool
    BY <2>3
  <2> QED
    BY <1>0, <2>1, <2>2, <2>4
<1>2. CASE r.named = <<>> /\ ~(r.capability /\ Found # {})
  BY <1>2 DEF Target
<1>3. CASE r.named = <<>> /\ r.capability /\ Found # {}
  <2> DEFINE S == {since[a] : a \in Found}
  <2>1. \A a \in Found : a \in Agent /\ since[a] \in Nat
    BY Constants DEF Found, RegistryOK
  <2>2. S \subseteq Nat /\ S # {}
    BY <1>3, <2>1
  <2>3. \E x \in S : \A y \in S : x <= y
    BY <2>2, Least
  <2>4. \E a \in Found : \A b \in Found : since[a] <= since[b]
    BY <2>3
  <2>5. Target(r) = CHOOSE a \in Found : \A b \in Found : since[a] <= since[b]
    BY <1>3 DEF Target
  <2> QED
    BY <2>1, <2>4, <2>5
<1> QED
  BY <1>1, <1>2, <1>3

\* A delegation that has not begun.
LEMMA NoDelegationFields ==
    /\ NoDelegation \in Delegation
    /\ NoDelegation.pc = "none" /\ NoDelegation.by = None /\ NoDelegation.parent = None
    /\ NoDelegation.status = "none" /\ NoDelegation.body = "none"
    /\ NoDelegation.scoped = FALSE /\ NoDelegation.reason = FALSE
BY DEF NoDelegation, Delegation

Outer(t) == IF stack[t] = <<>> THEN None ELSE Top(t)

\* What a delegation is when it begins.
BeginsOK(t, r, x) ==
    /\ x \in Delegation /\ x.req = r /\ x.by = t /\ x.parent = Outer(t)
    /\ Outer(t) \in Id \cup {None}
    /\ Outer(t) = None => x.scoped = scope[t]
    /\ Outer(t) # None /\ deleg[Outer(t)].pc # "done" => x.scoped = deleg[Outer(t)].scoped
    /\ Refused(r) => x.pc = "finish" /\ x.status = "REFUSED" /\ x.body = "none"
                     /\ x.reason = TRUE
    /\ ~Refused(r) => /\ x.pc = IF r.timed THEN "join" ELSE "agent"
                      /\ x.status = "none" /\ x.body = "running" /\ x.to \in Agent

\* The delegation that begins.
LEMMA BeginsFields ==
    ASSUME TypeOK, NEW t \in Thread, NEW r \in Request,
           t \in Caller \/ stack[t] # <<>>
    PROVE  BeginsOK(t, r, Begins(t, r))
<1> DEFINE x == Begins(t, r)
           outer == Outer(t)
<1>0. outer = IF stack[t] = <<>> THEN None ELSE Top(t)
  BY DEF Outer
<1> HIDE DEF outer
<1> DEFINE inside == IF outer = None THEN scope[t]
                     ELSE deleg[outer].scoped /\ deleg[outer].pc # "done"
           d == [NoDelegation EXCEPT !.req = r, !.by = t, !.parent = outer, !.scoped = inside]
<1>1. outer \in Id \cup {None} /\ (outer # None => outer = Top(t) /\ stack[t] # <<>>)
  <2>1. stack[t] \in Seq(Id)
    BY DEF TypeOK, StacksOK
  <2> QED
    BY <1>0, <2>1 DEF Top
<1>2. outer = None => t \in Caller /\ inside = scope[t]
  BY <1>0, <1>1, Constants DEF Top, TypeOK, StacksOK, None
<1>3. outer # None => deleg[outer].scoped \in BOOLEAN
  BY <1>1 DEF TypeOK, DelegationsOK, Delegation
<1>4. outer # None /\ deleg[outer].pc # "done" => inside = deleg[outer].scoped
  BY <1>3
<1>5. inside \in BOOLEAN
  BY <1>1, <1>2, <1>3 DEF TypeOK, ScopesOK
<1>6. x = IF Refused(r)
          THEN [d EXCEPT !.pc = "finish", !.status = "REFUSED", !.reason = TRUE]
          ELSE [d EXCEPT !.pc = IF r.timed THEN "join" ELSE "agent",
                         !.to = Target(r), !.body = "running"]
  BY <1>0 DEF Begins
<1> HIDE DEF inside
<1>7. /\ d \in Delegation /\ d.req = r /\ d.by = t /\ d.parent = outer /\ d.scoped = inside
      /\ d.status = "none" /\ d.body = "none"
  BY <1>1, <1>5, NoDelegationFields DEF Delegation
<1> HIDE DEF d
<1>8. CASE Refused(r)
  <2>1. x = [d EXCEPT !.pc = "finish", !.status = "REFUSED", !.reason = TRUE]
    BY <1>6, <1>8
  <2> HIDE DEF x
  <2>2. /\ x \in Delegation /\ x.pc = "finish" /\ x.status = "REFUSED" /\ x.reason = TRUE
        /\ x.req = r /\ x.by = t /\ x.parent = outer /\ x.scoped = inside /\ x.body = "none"
    BY <1>7, <2>1 DEF Delegation
  <2> QED
    BY <1>1, <1>2, <1>4, <1>8, <2>2 DEF BeginsOK, outer, x
<1>9. CASE ~Refused(r)
  <2>1. Target(r) \in Agent
    BY <1>9, TargetType DEF Refused, TypeOK
  <2>2. x = [d EXCEPT !.pc = IF r.timed THEN "join" ELSE "agent",
                      !.to = Target(r), !.body = "running"]
    BY <1>6, <1>9
  <2> DEFINE pc == IF r.timed THEN "join" ELSE "agent"
             to == Target(r)
  <2>3. pc \in {"join", "agent"}
    OBVIOUS
  <2> HIDE DEF pc, to
  <2>4. /\ x \in Delegation /\ x.pc = pc /\ x.to = to /\ x.body = "running"
        /\ x.req = r /\ x.by = t /\ x.parent = outer /\ x.scoped = inside /\ x.status = "none"
    BY <1>7, <2>1, <2>2, <2>3 DEF Delegation, pc, to
  <2> QED
    BY <1>1, <1>2, <1>4, <1>9, <2>1, <2>4 DEF pc, to, BeginsOK, outer
<1> QED
  BY <1>8, <1>9
------------------------------------------------------------------------------
(* Types                                                                   *)

\* What a thread's stack holds.
LEMMA StackFacts ==
    ASSUME TypeOK, NEW t \in Thread
    PROVE  /\ stack[t] \in Seq(Id) /\ begun \in Nat
           /\ \A k \in DOMAIN stack[t] :
                 stack[t][k] \in Id /\ stack[t][k] <= begun /\ deleg[stack[t][k]].pc # "none"
           /\ stack[t] # <<>> => /\ Len(stack[t]) \in DOMAIN stack[t] /\ Top(t) \in Id
                                 /\ Top(t) = stack[t][Len(stack[t])]
                                 /\ Top(t) <= begun /\ deleg[Top(t)].pc # "none"
<1>1. stack[t] \in Seq(Id) /\ begun \in Nat
  BY Constants DEF TypeOK, StacksOK, DelegationsOK
<1>2. \A k \in DOMAIN stack[t] :
         stack[t][k] \in Id /\ stack[t][k] <= begun
  BY <1>1 DEF TypeOK, StacksOK
<1>3. \A k \in DOMAIN stack[t] : deleg[stack[t][k]].pc # "none"
  BY <1>2 DEF TypeOK, DelegationsOK
<1>4. stack[t] # <<>> => Len(stack[t]) \in DOMAIN stack[t]
  BY <1>1
<1> QED
  BY <1>1, <1>2, <1>3, <1>4 DEF Top

\* One delegation that has begun goes on.
LEMMA DelegationMoves ==
    ASSUME TypeOK, NEW d \in Id, d <= begun, NEW x \in Delegation, x.pc # "none",
           deleg' = [deleg EXCEPT ![d] = x], begun' = begun,
           worker' \in [Id -> {"none", "running", "ended", "dead"}]
    PROVE  DelegationsOK'
<1>1. begun \in Nat /\ d \in Nat /\ deleg \in [Id -> Delegation]
  BY Constants DEF TypeOK, DelegationsOK
<1>2. deleg' \in [Id -> Delegation]
  BY <1>1
<1>3. ASSUME NEW e \in Id
      PROVE  (e > begun => deleg'[e] = NoDelegation) /\ (e <= begun => deleg'[e].pc # "none")
  <2>1. CASE e = d
    BY <1>1, <2>1
  <2>2. CASE e # d
    BY <1>1, <2>2 DEF TypeOK, DelegationsOK
  <2> QED
    BY <2>1, <2>2
<1> QED
  BY <1>2, <1>3 DEF TypeOK, DelegationsOK

\* A delegation begins.
LEMMA DelegateTypes ==
    ASSUME TypeOK, NEW t \in Thread, NEW r \in Request, Delegate(t, r),
           t \in Caller \/ stack[t] # <<>>
    PROVE  TypeOK'
<1> DEFINE n == begun + 1
           x == Begins(t, r)
           apart == r.timed /\ ~Refused(r)
<1>1. /\ n \in Id /\ begun' = n /\ begun \in Nat /\ n <= MaxDelegations
      /\ deleg' = [deleg EXCEPT ![n] = x]
      /\ worker' = [worker EXCEPT ![n] = IF apart THEN "running" ELSE worker[n]]
      /\ stack' = [stack EXCEPT ![n] = IF apart THEN <<n>> ELSE stack[n],
                                ![t] = Push(t, n)]
      /\ UNCHANGED <<registry, scope, steps>>
  BY Constants DEF Delegate, Id, TypeOK, DelegationsOK
<1>2. x \in Delegation /\ x.pc # "none"
  <2>1. BeginsOK(t, r, x)
    BY BeginsFields
  <2> HIDE DEF x
  <2> QED
    BY <2>1 DEF BeginsOK
<1> HIDE DEF x, apart
<1>3. DelegationsOK'
  <2>1. deleg \in [Id -> Delegation] /\ \A e \in Id : e \in Nat
    BY Constants DEF TypeOK, DelegationsOK
  <2>2. deleg' \in [Id -> Delegation]
    BY <1>1, <1>2, <2>1
  <2>3. worker' \in [Id -> {"none", "running", "ended", "dead"}]
    BY <1>1 DEF TypeOK, DelegationsOK
  <2>4. begun' \in 0..MaxDelegations
    BY <1>1, Constants
  <2>5. ASSUME NEW e \in Id
        PROVE  /\ e > begun' => deleg'[e] = NoDelegation
               /\ e <= begun' => deleg'[e].pc # "none"
    <3>1. CASE e = n
      BY <1>1, <1>2, <2>1, <3>1
    <3>2. CASE e # n
      <4>1. deleg'[e] = deleg[e]
        BY <1>1, <2>1, <3>2
      <4>2. (e > begun' => e > begun) /\ (e <= begun' => e <= begun)
        BY <1>1, <2>1, <3>2
      <4> QED
        BY <4>1, <4>2 DEF TypeOK, DelegationsOK
    <3> QED
      BY <3>1, <3>2
  <2> QED
    BY <2>2, <2>3, <2>4, <2>5 DEF DelegationsOK
<1>4. StacksOK'
  <2>1. \A u \in Thread : stack[u] \in Seq(Id) /\ \A k \in DOMAIN stack[u] : stack[u][k] <= begun
    BY DEF TypeOK, StacksOK
  <2>2. n \in Thread
    BY <1>1, Constants
  <2> DEFINE own == IF apart THEN <<n>> ELSE stack[n]
  <2>9. ASSUME NEW u \in Thread
        PROVE  \A k \in DOMAIN stack[u] : stack[u][k] <= n
    <3> SUFFICES ASSUME NEW k \in DOMAIN stack[u]  PROVE stack[u][k] <= n
      OBVIOUS
    <3>1. stack[u][k] \in Id /\ stack[u][k] <= begun
      BY <2>1
    <3>2. stack[u][k] \in Nat
      BY <3>1, Constants
    <3> QED
      BY <1>1, <3>1, <3>2
  <2>3. own \in Seq(Id) /\ \A k \in DOMAIN own : own[k] <= n
    <3>1. CASE apart
      <4>1. n \in Nat
        BY <1>1
      <4> QED
        BY <1>1, <3>1, <4>1
    <3>2. CASE ~apart
      BY <2>1, <2>2, <2>9, <3>2
    <3> QED
      BY <3>1, <3>2
  <2> HIDE DEF own
  <2>4. Push(t, n) \in Seq(Id) /\ \A k \in DOMAIN Push(t, n) : Push(t, n)[k] <= n
    <3>1. n \in Nat /\ Push(t, n) = Append(stack[t], n) /\ stack[t] \in Seq(Id)
      BY <1>1, <2>1 DEF Push
    <3> QED
      <4>1. Len(stack[t]) \in Nat /\ Append(stack[t], n) \in Seq(Id)
        BY <1>1, <3>1
      <4>2. \A k \in 1..Len(stack[t]) : Append(stack[t], n)[k] = stack[t][k]
        BY <1>1, <3>1
      <4>3. Append(stack[t], n)[Len(stack[t]) + 1] = n
        BY <1>1, <3>1
      <4>4. DOMAIN Append(stack[t], n) = 1..(Len(stack[t]) + 1)
        BY <1>1, <3>1
      <4>5. \A k \in DOMAIN stack[t] : stack[t][k] <= n
        BY <2>9
      <4>6. DOMAIN stack[t] = 1..Len(stack[t])
        BY <3>1
      <4> HIDE DEF n
      <4> QED
        BY <3>1, <4>1, <4>2, <4>3, <4>4, <4>5, <4>6
  <2>5. stack' = [stack EXCEPT ![n] = own, ![t] = Push(t, n)]
    BY <1>1 DEF own
  <2>6. \A u \in Thread : stack'[u] = IF u = t THEN Push(t, n) ELSE IF u = n THEN own ELSE stack[u]
    BY <2>5 DEF TypeOK, StacksOK
  <2>7. \A u \in Thread : stack'[u] \in Seq(Id) /\ \A k \in DOMAIN stack'[u] : stack'[u][k] <= n
    <3> SUFFICES ASSUME NEW u \in Thread
                 PROVE  stack'[u] \in Seq(Id) /\ \A k \in DOMAIN stack'[u] : stack'[u][k] <= n
      OBVIOUS
    <3>1. CASE u = t
      BY <2>4, <2>6, <3>1
    <3>2. CASE u # t /\ u = n
      BY <2>3, <2>6, <3>2
    <3>3. CASE u # t /\ u # n
      BY <2>1, <2>6, <2>9, <3>3
    <3> QED
      BY <3>1, <3>2, <3>3
  <2>8. stack' = [u \in Thread |-> stack'[u]]
    BY <2>5 DEF TypeOK, StacksOK
  <2> QED
    BY <1>1, <2>7, <2>8 DEF StacksOK
<1> QED
  BY <1>1, <1>3, <1>4 DEF TypeOK, RegistryOK, ScopesOK, registry

\* An agent ends.
LEMMA BodyTypes ==
    ASSUME TypeOK, NEW t \in Thread, NEW body \in {"returned", "raised"},
           NEW status \in {"SUCCESS", "FAILED"}, BodyEnds(t, body, status)
    PROVE  TypeOK'
<1> DEFINE d == Top(t)
<1>1. stack[t] # <<>> /\ d \in Id /\ d <= begun /\ deleg[d].pc # "none"
  BY StackFacts DEF BodyEnds, InBody
<1>2. deleg[d] \in Delegation
  BY <1>1 DEF TypeOK, DelegationsOK
<1> HIDE DEF d
<1>3. UNCHANGED <<registry, begun, scope, steps>>
  BY DEF BodyEnds
<1>4. CASE deleg[d].req.timed
  <2> DEFINE x == [deleg[d] EXCEPT !.body = body]
  <2>1. /\ deleg' = [deleg EXCEPT ![d] = x] /\ worker' = [worker EXCEPT ![d] = "ended"]
        /\ stack' = [stack EXCEPT ![t] = <<>>]
    BY <1>4 DEF BodyEnds, d
  <2>2. x \in Delegation /\ x.pc = deleg[d].pc
    BY <1>2 DEF Delegation
  <2> HIDE DEF x
  <2>3. worker' \in [Id -> {"none", "running", "ended", "dead"}]
    BY <2>1 DEF TypeOK, DelegationsOK
  <2>4. DelegationsOK'
    BY <1>1, <1>3, <2>1, <2>2, <2>3, DelegationMoves
  <2> DEFINE none == <<>>
  <2>5. none \in Seq(Id) /\ DOMAIN none = {}
    OBVIOUS
  <2>6. stack' = [stack EXCEPT ![t] = none]
    BY <2>1
  <2> HIDE DEF none
  <2>7. StacksOK'
    BY <1>3, <2>5, <2>6 DEF TypeOK, StacksOK
  <2> QED
    BY <1>3, <2>4, <2>7 DEF TypeOK, RegistryOK, ScopesOK, registry
<1>5. CASE ~deleg[d].req.timed
  <2> DEFINE reason == status # "SUCCESS"
             x == [deleg[d] EXCEPT !.body = body, !.pc = "finish", !.status = status,
                                   !.reason = reason]
  <2>1. deleg' = [deleg EXCEPT ![d] = x] /\ UNCHANGED <<worker, stack>>
    BY <1>5 DEF BodyEnds, d
  <2>2. reason \in BOOLEAN
    OBVIOUS
  <2> HIDE DEF reason
  <2>3. x \in Delegation /\ x.pc = "finish"
    BY <1>2, <2>2 DEF Delegation
  <2> HIDE DEF x
  <2>4. worker' \in [Id -> {"none", "running", "ended", "dead"}]
    BY <2>1 DEF TypeOK, DelegationsOK
  <2>5. DelegationsOK'
    BY <1>1, <1>3, <2>1, <2>3, <2>4, DelegationMoves
  <2> QED
    BY <1>3, <2>1, <2>5 DEF TypeOK, RegistryOK, ScopesOK, StacksOK, registry
<1> QED
  BY <1>4, <1>5

\* An agent leaves its thread with all that runs on it.
LEMMA ExitTypes ==
    ASSUME TypeOK, NEW t \in Thread, AgentExits(t)
    PROVE  TypeOK'
<1>1. /\ deleg' = [d \in Id |->
            IF \E k \in DOMAIN stack[t] : stack[t][k] = d
            THEN [deleg[d] EXCEPT !.body = "exited",
                                  !.pc = IF deleg[d].pc = "agent" THEN "lost" ELSE deleg[d].pc]
            ELSE deleg[d]]
      /\ worker' = [d \in Id |-> IF d = t THEN "ended" ELSE worker[d]]
      /\ stack' = [stack EXCEPT ![t] = <<>>]
      /\ UNCHANGED <<registry, begun, scope, steps>>
  BY DEF AgentExits
<1>2. ASSUME NEW d \in Id, \E k \in DOMAIN stack[t] : stack[t][k] = d
      PROVE  deleg'[d] \in Delegation /\ deleg'[d].pc # "none" /\ d <= begun
  <2> DEFINE pc == IF deleg[d].pc = "agent" THEN "lost" ELSE deleg[d].pc
  <2>1. d <= begun /\ deleg[d].pc # "none"
    BY <1>2, StackFacts
  <2>2. deleg[d] \in Delegation
    BY DEF TypeOK, DelegationsOK
  <2>3. pc \in {"agent", "join", "finish", "done", "lost"}
    BY <2>1, <2>2 DEF Delegation
  <2>4. deleg'[d] = [deleg[d] EXCEPT !.body = "exited", !.pc = pc]
    BY <1>1, <1>2
  <2> HIDE DEF pc
  <2>5. deleg'[d] \in Delegation /\ deleg'[d].pc = pc
    BY <2>2, <2>3, <2>4 DEF Delegation
  <2> QED
    BY <2>1, <2>3, <2>5
<1>3. ASSUME NEW d \in Id, ~\E k \in DOMAIN stack[t] : stack[t][k] = d
      PROVE  deleg'[d] = deleg[d]
  BY <1>1, <1>3
<1>4. DelegationsOK'
  <2>1. \A d \in Id : deleg'[d] \in Delegation
    BY <1>2, <1>3 DEF TypeOK, DelegationsOK
  <2>2. deleg' \in [Id -> Delegation]
    BY <1>1, <2>1
  <2>3. ASSUME NEW d \in Id
        PROVE  /\ d > begun => deleg'[d] = NoDelegation
               /\ d <= begun => deleg'[d].pc # "none"
    <3>1. CASE \E k \in DOMAIN stack[t] : stack[t][k] = d
      <4>1. ~(d > begun) /\ deleg'[d].pc # "none"
        BY <1>2, <3>1, Constants, StackFacts
      <4> QED
        BY <4>1
    <3>2. CASE ~\E k \in DOMAIN stack[t] : stack[t][k] = d
      BY <1>3, <3>2 DEF TypeOK, DelegationsOK
    <3> QED
      BY <3>1, <3>2
  <2>4. worker' \in [Id -> {"none", "running", "ended", "dead"}]
    BY <1>1 DEF TypeOK, DelegationsOK
  <2>5. begun' = begun /\ begun \in 0..MaxDelegations
    BY <1>1 DEF TypeOK, DelegationsOK
  <2> QED
    BY <2>2, <2>3, <2>4, <2>5 DEF DelegationsOK
<1> DEFINE none == <<>>
<1>5. none \in Seq(Id) /\ DOMAIN none = {}
  OBVIOUS
<1>6. stack' = [stack EXCEPT ![t] = none]
  BY <1>1
<1> HIDE DEF none
<1>7. StacksOK'
  BY <1>1, <1>5, <1>6 DEF TypeOK, StacksOK
<1> QED
  BY <1>1, <1>4, <1>7 DEF TypeOK, RegistryOK, ScopesOK, registry

\* A delegation gets its result on the thread that waits for it, ...
LEMMA ResultTypes ==
    ASSUME TypeOK, NEW t \in Thread, stack[t] # <<>>,
           NEW status \in {"SUCCESS", "FAILED", "TIMEOUT"}, NEW reason \in BOOLEAN,
           Results(t, status, reason)
    PROVE  TypeOK'
<1> DEFINE d == Top(t)
           x == [deleg[d] EXCEPT !.pc = "finish", !.status = status, !.reason = reason]
<1>1. d \in Id /\ d <= begun /\ deleg[d] \in Delegation
  BY StackFacts DEF TypeOK, DelegationsOK
<1>2. /\ deleg' = [deleg EXCEPT ![d] = x]
      /\ UNCHANGED <<registry, begun, stack, worker, scope, steps>>
  BY DEF Results
<1> HIDE DEF d
<1>3. x \in Delegation /\ x.pc = "finish"
  BY <1>1 DEF Delegation
<1> HIDE DEF x
<1>4. worker' \in [Id -> {"none", "running", "ended", "dead"}]
  BY <1>2 DEF TypeOK, DelegationsOK
<1>5. DelegationsOK'
  BY <1>1, <1>2, <1>3, <1>4, DelegationMoves
<1> QED
  BY <1>2, <1>5 DEF TypeOK, RegistryOK, ScopesOK, StacksOK, registry

\* ... and gives it to its caller.
LEMMA FinishTypes ==
    ASSUME TypeOK, NEW t \in Thread, Finish(t)
    PROVE  TypeOK'
<1> DEFINE d == Top(t)
           x == [deleg[d] EXCEPT !.pc = "done"]
<1>0. stack[t] # <<>> /\ d \in Id /\ d <= begun /\ deleg[d] \in Delegation
  BY StackFacts DEF Finish, Returns, At, TypeOK, DelegationsOK
<1>1. /\ deleg' = [deleg EXCEPT ![d] = x] /\ stack' = [stack EXCEPT ![t] = Pop(t)]
      /\ UNCHANGED <<registry, begun, worker, scope>>
      /\ steps' = [c \in Caller |-> IF c = t /\ scope[c] THEN Append(steps[c], d) ELSE steps[c]]
  BY DEF Finish, Returns
<1> HIDE DEF d
<1>3. x \in Delegation /\ x.pc = "done"
  BY <1>0 DEF Delegation
<1> HIDE DEF x
<1>4. worker' \in [Id -> {"none", "running", "ended", "dead"}]
  BY <1>1 DEF TypeOK, DelegationsOK
<1>5. DelegationsOK'
  BY <1>0, <1>1, <1>3, <1>4, DelegationMoves
<1>6. Pop(t) \in Seq(Id) /\ \A k \in DOMAIN Pop(t) : Pop(t)[k] <= begun
  <2>1. stack[t] \in Seq(Id) /\ \A k \in DOMAIN stack[t] : stack[t][k] <= begun
    BY StackFacts
  <2> QED
    BY <1>0, <2>1 DEF Pop
<1>7. StacksOK'
  BY <1>1, <1>6 DEF TypeOK, StacksOK
<1>8. ScopesOK'
  <2>1. \A c \in Caller : steps'[c] \in Seq(Id)
    BY <1>0, <1>1 DEF TypeOK, ScopesOK
  <2>2. steps' \in [Caller -> Seq(Id)]
    BY <1>1, <2>1
  <2> QED
    BY <1>1, <2>2 DEF TypeOK, ScopesOK
<1> QED
  BY <1>1, <1>5, <1>7, <1>8 DEF TypeOK, RegistryOK, registry

\* The steps of a thread, one by one.
LEMMA ThreadSteps ==
    ASSUME NEW t \in Thread, AgentStep(t) \/ DelegateStep(t)
    PROVE  \/ InBody(t) /\ \E r \in Request : Delegate(t, r)
           \/ BodyEnds(t, "returned", "SUCCESS") \/ BodyEnds(t, "raised", "FAILED")
           \/ AgentExits(t)
           \/ Joined(t)
           \/ TimesOut(t)
           \/ Finish(t)
BY DEF AgentStep, DelegateStep, AgentDelegates, AgentReturns, AgentRaises

\* The result of a join is one of these.
LEMMA JoinResult ==
    ASSUME NEW t \in Thread, Joined(t)
    PROVE  /\ stack[t] # <<>>
           /\ \E status \in {"SUCCESS", "FAILED"}, reason \in BOOLEAN :
                 /\ Results(t, status, reason)
                 /\ status = "SUCCESS" <=> deleg[Top(t)].body = "returned"
                 /\ reason <=> deleg[Top(t)].body = "raised"
<1> DEFINE body == deleg[Top(t)].body
           status == IF body = "returned" THEN "SUCCESS" ELSE "FAILED"
           reason == body = "raised"
<1>1. stack[t] # <<>> /\ Results(t, status, reason)
  BY DEF Joined, At
<1>2. status \in {"SUCCESS", "FAILED"} /\ (status = "SUCCESS" <=> body = "returned")
  OBVIOUS
<1>3. reason \in BOOLEAN /\ (reason <=> body = "raised")
  OBVIOUS
<1> HIDE DEF status, reason
<1> QED
  BY <1>1, <1>2, <1>3

\* Every step keeps the types.
LEMMA StepTypes ==
    ASSUME TypeOK, [Next]_vars
    PROVE  TypeOK'
<1>1. CASE UNCHANGED vars
  BY <1>1 DEF vars, registry, TypeOK, RegistryOK, DelegationsOK, StacksOK, ScopesOK
<1>2. ASSUME NEW a \in Agent, Register(a) \/ Unregister(a)
      PROVE  TypeOK'
  <2>1. RegistryOK'
    BY <1>2, Constants DEF Register, Unregister, TypeOK, RegistryOK, NotRegistered
  <2> QED
    BY <1>2, <2>1 DEF Register, Unregister, TypeOK, DelegationsOK, StacksOK, ScopesOK
<1>3. ASSUME NEW c \in Caller, Enter(c) \/ Leave(c)
      PROVE  TypeOK'
  <2>1. ScopesOK'
    BY <1>3 DEF Enter, Leave, TypeOK, ScopesOK
  <2> QED
    BY <1>3, <2>1 DEF Enter, Leave, registry, TypeOK, RegistryOK, DelegationsOK, StacksOK
<1>4. ASSUME NEW d \in Id, WorkerDies(d)
      PROVE  TypeOK'
  <2>1. DelegationsOK'
    BY <1>4 DEF WorkerDies, TypeOK, DelegationsOK
  <2> QED
    BY <1>4, <2>1 DEF WorkerDies, registry, TypeOK, RegistryOK, ScopesOK, StacksOK
<1>5. ASSUME NEW t \in Thread, AgentStep(t) \/ DelegateStep(t)
      PROVE  TypeOK'
  <2>1. CASE InBody(t) /\ \E r \in Request : Delegate(t, r)
    BY <2>1, DelegateTypes DEF InBody
  <2>2. CASE BodyEnds(t, "returned", "SUCCESS") \/ BodyEnds(t, "raised", "FAILED")
    BY <2>2, BodyTypes
  <2>3. CASE Joined(t)
    BY <2>3, JoinResult, ResultTypes
  <2>4. CASE TimesOut(t)
    BY <2>4, ResultTypes DEF TimesOut, At
  <2> QED
    BY <1>5, <2>1, <2>2, <2>3, <2>4, ThreadSteps, ExitTypes, FinishTypes
<1>6. ASSUME NEW c \in Caller, HostDelegates(c)
      PROVE  TypeOK'
  BY <1>6, DelegateTypes, Constants DEF HostDelegates
<1> QED
  BY <1>1, <1>2, <1>3, <1>4, <1>5, <1>6 DEF Next, Delegations

\* At the start the types are right.
LEMMA TypesAtStart ==
    ASSUME Init
    PROVE  TypeOK
<1>1. RegistryOK
  BY Constants DEF Init, RegistryOK, NotRegistered
<1>2. DelegationsOK
  <2>1. deleg \in [Id -> Delegation] /\ \A d \in Id : deleg[d] = NoDelegation
    BY NoDelegationFields DEF Init
  <2>2. worker \in [Id -> {"none", "running", "ended", "dead"}]
    BY DEF Init
  <2>3. begun \in 0..MaxDelegations /\ \A d \in Id : ~(d <= begun)
    BY Constants DEF Init, Id
  <2> QED
    BY <2>1, <2>2, <2>3 DEF DelegationsOK
<1> DEFINE none == <<>>
<1>3. none \in Seq(Id) /\ DOMAIN none = {}
  OBVIOUS
<1>4. stack = [t \in Thread |-> none] /\ steps = [c \in Caller |-> none]
  BY DEF Init
<1> HIDE DEF none
<1>5. StacksOK /\ ScopesOK
  BY <1>3, <1>4 DEF Init, StacksOK, ScopesOK
<1> QED
  BY <1>1, <1>2, <1>5 DEF TypeOK

\* The types, for any agents, cards, threads and requests.
THEOREM TypeCorrect == Spec => []TypeOK
<1>1. Init => TypeOK
  BY TypesAtStart
<1>2. TypeOK /\ [Next]_vars => TypeOK'
  BY StepTypes
<1> QED
  BY <1>1, <1>2, PTL DEF Spec
------------------------------------------------------------------------------
(* How the delegations, the stacks and the trajectories fit                *)

Live == {"agent", "join", "finish"}

\* t runs the agent of d.
Runs(t, d) == Host(d) = t /\ deleg[d].body = "running"

\* What the place of a delegation says of its agent and its result.
RecOK(x) ==
    /\ x.pc = "agent" => ~x.req.timed /\ x.body = "running"
    /\ x.pc = "join" => x.req.timed /\ x.body # "none"
    /\ x.pc = "lost" => ~x.req.timed /\ x.body = "exited"
    /\ x.pc \in {"finish", "done"} <=> x.status # "none"
    /\ x.body = "running" /\ ~x.req.timed => x.pc = "agent"
    /\ x.body = "running" => x.status \in {"none", "TIMEOUT"}
    /\ x.status = "SUCCESS" => x.body = "returned"
    /\ x.status = "FAILED" => x.body \in {"raised", "exited"}
    /\ x.status = "REFUSED" => x.body = "none"
    /\ x.status = "TIMEOUT" => x.req.timed
    /\ x.status \in {"FAILED", "REFUSED", "TIMEOUT"} => x.reason \/ x.body = "exited"

Recs == \A d \in Id : RecOK(deleg[d])

\* A delegation made by an agent is made on the thread that runs it.
Family(d) ==
    /\ deleg[d].by \in Thread /\ deleg[d].by # d
    /\ deleg[d].parent \in Id \cup {None} /\ deleg[d].parent < d
    /\ deleg[d].parent # None => deleg[d].by = Host(deleg[d].parent)

Families == \A d \in Id : d <= begun => Family(d)

\* A stack holds the delegations of its thread in the order they began, each
\* made by the agent of the one before, which runs; a worker's starts with the
\* delegation it is the worker of.
StackOK(t) ==
    /\ \A j, k \in DOMAIN stack[t] : j < k => stack[t][j] < stack[t][k]
    /\ \A k \in DOMAIN stack[t] : k < Len(stack[t]) => Runs(t, stack[t][k])
    /\ \A k \in DOMAIN stack[t] :
          k > 1 => deleg[stack[t][k]].by = t /\ deleg[stack[t][k]].parent = stack[t][k - 1]
    /\ stack[t] # <<>> =>
          \/ t \in Caller /\ deleg[stack[t][1]].by = t /\ deleg[stack[t][1]].parent = None
          \/ stack[t][1] = t /\ deleg[stack[t][1]].req.timed
    /\ \A k \in DOMAIN stack[t] : deleg[stack[t][k]].by = t => deleg[stack[t][k]].pc \in Live
    /\ t \in Caller => \A k \in DOMAIN stack[t] : deleg[stack[t][k]].scoped <=> scope[t]

Stacks == \A t \in Thread : StackOK(t)

\* A delegation that is not over is on the stack of the thread that made it.
OnStack(d) == \E k \in DOMAIN stack[deleg[d].by] : stack[deleg[d].by][k] = d
Lives == \A d \in Id : deleg[d].pc \in Live => OnStack(d)

Workers ==
    \A d \in Id : worker[d] \in {"ended", "dead"} =>
                     deleg[d].body \in {"returned", "raised", "exited"}

\* The delegations whose step is on the trajectory of c.
Recorded(c, d) == deleg[d].by = c /\ deleg[d].pc = "done" /\ deleg[d].scoped
RecordOK(c) ==
    /\ \A i \in DOMAIN steps[c] : Recorded(c, steps[c][i])
    /\ \A d \in Id : Recorded(c, d) => \E i \in DOMAIN steps[c] : steps[c][i] = d
    /\ \A i, j \in DOMAIN steps[c] : steps[c][i] = steps[c][j] => i = j
    /\ \A i, j \in DOMAIN steps[c] : deleg[steps[c][i]].parent = steps[c][j] => i < j
Records == \A c \in Caller : RecordOK(c)

Inv == Recs /\ Families /\ Stacks /\ Lives /\ Workers /\ Records

\* The agent of a delegation runs on the worker or under the caller's delegate.
LEMMA RunsFacts ==
    ASSUME TypeOK, Inv, NEW t \in Thread, NEW d \in Id, d <= begun, Runs(t, d)
    PROVE  /\ deleg[d].req.timed => d = t /\ deleg[d].by # t
           /\ ~deleg[d].req.timed => deleg[d].by = t /\ deleg[d].pc = "agent"
           /\ t \in Caller => ~deleg[d].req.timed
           /\ deleg[d].status \in {"none", "TIMEOUT"}
<1>1. RecOK(deleg[d]) /\ Family(d)
  BY DEF Inv, Recs, Families
<1> QED
  BY <1>1, Constants DEF RecOK, Family, Runs, Host

\* What is said of a stack that stays as it is.
LEMMA StackFrame ==
    ASSUME TypeOK, NEW t \in Thread, StackOK(t), stack'[t] = stack[t],
           t \in Caller => (scope'[t] <=> scope[t]),
           \A k \in DOMAIN stack[t] :
              /\ deleg'[stack[t][k]].by = deleg[stack[t][k]].by
              /\ deleg'[stack[t][k]].req = deleg[stack[t][k]].req
              /\ deleg'[stack[t][k]].parent = deleg[stack[t][k]].parent
              /\ deleg'[stack[t][k]].scoped <=> deleg[stack[t][k]].scoped
              /\ k < Len(stack[t]) => deleg'[stack[t][k]].body = deleg[stack[t][k]].body
              /\ deleg[stack[t][k]].by = t => deleg'[stack[t][k]].pc \in Live
    PROVE  StackOK(t)'
<1>1. stack[t] \in Seq(Id)
  BY StackFacts
<1>2. stack[t] # <<>> => 1 \in DOMAIN stack[t]
  BY <1>1
<1>3. \A k \in DOMAIN stack[t] : k < Len(stack[t]) => Runs(t, stack[t][k])'
  BY DEF StackOK, Runs, Host
<1> QED
  BY <1>2, <1>3 DEF StackOK

\* What is said of an empty stack.
LEMMA StackEmpty ==
    ASSUME NEW t, stack'[t] = <<>>
    PROVE  StackOK(t)'
BY DEF StackOK

\* What is said of a trajectory that gets no step.
LEMMA RecordFrame ==
    ASSUME TypeOK, NEW c \in Caller, RecordOK(c), steps'[c] = steps[c],
           \A d \in Id : /\ Recorded(c, d)' <=> Recorded(c, d)
                         /\ Recorded(c, d) => deleg'[d].parent = deleg[d].parent
    PROVE  RecordOK(c)'
<1>1. \A i \in DOMAIN steps[c] : steps[c][i] \in Id
  BY DEF TypeOK, ScopesOK
<1> HIDE DEF Recorded
<1>2. \A i \in DOMAIN steps[c] : Recorded(c, steps[c][i])'
  BY <1>1 DEF RecordOK
<1>3. \A d \in Id : Recorded(c, d)' => \E i \in DOMAIN steps[c] : steps[c][i] = d
  BY DEF RecordOK
<1>4. \A i \in DOMAIN steps[c] : deleg'[steps[c][i]].parent = deleg[steps[c][i]].parent
  BY <1>1 DEF RecordOK
<1> QED
  BY <1>2, <1>3, <1>4 DEF RecordOK

\* Steps that leave the delegations alone.
LEMMA QuietSteps ==
    ASSUME TypeOK, Inv, UNCHANGED <<deleg, begun, stack, steps>>,
           \A c \in Caller : (scope'[c] <=> scope[c]) \/ stack[c] = <<>>,
           \A d \in Id : worker'[d] \in {"ended", "dead"} => worker[d] \in {"ended", "dead"}
    PROVE  Inv'
<1>1. Recs' /\ Families' /\ Lives' /\ Workers'
  BY DEF Inv, Recs, RecOK, Families, Family, Host, Lives, OnStack, Workers
<1>2. ASSUME NEW t \in Thread  PROVE StackOK(t)'
  <2>1. CASE stack[t] = <<>>
    BY <2>1, StackEmpty
  <2>2. CASE stack[t] # <<>>
    <3>1. StackOK(t) /\ (t \in Caller => (scope'[t] <=> scope[t]))
      BY <2>2 DEF Inv, Stacks
    <3> QED
      BY <3>1, StackFrame DEF StackOK
  <2> QED
    BY <2>1, <2>2
<1>3. ASSUME NEW c \in Caller  PROVE RecordOK(c)'
  BY DEF Inv, Records, RecordOK, Recorded
<1> QED
  BY <1>1, <1>2, <1>3 DEF Inv, Stacks, Records
------------------------------------------------------------------------------
(* A delegation begins                                                     *)

\* The thread that begins one, and the number it gets.
LEMMA Beginner ==
    ASSUME TypeOK, Inv, NEW t \in Thread, (t \in Caller /\ stack[t] = <<>>) \/ InBody(t)
    PROVE  /\ t # begun + 1
           /\ Outer(t) = None <=> stack[t] = <<>>
           /\ stack[t] # <<>> =>
                 /\ Outer(t) = Top(t) /\ Outer(t) \in Id /\ Outer(t) <= begun
                 /\ Runs(t, Outer(t))
                 /\ t \in Caller => /\ deleg[Outer(t)].pc # "done"
                                    /\ deleg[Outer(t)].scoped <=> scope[t]
<1>0. begun \in Nat /\ (stack[t] # <<>> => Top(t) \in Id /\ Len(stack[t]) \in DOMAIN stack[t]
                                           /\ Top(t) = stack[t][Len(stack[t])])
  BY StackFacts
<1>1. Outer(t) = None <=> stack[t] = <<>>
  BY <1>0, Constants DEF Outer, None
<1>2. ASSUME stack[t] # <<>>
      PROVE  /\ Outer(t) = Top(t) /\ Outer(t) \in Id /\ Outer(t) <= begun
             /\ Runs(t, Outer(t))
             /\ t \in Caller => /\ deleg[Outer(t)].pc # "done"
                                /\ deleg[Outer(t)].scoped <=> scope[t]
  <2>1. Outer(t) = Top(t) /\ Outer(t) \in Id /\ Outer(t) <= begun
    BY <1>0, <1>2, StackFacts DEF Outer
  <2>2. Runs(t, Outer(t))
    BY <1>2, <2>1 DEF InBody, Runs
  <2>3. t \in Caller => deleg[Outer(t)].pc = "agent"
    BY <2>1, <2>2, RunsFacts
  <2>4. t \in Caller => (deleg[Outer(t)].scoped <=> scope[t])
    BY <1>0, <1>2, <2>1 DEF Inv, Stacks, StackOK
  <2> QED
    BY <2>1, <2>2, <2>3, <2>4
<1>3. t # begun + 1
  <2>1. CASE t \in Caller
    BY <1>0, <2>1, Constants
  <2>2. CASE t \notin Caller
    <3>1. stack[t] # <<>> /\ 1 \in DOMAIN stack[t] /\ stack[t][1] <= begun
      BY <2>2, StackFacts DEF InBody
    <3>2. stack[t][1] = t
      BY <2>2, <3>1 DEF Inv, Stacks, StackOK
    <3> QED
      BY <1>0, <3>1, <3>2
  <2> QED
    BY <2>1, <2>2
<1> QED
  BY <1>1, <1>2, <1>3

\* Nothing is on the stack of a worker that was not started.
LEMMA FreshStack ==
    ASSUME TypeOK, Inv, NEW n \in Id, n > begun
    PROVE  stack[n] = <<>> /\ deleg[n] = NoDelegation /\ worker[n] \notin {"ended", "dead"}
<1>1. begun \in Nat /\ n \in Nat /\ n \in Thread /\ n \notin Caller
  BY Constants DEF TypeOK, DelegationsOK
<1>2. deleg[n] = NoDelegation
  BY DEF TypeOK, DelegationsOK
<1>3. worker[n] \notin {"ended", "dead"}
  BY <1>2, NoDelegationFields DEF Inv, Workers
<1>4. ASSUME stack[n] # <<>>  PROVE FALSE
  <2>1. 1 \in DOMAIN stack[n] /\ stack[n][1] <= begun
    BY <1>1, <1>4, StackFacts
  <2>2. stack[n][1] = n
    BY <1>1, <1>4 DEF Inv, Stacks, StackOK
  <2> QED
    BY <1>1, <2>1, <2>2
<1> QED
  BY <1>2, <1>3, <1>4

\* A delegation that begins fits in.
LEMMA DelegateFits ==
    ASSUME TypeOK, Inv, NEW t \in Thread, NEW r \in Request, Delegate(t, r),
           (t \in Caller /\ stack[t] = <<>>) \/ InBody(t)
    PROVE  Inv'
<1> DEFINE n == begun + 1
           x == Begins(t, r)
           apart == r.timed /\ ~Refused(r)
<1>1. /\ n \in Id /\ n \in Nat /\ begun' = n /\ begun \in Nat
      /\ deleg' = [deleg EXCEPT ![n] = x]
      /\ worker' = [worker EXCEPT ![n] = IF apart THEN "running" ELSE worker[n]]
      /\ stack' = [stack EXCEPT ![n] = IF apart THEN <<n>> ELSE stack[n],
                                ![t] = Push(t, n)]
      /\ UNCHANGED <<registry, scope, steps>>
  BY Constants DEF Delegate, Id, TypeOK, DelegationsOK
<1>2. BeginsOK(t, r, x)
  BY BeginsFields DEF InBody
<1> HIDE DEF x, apart
<1>3. /\ t # n /\ (Outer(t) = None <=> stack[t] = <<>>)
      /\ stack[t] # <<>> =>
            /\ Outer(t) = Top(t) /\ Outer(t) \in Id /\ Outer(t) <= begun
            /\ Runs(t, Outer(t))
            /\ t \in Caller => /\ deleg[Outer(t)].pc # "done"
                               /\ deleg[Outer(t)].scoped <=> scope[t]
  BY Beginner
<1>4. stack[n] = <<>> /\ deleg[n] = NoDelegation /\ worker[n] \notin {"ended", "dead"}
  BY <1>1, FreshStack
<1>5. /\ deleg'[n] = x /\ (\A d \in Id \ {n} : deleg'[d] = deleg[d])
      /\ stack'[t] = Append(stack[t], n) /\ stack'[n] = (IF apart THEN <<n>> ELSE <<>>)
      /\ \A u \in Thread \ {n, t} : stack'[u] = stack[u]
  <2>1. deleg \in [Id -> Delegation] /\ stack \in [Thread -> Seq(Id)] /\ n \in Thread
    BY <1>1, Constants DEF TypeOK, DelegationsOK, StacksOK
  <2>2. stack'[n] = (IF apart THEN <<n>> ELSE stack[n])
    BY <1>1, <1>3, <2>1
  <2> QED
    BY <1>1, <1>3, <1>4, <2>1, <2>2 DEF Push
<1>6. \A u \in Thread : \A k \in DOMAIN stack[u] :
         /\ stack[u][k] \in Id /\ stack[u][k] <= begun /\ stack[u][k] < n
         /\ deleg'[stack[u][k]] = deleg[stack[u][k]]
  <2> SUFFICES ASSUME NEW u \in Thread, NEW k \in DOMAIN stack[u]
               PROVE  /\ stack[u][k] \in Id /\ stack[u][k] <= begun /\ stack[u][k] < n
                      /\ deleg'[stack[u][k]] = deleg[stack[u][k]]
    OBVIOUS
  <2>1. stack[u][k] \in Id /\ stack[u][k] <= begun /\ stack[u][k] \in Nat
    BY StackFacts, Constants
  <2> QED
    BY <1>1, <1>5, <2>1
<1>7. /\ x.by = t /\ x.parent = Outer(t) /\ x.pc \in Live /\ x.req = r
      /\ t \in Caller => (x.scoped <=> scope[t])
  BY <1>2, <1>3 DEF BeginsOK, Live
<1>8. Recs'
  <2>1. RecOK(x)
    BY <1>2 DEF BeginsOK, RecOK
  <2>2. ASSUME NEW d \in Id  PROVE RecOK(deleg[d])'
    <3>1. CASE d = n
      BY <1>5, <2>1, <3>1 DEF RecOK
    <3>2. CASE d # n
      BY <1>5, <3>2 DEF Inv, Recs, RecOK
    <3> QED
      BY <3>1, <3>2
  <2> QED
    BY <2>2 DEF Recs
<1>9. Families'
  <2> SUFFICES ASSUME NEW d \in Id, d <= begun'  PROVE Family(d)'
    BY DEF Families
  <2>1. CASE d = n
    <3>0. PICK o : o = Outer(t)
      OBVIOUS
    <3>1. o \in Id \cup {None} /\ o < n
      <4>1. CASE stack[t] = <<>>
        BY <1>1, <1>3, <3>0, <4>1 DEF None
      <4>2. CASE stack[t] # <<>>
        <5>1. o \in Id /\ o <= begun
          BY <1>3, <3>0, <4>2
        <5>2. o \in Nat
          BY <5>1, Constants
        <5> QED
          BY <1>1, <5>1, <5>2
      <4> QED
        BY <4>1, <4>2
    <3>2. o # None => Host(o)' = t
      <4>1. o # None => o \in Id \ {n} /\ Host(o) = t
        BY <1>1, <1>3, <3>0, <3>1, Constants DEF Runs
      <4> QED
        BY <1>5, <4>1 DEF Host
    <3>3. deleg'[n].by = t /\ deleg'[n].parent = o
      BY <1>5, <1>7, <3>0
    <3> QED
      BY <1>3, <2>1, <3>1, <3>2, <3>3 DEF Family
  <2>2. CASE d # n
    <3>1. d <= begun /\ deleg'[d] = deleg[d] /\ d \in Nat
      BY <1>1, <1>5, <2>2, Constants
    <3>2. Family(d)
      BY <3>1 DEF Inv, Families
    <3>3. deleg[d].parent # None => deleg[d].parent \in Id \ {n}
      BY <1>1, <3>1, <3>2, Constants DEF Family
    <3> QED
      BY <1>5, <3>1, <3>2, <3>3 DEF Family, Host
  <2> QED
    BY <2>1, <2>2
<1>10. Stacks'
  <2> SUFFICES ASSUME NEW u \in Thread  PROVE StackOK(u)'
    BY DEF Stacks
  <2>0. StackOK(u) /\ stack[u] \in Seq(Id)
    BY StackFacts DEF Inv, Stacks
  <2>1. CASE u # t /\ u # n
    <3>1. \A k \in DOMAIN stack[u] : deleg'[stack[u][k]] = deleg[stack[u][k]]
      BY <1>6
    <3>2. stack'[u] = stack[u] /\ scope' = scope
      BY <1>1, <1>5, <2>1
    <3>3. \A k \in DOMAIN stack[u] : deleg[stack[u][k]].by = u => deleg[stack[u][k]].pc \in Live
      BY <2>0 DEF StackOK
    <3> QED
      BY <2>0, <3>1, <3>2, <3>3, StackFrame
  <2>2. CASE u = n
    <3>1. CASE apart
      <4>1. r.timed
        BY <3>1 DEF apart
      <4>2. n \notin Caller /\ n \in Nat
        BY <1>1, Constants
      <4>3. stack'[n] = <<n>> /\ deleg'[n].req.timed /\ deleg'[n].by # n
        BY <1>3, <1>5, <1>7, <3>1, <4>1
      <4>4. DOMAIN stack'[n] = {1} /\ stack'[n][1] = n /\ Len(stack'[n]) = 1
        <5>1. DOMAIN <<n>> = {1} /\ <<n>>[1] = n /\ Len(<<n>>) = 1
          OBVIOUS
        <5> QED
          BY <4>3, <5>1
      <4> HIDE DEF n
      <4>5. /\ \A j, k \in DOMAIN stack'[n] : ~(j < k)
            /\ \A k \in DOMAIN stack'[n] : ~(k < Len(stack'[n])) /\ ~(k > 1)
            /\ \A k \in DOMAIN stack'[n] : deleg'[stack'[n][k]].by # n
        BY <4>3, <4>4
      <4> QED
        BY <2>2, <4>2, <4>3, <4>4, <4>5 DEF StackOK
    <3>2. CASE ~apart
      BY <1>5, <2>2, <3>2, StackEmpty
    <3> QED
      BY <3>1, <3>2
  <2>3. CASE u = t
    <3>a. PICK m, q : m = Len(stack[t]) /\ q = Append(stack[t], n)
      OBVIOUS
    <3>0. stack[t] \in Seq(Id) /\ StackOK(t)
      BY <2>0, <2>3
    <3>1. /\ m \in Nat /\ Len(q) = m + 1 /\ DOMAIN q = 1..(m + 1) /\ DOMAIN stack[t] = 1..m
          /\ q[m + 1] = n /\ (\A k \in 1..m : q[k] = stack[t][k])
          /\ (stack[t] = <<>> <=> m = 0)
      BY <1>1, <3>0, <3>a
    <3>2. stack'[t] = q
      BY <1>5, <3>a
    <3>3. \A k \in 1..m : /\ q[k] \in Id /\ q[k] < n /\ deleg'[q[k]] = deleg[q[k]]
                          /\ q[k] = stack[t][k]
      BY <1>6, <3>1
    <3>4. \A j, k \in 1..(m + 1) : j < k => q[j] < q[k]
      <4> SUFFICES ASSUME NEW j \in 1..(m + 1), NEW k \in 1..(m + 1), j < k
                   PROVE  q[j] < q[k]
        OBVIOUS
      <4>1. CASE k = m + 1
        BY <3>1, <3>3, <4>1
      <4>2. CASE k # m + 1
        <5>1. j \in 1..m /\ k \in 1..m
          BY <3>1, <4>2
        <5>2. stack[t][j] < stack[t][k]
          BY <3>0, <3>1, <5>1 DEF StackOK
        <5> QED
          BY <3>3, <5>1, <5>2
      <4> QED
        BY <4>1, <4>2
    <3>5. \A k \in 1..m : Runs(t, q[k])'
      <4> SUFFICES ASSUME NEW k \in 1..m  PROVE Runs(t, q[k])'
        OBVIOUS
      <4>1. CASE k < m
        <5>1. Runs(t, stack[t][k])
          BY <3>0, <3>1, <3>a, <4>1 DEF StackOK
        <5> QED
          BY <3>2, <3>3, <5>1 DEF Runs, Host
      <4>2. CASE k = m
        <5>1. q[k] = Top(t) /\ stack[t] # <<>>
          BY <3>1, <3>3, <3>a, <4>2 DEF Top
        <5>2. Runs(t, q[k])
          BY <1>3, <5>1
        <5> QED
          BY <3>2, <3>3, <5>2 DEF Runs, Host
      <4> QED
        BY <3>1, <4>1, <4>2
    <3>6. ASSUME NEW k \in 1..(m + 1)
          PROVE  /\ k > 1 => deleg'[q[k]].by = t /\ deleg'[q[k]].parent = q[k - 1]
                 /\ deleg'[q[k]].by = t => deleg'[q[k]].pc \in Live
                 /\ t \in Caller => (deleg'[q[k]].scoped <=> scope'[t])
      <4>1. CASE k \in 1..m
        <5>1. k \in DOMAIN stack[t] /\ q[k] = stack[t][k] /\ deleg'[q[k]] = deleg[stack[t][k]]
          BY <3>1, <3>3, <4>1
        <5>2. k > 1 => k - 1 \in 1..m
          BY <3>1, <4>1
        <5>3. k > 1 => q[k - 1] = stack[t][k - 1]
          BY <3>3, <5>2
        <5> QED
          BY <1>1, <3>0, <5>1, <5>3 DEF StackOK
      <4>2. CASE k = m + 1
        <5>1. q[k] = n /\ deleg'[q[k]] = x
          BY <1>5, <3>1, <4>2
        <5>2. k > 1 => stack[t] # <<>> /\ k - 1 = m /\ m \in 1..m
          BY <3>1, <4>2
        <5>3. k > 1 => x.parent = q[k - 1]
          BY <1>3, <1>7, <3>3, <3>a, <5>2 DEF Top
        <5> QED
          BY <1>1, <1>7, <5>1, <5>3
      <4> QED
        BY <3>1, <4>1, <4>2
    <3>7. \/ t \in Caller /\ deleg'[q[1]].by = t /\ deleg'[q[1]].parent = None
          \/ q[1] = t /\ deleg'[q[1]].req.timed
      <4>1. CASE stack[t] = <<>>
        <5>1. q[1] = n /\ t \in Caller
          BY <3>1, <4>1 DEF InBody
        <5> QED
          BY <1>3, <1>5, <1>7, <4>1, <5>1
      <4>2. CASE stack[t] # <<>>
        <5>1. 1 \in 1..m
          BY <3>1, <4>2
        <5>2. q[1] = stack[t][1] /\ deleg'[q[1]] = deleg[stack[t][1]]
          BY <3>3, <5>1
        <5> QED
          BY <3>0, <4>2, <5>2 DEF StackOK
      <4> QED
        BY <4>1, <4>2
    <3>8. \A k \in 1..(m + 1) : k < m + 1 => k \in 1..m
      BY <3>1
    <3> QED
      BY <2>3, <3>1, <3>2, <3>4, <3>5, <3>6, <3>7, <3>8 DEF StackOK
  <2> QED
    BY <2>1, <2>2, <2>3
<1>11. Lives'
  <2> SUFFICES ASSUME NEW d \in Id, deleg'[d].pc \in Live
               PROVE  \E k \in DOMAIN stack'[deleg'[d].by] : stack'[deleg'[d].by][k] = d
    BY DEF Lives, OnStack
  <2>0. stack[t] \in Seq(Id)
    BY StackFacts
  <2>1. CASE d = n
    <3>1. deleg'[d].by = t /\ stack'[t] = Append(stack[t], n)
      BY <1>5, <1>7, <2>1
    <3>2. Len(stack[t]) + 1 \in DOMAIN Append(stack[t], n)
          /\ Append(stack[t], n)[Len(stack[t]) + 1] = n
      BY <1>1, <2>0
    <3> QED
      BY <2>1, <3>1, <3>2
  <2>2. CASE d # n
    <3>1. deleg'[d] = deleg[d]
      BY <1>5, <2>2
    <3> DEFINE u == deleg[d].by
    <3>2. PICK k \in DOMAIN stack[u] : stack[u][k] = d
      BY <3>1 DEF Inv, Lives, OnStack
    <3>3. u \in Thread /\ u # n
      <4>1. d <= begun
        <5>1. deleg[d] # NoDelegation
          BY <3>1, NoDelegationFields DEF Live
        <5> QED
          BY <1>1, <5>1, Constants DEF TypeOK, DelegationsOK
      <4>2. Family(d)
        BY <4>1 DEF Inv, Families
      <4> QED
        BY <1>4, <3>2, <4>2 DEF Family
    <3>4. CASE u = t
      <4>1. k \in DOMAIN Append(stack[t], n) /\ Append(stack[t], n)[k] = stack[t][k]
        BY <1>1, <2>0, <3>2, <3>4
      <4> QED
        BY <1>5, <3>1, <3>2, <3>4, <4>1
    <3>5. CASE u # t
      BY <1>5, <3>1, <3>2, <3>3, <3>5
    <3> QED
      BY <3>4, <3>5
  <2> QED
    BY <2>1, <2>2
<1>12. Workers'
  <2>1. \A d \in Id : d # n => worker'[d] = worker[d]
    BY <1>1 DEF TypeOK, DelegationsOK
  <2>2. worker'[n] \notin {"ended", "dead"}
    BY <1>1, <1>4 DEF TypeOK, DelegationsOK
  <2> QED
    BY <1>5, <2>1, <2>2 DEF Inv, Workers
<1>13. Records'
  <2> SUFFICES ASSUME NEW c \in Caller  PROVE RecordOK(c)'
    BY DEF Records
  <2>1. ASSUME NEW d \in Id
        PROVE  /\ Recorded(c, d)' <=> Recorded(c, d)
               /\ Recorded(c, d) => deleg'[d].parent = deleg[d].parent
    <3>1. CASE d = n
      BY <1>4, <1>5, <1>7, <3>1, NoDelegationFields DEF Recorded, Live
    <3>2. CASE d # n
      BY <1>5, <3>2 DEF Recorded
    <3> QED
      BY <3>1, <3>2
  <2> QED
    BY <1>1, <2>1, RecordFrame DEF Inv, Records
<1> QED
  BY <1>8, <1>9, <1>10, <1>11, <1>12, <1>13 DEF Inv
------------------------------------------------------------------------------
(* A delegation goes on                                                    *)

\* A stack that one delegation is on.
LEMMA TopFacts ==
    ASSUME TypeOK, Inv, NEW t \in Thread, stack[t] # <<>>
    PROVE  /\ Top(t) \in Id /\ Top(t) <= begun /\ Len(stack[t]) \in DOMAIN stack[t]
           /\ stack[t][Len(stack[t])] = Top(t) /\ stack[t] \in Seq(Id)
           /\ \A k \in DOMAIN stack[t] : k # Len(stack[t]) => k < Len(stack[t]) /\ stack[t][k] # Top(t)
<1>1. /\ Top(t) \in Id /\ Top(t) <= begun /\ Len(stack[t]) \in DOMAIN stack[t]
      /\ stack[t][Len(stack[t])] = Top(t) /\ stack[t] \in Seq(Id)
  BY StackFacts
<1>2. ASSUME NEW k \in DOMAIN stack[t], k # Len(stack[t])
      PROVE  k < Len(stack[t]) /\ stack[t][k] # Top(t)
  <2>1. k < Len(stack[t])
    BY <1>1, <1>2
  <2>2. stack[t][k] < stack[t][Len(stack[t])]
    BY <1>1, <2>1 DEF Inv, Stacks, StackOK
  <2>3. stack[t][k] \in Nat /\ Top(t) \in Nat
    <3>1. stack[t][k] \in Id
      BY <1>1
    <3> QED
      BY <1>1, <3>1, Constants
  <2> QED
    BY <1>1, <2>1, <2>2, <2>3
<1> QED
  BY <1>1, <1>2

\* One that is over for its thread gets a result.
LEMMA SettleFits ==
    ASSUME TypeOK, Inv, NEW t \in Thread, stack[t] # <<>>, NEW d \in Id, d = Top(t),
           deleg[d].by = t, deleg[d].pc \in Live, NEW x, RecOK(x), x.pc = "finish",
           x.req = deleg[d].req, x.by = deleg[d].by, x.parent = deleg[d].parent,
           x.scoped <=> deleg[d].scoped,
           \/ x.body = deleg[d].body
           \/ ~deleg[d].req.timed /\ x.body \in {"returned", "raised"},
           deleg' = [deleg EXCEPT ![d] = x], UNCHANGED <<begun, stack, worker, scope, steps>>
    PROVE  Inv'
<1>1. deleg'[d] = x /\ \A e \in Id \ {d} : deleg'[e] = deleg[e]
  BY DEF TypeOK, DelegationsOK
<1>2. \A e \in Id : /\ deleg'[e].by = deleg[e].by /\ deleg'[e].req = deleg[e].req
                    /\ deleg'[e].parent = deleg[e].parent
                    /\ (deleg'[e].scoped <=> deleg[e].scoped)
                    /\ (deleg[e].pc \in Live <=> deleg'[e].pc \in Live)
                    /\ (deleg[e].pc = "done" <=> deleg'[e].pc = "done")
  BY <1>1 DEF Live
<1>3. d <= begun /\ Family(d) /\ RecOK(deleg[d])
  BY TopFacts DEF Inv, Families, Recs
<1>4. Recs'
  <2>1. ASSUME NEW e \in Id  PROVE RecOK(deleg[e])'
    BY <1>1 DEF Inv, Recs, RecOK
  <2> QED
    BY <2>1 DEF Recs
<1>5. Families'
  <2>1. ASSUME NEW e \in Id, e <= begun  PROVE Family(e)'
    BY <1>2, <2>1, Constants DEF Inv, Families, Family, Host
  <2> QED
    BY <2>1 DEF Families
<1>6. Stacks'
  <2> SUFFICES ASSUME NEW u \in Thread  PROVE StackOK(u)'
    BY DEF Stacks
  <2>1. StackOK(u) /\ \A k \in DOMAIN stack[u] : stack[u][k] \in Id
    BY StackFacts DEF Inv, Stacks
  <2>2. ASSUME NEW k \in DOMAIN stack[u], k < Len(stack[u])
        PROVE  deleg'[stack[u][k]].body = deleg[stack[u][k]].body
    <3>1. CASE stack[u][k] = d
      <4>1. u # t
        BY <2>2, <3>1, TopFacts
      <4>2. Runs(u, d)
        BY <2>1, <2>2, <3>1 DEF StackOK
      <4>3. deleg[d].req.timed
        BY <4>1, <4>2 DEF Runs, Host
      <4> QED
        BY <1>1, <3>1, <4>3
    <3>2. CASE stack[u][k] # d
      BY <1>1, <2>1, <3>2
    <3> QED
      BY <3>1, <3>2
  <2>3. \A k \in DOMAIN stack[u] :
           deleg[stack[u][k]].by = u => deleg'[stack[u][k]].pc \in Live
    BY <1>2, <2>1 DEF StackOK
  <2> QED
    BY <1>2, <2>1, <2>2, <2>3, StackFrame
<1>7. Lives'
  BY <1>2 DEF Inv, Lives, OnStack
<1>8. Workers'
  BY <1>1 DEF Inv, Workers
<1>9. Records'
  <2>1. ASSUME NEW c \in Caller  PROVE RecordOK(c)'
    <3>1. \A e \in Id : /\ Recorded(c, e)' <=> Recorded(c, e)
                        /\ Recorded(c, e) => deleg'[e].parent = deleg[e].parent
      BY <1>2 DEF Recorded
    <3> QED
      BY <3>1, RecordFrame DEF Inv, Records
  <2> QED
    BY <2>1 DEF Records
<1> QED
  BY <1>4, <1>5, <1>6, <1>7, <1>8, <1>9 DEF Inv

\* Everything on the stack of a thread whose agents run.
LEMMA RunningStack ==
    ASSUME TypeOK, Inv, NEW t \in Thread, InBody(t), NEW k \in DOMAIN stack[t]
    PROVE  stack[t][k] \in Id /\ stack[t][k] <= begun /\ Runs(t, stack[t][k])
<1>1. stack[t] # <<>> /\ Runs(t, Top(t))
  BY DEF InBody, Runs
<1>2. stack[t][k] \in Id /\ stack[t][k] <= begun
  BY StackFacts
<1>3. CASE k = Len(stack[t])
  BY <1>1, <1>2, <1>3, TopFacts
<1>4. CASE k # Len(stack[t])
  BY <1>1, <1>2, <1>4, TopFacts DEF Inv, Stacks, StackOK
<1> QED
  BY <1>3, <1>4

\* A worker that runs an agent holds the delegation it is the worker of.
LEMMA WorkerStack ==
    ASSUME TypeOK, Inv, NEW t \in Thread, InBody(t), t \notin Caller
    PROVE  t \in Id /\ 1 \in DOMAIN stack[t] /\ stack[t][1] = t /\ deleg[t].req.timed
           /\ deleg[t].by # t
<1>1. stack[t] # <<>> /\ stack[t] \in Seq(Id) /\ 1 \in DOMAIN stack[t]
  BY StackFacts DEF InBody
<1>2. stack[t][1] = t /\ deleg[t].req.timed
  BY <1>1 DEF Inv, Stacks, StackOK
<1>3. t \in Id /\ t <= begun
  BY <1>1, <1>2, StackFacts
<1> QED
  BY <1>1, <1>2, <1>3 DEF Inv, Families, Family

\* The agents on a thread end together with its stack: the one of a worker, or
\* all of them.
LEMMA StackEnds ==
    ASSUME TypeOK, Inv, NEW t \in Thread, InBody(t),
           stack' = [stack EXCEPT ![t] = <<>>],
           NEW S, \A e \in S : \E k \in DOMAIN stack[t] : stack[t][k] = e,
           \A k \in DOMAIN stack[t] : deleg[stack[t][k]].by = t => stack[t][k] \in S,
           t \in Id => t \in S,
           \A e \in Id \ S : deleg'[e] = deleg[e],
           \A e \in S : /\ deleg'[e].by = deleg[e].by /\ deleg'[e].req = deleg[e].req
                        /\ deleg'[e].parent = deleg[e].parent
                        /\ deleg'[e].scoped <=> deleg[e].scoped
                        /\ deleg'[e].status = deleg[e].status
                        /\ deleg'[e].reason <=> deleg[e].reason
                        /\ deleg'[e].body \in {"returned", "raised", "exited"}
                        /\ IF deleg[e].req.timed THEN deleg'[e].pc = deleg[e].pc
                           ELSE deleg'[e].pc = "lost" /\ deleg'[e].body = "exited",
           \A e \in Id : e # t => worker'[e] = worker[e],
           UNCHANGED <<begun, scope, steps>>
    PROVE  Inv'
<1>1. ASSUME NEW e \in S
      PROVE  /\ e \in Id /\ Runs(t, e) /\ RecOK(deleg[e])
             /\ deleg[e].req.timed => e = t /\ deleg[e].by # t
             /\ ~deleg[e].req.timed => deleg[e].by = t /\ deleg[e].pc = "agent"
             /\ deleg[e].status \in {"none", "TIMEOUT"}
  <2>1. PICK k \in DOMAIN stack[t] : stack[t][k] = e
    OBVIOUS
  <2>2. e \in Id /\ e <= begun /\ Runs(t, e)
    BY <2>1, RunningStack
  <2>3. RecOK(deleg[e])
    BY <2>2 DEF Inv, Recs
  <2> QED
    BY <2>2, <2>3, RunsFacts
<1>2. \A e \in Id : /\ deleg'[e].by = deleg[e].by /\ deleg'[e].req = deleg[e].req
                    /\ deleg'[e].parent = deleg[e].parent
                    /\ (deleg'[e].scoped <=> deleg[e].scoped)
  OBVIOUS
<1>3. \A e \in Id : e \notin S \/ deleg[e].req.timed => deleg'[e].pc = deleg[e].pc
  OBVIOUS
<1>4. \A e \in S : ~deleg[e].req.timed => deleg[e].pc = "agent" /\ deleg'[e].pc = "lost"
  BY <1>1
<1>5. Recs'
  <2>1. ASSUME NEW e \in Id  PROVE RecOK(deleg[e])'
    <3>1. CASE e \notin S
      BY <3>1 DEF Inv, Recs, RecOK
    <3>2. CASE e \in S /\ deleg[e].req.timed
      BY <1>1, <3>2 DEF RecOK, Runs
    <3>3. CASE e \in S /\ ~deleg[e].req.timed
      BY <1>1, <3>3 DEF RecOK, Runs
    <3> QED
      BY <3>1, <3>2, <3>3
  <2> QED
    BY <2>1 DEF Recs
<1>6. Families'
  <2>1. ASSUME NEW e \in Id, e <= begun  PROVE Family(e)'
    <3>1. Family(e) /\ deleg'[e].by = deleg[e].by /\ deleg'[e].parent = deleg[e].parent
      BY <1>2, <2>1 DEF Inv, Families
    <3>2. deleg[e].parent \in Id =>
             /\ deleg'[deleg[e].parent].by = deleg[deleg[e].parent].by
             /\ deleg'[deleg[e].parent].req = deleg[deleg[e].parent].req
      BY <1>2
    <3> QED
      BY <3>1, <3>2 DEF Family, Host
  <2> QED
    BY <2>1 DEF Families
<1>7. stack'[t] = <<>> /\ \A u \in Thread : u # t => stack'[u] = stack[u]
  BY DEF TypeOK, StacksOK
<1>8. Stacks'
  <2> SUFFICES ASSUME NEW u \in Thread  PROVE StackOK(u)'
    BY DEF Stacks
  <2>1. CASE u = t
    BY <1>7, <2>1, StackEmpty
  <2>2. CASE u # t
    <3>1. StackOK(u) /\ \A k \in DOMAIN stack[u] : stack[u][k] \in Id
      BY StackFacts DEF Inv, Stacks
    <3>2. ASSUME NEW k \in DOMAIN stack[u], k < Len(stack[u])
          PROVE  deleg'[stack[u][k]].body = deleg[stack[u][k]].body
      <4>1. Runs(u, stack[u][k])
        BY <3>1, <3>2 DEF StackOK
      <4>2. stack[u][k] \notin S
        BY <1>1, <2>2, <4>1 DEF Runs
      <4> QED
        BY <3>1, <4>2
    <3>3. ASSUME NEW k \in DOMAIN stack[u], deleg[stack[u][k]].by = u
          PROVE  deleg'[stack[u][k]].pc \in Live
      <4>1. deleg[stack[u][k]].pc \in Live
        BY <3>1, <3>3 DEF StackOK
      <4>2. stack[u][k] \notin S \/ deleg[stack[u][k]].req.timed
        BY <1>1, <2>2, <3>3
      <4> QED
        BY <1>3, <3>1, <4>1, <4>2
    <3> QED
      BY <1>2, <1>7, <2>2, <3>1, <3>2, <3>3, StackFrame
  <2> QED
    BY <2>1, <2>2
<1>9. Lives'
  <2> SUFFICES ASSUME NEW e \in Id, deleg'[e].pc \in Live
               PROVE  \E k \in DOMAIN stack'[deleg'[e].by] : stack'[deleg'[e].by][k] = e
    BY DEF Lives, OnStack
  <2>1. deleg[e].pc \in Live /\ (e \notin S \/ deleg[e].req.timed)
    <3>1. CASE e \in S /\ ~deleg[e].req.timed
      BY <1>4, <3>1 DEF Live
    <3>2. CASE e \notin S \/ deleg[e].req.timed
      BY <1>3, <3>2
    <3> QED
      BY <3>1, <3>2
  <2>2. PICK k \in DOMAIN stack[deleg[e].by] : stack[deleg[e].by][k] = e
    BY <2>1 DEF Inv, Lives, OnStack
  <2>3. deleg[e].by # t
    <3>1. ASSUME deleg[e].by = t
          PROVE  FALSE
      <4>1. e \in S
        BY <2>2, <3>1
      <4> QED
        BY <1>1, <2>1, <3>1, <4>1
    <3> QED
      BY <3>1
  <2>4. deleg[e].by \in Thread
    <3>1. e <= begun
      <4>1. deleg[e] # NoDelegation
        BY <2>1, NoDelegationFields DEF Live
      <4>2. begun \in Nat /\ e \in Nat
        BY Constants DEF TypeOK, DelegationsOK
      <4> QED
        BY <4>1, <4>2 DEF TypeOK, DelegationsOK
    <3> QED
      BY <3>1 DEF Inv, Families, Family
  <2> QED
    BY <1>2, <1>7, <2>2, <2>3, <2>4
<1>10. Workers'
  <2>1. ASSUME NEW e \in Id, worker'[e] \in {"ended", "dead"}
        PROVE  deleg'[e].body \in {"returned", "raised", "exited"}
    <3>1. CASE e \in S
      BY <3>1
    <3>2. CASE e \notin S
      <4>1. e # t /\ deleg'[e] = deleg[e]
        BY <3>2
      <4> QED
        BY <2>1, <4>1 DEF Inv, Workers
    <3> QED
      BY <3>1, <3>2
  <2> QED
    BY <2>1 DEF Workers
<1>11. Records'
  <2>1. ASSUME NEW c \in Caller  PROVE RecordOK(c)'
    <3>1. \A e \in Id : deleg'[e].pc = "done" <=> deleg[e].pc = "done"
      BY <1>3, <1>4
    <3>2. \A e \in Id : /\ Recorded(c, e)' <=> Recorded(c, e)
                        /\ Recorded(c, e) => deleg'[e].parent = deleg[e].parent
      BY <1>2, <3>1 DEF Recorded
    <3> QED
      BY <3>2, RecordFrame DEF Inv, Records
  <2> QED
    BY <2>1 DEF Records
<1> QED
  BY <1>5, <1>6, <1>8, <1>9, <1>10, <1>11 DEF Inv
\* An agent that returns or raises.
LEMMA BodyFits ==
    ASSUME TypeOK, Inv, NEW t \in Thread, NEW body, NEW status, BodyEnds(t, body, status),
           \/ body = "returned" /\ status = "SUCCESS"
           \/ body = "raised" /\ status = "FAILED"
    PROVE  Inv'
<1> DEFINE d == Top(t)
<1>1. InBody(t) /\ stack[t] # <<>> /\ UNCHANGED <<begun, scope, steps>>
  BY DEF BodyEnds, InBody
<1>2. d \in Id /\ d <= begun /\ Runs(t, d) /\ deleg[d] \in Delegation /\ RecOK(deleg[d])
  BY <1>1, TopFacts DEF InBody, Runs, TypeOK, DelegationsOK, Inv, Recs
<1>3. CASE ~deleg[d].req.timed
  <2> DEFINE reason == status # "SUCCESS"
             x == [deleg[d] EXCEPT !.body = body, !.pc = "finish", !.status = status,
                                   !.reason = reason]
  <2>1. deleg' = [deleg EXCEPT ![d] = x] /\ UNCHANGED <<worker, stack>>
    BY <1>3 DEF BodyEnds
  <2>2. deleg[d].by = t /\ deleg[d].pc = "agent"
    BY <1>2, <1>3, RunsFacts
  <2>3. reason \in BOOLEAN /\ (reason <=> body = "raised")
    OBVIOUS
  <2> HIDE DEF reason, d
  <2>4. /\ x.pc = "finish" /\ x.body = body /\ x.status = status /\ x.reason = reason
        /\ x.req = deleg[d].req /\ x.by = deleg[d].by /\ x.parent = deleg[d].parent
        /\ x.scoped = deleg[d].scoped
    BY <1>2 DEF Delegation
  <2> HIDE DEF x
  <2>5. RecOK(x)
    BY <1>3, <2>3, <2>4 DEF RecOK
  <2>6. d = Top(t) /\ deleg[d].pc \in Live
    BY <2>2 DEF d, Live
  <2> QED
    BY <1>1, <1>2, <1>3, <2>1, <2>2, <2>4, <2>5, <2>6, SettleFits
<1>4. CASE deleg[d].req.timed
  <2>1. d = t /\ deleg[d].by # t /\ t \in Id
    BY <1>2, <1>4, RunsFacts
  <2> DEFINE x == [deleg[d] EXCEPT !.body = body]
  <2>2. /\ deleg' = [deleg EXCEPT ![d] = x] /\ worker' = [worker EXCEPT ![d] = "ended"]
        /\ stack' = [stack EXCEPT ![t] = <<>>]
    BY <1>4 DEF BodyEnds
  <2> HIDE DEF d
  <2>3. /\ x.pc = deleg[d].pc /\ x.body = body /\ x.status = deleg[d].status
        /\ x.reason = deleg[d].reason /\ x.scoped = deleg[d].scoped
        /\ x.req = deleg[d].req /\ x.by = deleg[d].by /\ x.parent = deleg[d].parent
    BY <1>2 DEF Delegation
  <2> HIDE DEF x
  <2>4. d = Top(t)
    BY DEF d
  <2>5. \E k \in DOMAIN stack[t] : stack[t][k] = d
    BY <1>1, <2>4, TopFacts
  <2>6. \A k \in DOMAIN stack[t] : deleg[stack[t][k]].by = t => stack[t][k] \in {d}
    <3> SUFFICES ASSUME NEW k \in DOMAIN stack[t], deleg[stack[t][k]].by = t
                 PROVE  FALSE
      OBVIOUS
    <3>1. stack[t] \in Seq(Id) /\ t \notin Caller
      BY <1>2, <1>4, RunsFacts, StackFacts
    <3>2. 1 \in DOMAIN stack[t] /\ stack[t][1] = t
      BY <1>1, <3>1, WorkerStack
    <3>3. Len(stack[t]) = 1
      BY <1>1, <2>1, <2>4, <3>2, TopFacts
    <3>4. k = 1
      BY <3>1, <3>3
    <3> QED
      BY <2>1, <3>2, <3>4
  <2>7. /\ deleg'[d] = x /\ \A e \in Id \ {d} : deleg'[e] = deleg[e]
        /\ \A e \in Id : e # t => worker'[e] = worker[e]
    BY <1>2, <2>1, <2>2 DEF TypeOK, DelegationsOK
  <2>8. PICK S : S = {d}
    OBVIOUS
  <2>9. \A e \in S : /\ deleg'[e].by = deleg[e].by /\ deleg'[e].req = deleg[e].req
                     /\ deleg'[e].parent = deleg[e].parent
                     /\ deleg'[e].scoped <=> deleg[e].scoped
                     /\ deleg'[e].status = deleg[e].status
                     /\ deleg'[e].reason <=> deleg[e].reason
                     /\ deleg'[e].body \in {"returned", "raised", "exited"}
                     /\ IF deleg[e].req.timed THEN deleg'[e].pc = deleg[e].pc
                        ELSE deleg'[e].pc = "lost" /\ deleg'[e].body = "exited"
    <3>1. body \in {"returned", "raised", "exited"}
      OBVIOUS
    <3> QED
      BY <1>4, <2>3, <2>7, <2>8, <3>1
  <2>10. \A e \in S : \E k \in DOMAIN stack[t] : stack[t][k] = e
    BY <2>5, <2>8
  <2>11. \A k \in DOMAIN stack[t] : deleg[stack[t][k]].by = t => stack[t][k] \in S
    BY <2>6, <2>8
  <2>12. t \in Id => t \in S
    BY <2>1, <2>8
  <2>13. \A e \in Id \ S : deleg'[e] = deleg[e]
    BY <2>7, <2>8
  <2>14. \A e \in Id : e # t => worker'[e] = worker[e]
    BY <2>7
  <2>15. stack' = [stack EXCEPT ![t] = <<>>]
    BY <2>2
  <2> QED
    BY <1>1, <2>9, <2>10, <2>11, <2>12, <2>13, <2>14, <2>15, StackEnds
<1> QED
  BY <1>3, <1>4

\* An agent that leaves its thread.
LEMMA ExitFits ==
    ASSUME TypeOK, Inv, NEW t \in Thread, AgentExits(t)
    PROVE  Inv'
<1> DEFINE S == {e \in Id : \E k \in DOMAIN stack[t] : stack[t][k] = e}
<1>1. /\ InBody(t) /\ UNCHANGED <<begun, scope, steps>>
      /\ stack' = [stack EXCEPT ![t] = <<>>]
      /\ worker' = [d \in Id |-> IF d = t THEN "ended" ELSE worker[d]]
  BY DEF AgentExits
<1>2. ASSUME NEW e \in S
      PROVE  /\ deleg'[e].by = deleg[e].by /\ deleg'[e].req = deleg[e].req
             /\ deleg'[e].parent = deleg[e].parent
             /\ deleg'[e].scoped = deleg[e].scoped
             /\ deleg'[e].status = deleg[e].status
             /\ deleg'[e].reason = deleg[e].reason
             /\ deleg'[e].body = "exited"
             /\ IF deleg[e].req.timed THEN deleg'[e].pc = deleg[e].pc
                ELSE deleg'[e].pc = "lost"
  <2> DEFINE pc == IF deleg[e].pc = "agent" THEN "lost" ELSE deleg[e].pc
  <2>1. deleg'[e] = [deleg[e] EXCEPT !.body = "exited", !.pc = pc]
    BY DEF AgentExits
  <2>2. e \in Id /\ e <= begun /\ Runs(t, e)
    BY <1>1, RunningStack
  <2>3. IF deleg[e].req.timed THEN pc = deleg[e].pc ELSE pc = "lost"
    <3>1. RecOK(deleg[e])
      BY <2>2 DEF Inv, Recs
    <3> QED
      BY <2>2, <3>1, RunsFacts DEF RecOK
  <2>4. deleg[e] \in Delegation
    BY <2>2 DEF TypeOK, DelegationsOK
  <2> HIDE DEF pc
  <2> QED
    BY <2>1, <2>3, <2>4 DEF Delegation
<1>3. \A e \in Id \ S : deleg'[e] = deleg[e]
  BY DEF AgentExits
<1>4. \A k \in DOMAIN stack[t] : stack[t][k] \in S
  BY StackFacts
<1>5. t \in Id => t \in S
  <2>1. CASE t \in Caller
    BY <2>1, Constants
  <2>2. CASE t \notin Caller
    BY <1>1, <2>2, WorkerStack
  <2> QED
    BY <2>1, <2>2
<1>6. \A e \in S : \E k \in DOMAIN stack[t] : stack[t][k] = e
  OBVIOUS
<1> HIDE DEF S
<1>7. \A e \in Id : e # t => worker'[e] = worker[e]
  BY <1>1
<1>8. \A e \in S : /\ deleg'[e].by = deleg[e].by /\ deleg'[e].req = deleg[e].req
                   /\ deleg'[e].parent = deleg[e].parent
                   /\ deleg'[e].scoped <=> deleg[e].scoped
                   /\ deleg'[e].status = deleg[e].status
                   /\ deleg'[e].reason <=> deleg[e].reason
                   /\ deleg'[e].body \in {"returned", "raised", "exited"}
                   /\ IF deleg[e].req.timed THEN deleg'[e].pc = deleg[e].pc
                      ELSE deleg'[e].pc = "lost" /\ deleg'[e].body = "exited"
  BY <1>2
<1> QED
  BY <1>1, <1>3, <1>4, <1>5, <1>6, <1>7, <1>8, StackEnds

\* The thread that waits settles on a result.
LEMMA ResultFits ==
    ASSUME TypeOK, Inv, NEW t \in Thread, At(t, "join"),
           NEW status, NEW reason \in BOOLEAN, Results(t, status, reason),
           \/ status = "TIMEOUT" /\ reason
           \/ /\ worker[Top(t)] = "dead" /\ status \in {"SUCCESS", "FAILED"}
              /\ status = "SUCCESS" <=> deleg[Top(t)].body = "returned"
              /\ reason <=> deleg[Top(t)].body = "raised"
    PROVE  Inv'
<1> DEFINE d == Top(t)
           x == [deleg[d] EXCEPT !.pc = "finish", !.status = status, !.reason = reason]
<1>1. /\ stack[t] # <<>> /\ deleg[d].by = t /\ deleg[d].pc = "join"
      /\ deleg' = [deleg EXCEPT ![d] = x]
      /\ UNCHANGED <<begun, stack, worker, scope, steps>>
  BY DEF At, Results
<1>2. d \in Id /\ deleg[d] \in Delegation /\ RecOK(deleg[d])
      /\ (worker[d] = "dead" => deleg[d].body \in {"returned", "raised", "exited"})
  BY <1>1, TopFacts DEF TypeOK, DelegationsOK, Inv, Recs, Workers
<1>3. /\ x.pc = "finish" /\ x.status = status /\ x.reason = reason
      /\ x.req = deleg[d].req /\ x.by = deleg[d].by /\ x.parent = deleg[d].parent
      /\ x.scoped = deleg[d].scoped /\ x.body = deleg[d].body
  BY <1>2 DEF Delegation
<1> HIDE DEF x
<1>4. RecOK(x)
  BY <1>1, <1>2, <1>3 DEF RecOK
<1>5. d = Top(t) /\ deleg[d].pc \in Live
  BY <1>1 DEF Live
<1> HIDE DEF d
<1> QED
  BY <1>1, <1>2, <1>3, <1>4, <1>5, SettleFits
\* A delegation returns to its caller and is recorded.
LEMMA FinishFits ==
    ASSUME TypeOK, Inv, NEW t \in Thread, Finish(t)
    PROVE  Inv'
<1> DEFINE x == [deleg[Top(t)] EXCEPT !.pc = "done"]
<1>0. PICK d, m : d = Top(t) /\ m = Len(stack[t])
  OBVIOUS
<1>1. /\ stack[t] # <<>> /\ deleg[d].by = t /\ deleg[d].pc = "finish"
      /\ deleg' = [deleg EXCEPT ![d] = x] /\ stack' = [stack EXCEPT ![t] = Pop(t)]
      /\ UNCHANGED <<begun, worker, scope>>
      /\ steps' = [c \in Caller |-> IF c = t /\ scope[c] THEN Append(steps[c], d) ELSE steps[c]]
  BY <1>0 DEF Finish, Returns, At
<1>2. /\ d \in Id /\ d <= begun /\ m \in DOMAIN stack[t] /\ stack[t][m] = d /\ stack[t] \in Seq(Id)
      /\ \A k \in DOMAIN stack[t] : k # m => k < m /\ stack[t][k] # d
  BY <1>0, <1>1, TopFacts
<1>3. deleg[d] \in Delegation /\ RecOK(deleg[d]) /\ Family(d)
  BY <1>2 DEF TypeOK, DelegationsOK, Inv, Recs, Families
<1>4. /\ x.pc = "done" /\ x.body = deleg[d].body /\ x.status = deleg[d].status
      /\ x.reason = deleg[d].reason /\ x.scoped = deleg[d].scoped
      /\ x.req = deleg[d].req /\ x.by = deleg[d].by /\ x.parent = deleg[d].parent
  BY <1>0, <1>3 DEF Delegation
<1> HIDE DEF x
<1>5. deleg'[d] = x /\ \A e \in Id \ {d} : deleg'[e] = deleg[e]
  BY <1>1, <1>2 DEF TypeOK, DelegationsOK
<1>6. \A e \in Id : /\ deleg'[e].by = deleg[e].by /\ deleg'[e].req = deleg[e].req
                    /\ deleg'[e].parent = deleg[e].parent
                    /\ (deleg'[e].scoped <=> deleg[e].scoped)
                    /\ deleg'[e].body = deleg[e].body
  BY <1>4, <1>5
<1>7. Recs'
  <2>1. RecOK(x)
    BY <1>1, <1>3, <1>4 DEF RecOK
  <2>2. ASSUME NEW e \in Id  PROVE RecOK(deleg[e])'
    BY <1>5, <2>1 DEF Inv, Recs, RecOK
  <2> QED
    BY <2>2 DEF Recs
<1>8. Families'
  <2>1. ASSUME NEW e \in Id, e <= begun  PROVE Family(e)'
    <3>1. Family(e) /\ deleg'[e].by = deleg[e].by /\ deleg'[e].parent = deleg[e].parent
      BY <1>6, <2>1 DEF Inv, Families
    <3>2. deleg[e].parent \in Id =>
             /\ deleg'[deleg[e].parent].by = deleg[deleg[e].parent].by
             /\ deleg'[deleg[e].parent].req = deleg[deleg[e].parent].req
      BY <1>6
    <3> QED
      BY <3>1, <3>2 DEF Family, Host
  <2> QED
    BY <1>1, <2>1 DEF Families
<1>9. /\ stack'[t] = Pop(t) /\ \A u \in Thread : u # t => stack'[u] = stack[u]
      /\ m \in Nat /\ m > 0 /\ Len(Pop(t)) = m - 1 /\ DOMAIN Pop(t) = 1..(m - 1)
      /\ \A k \in 1..(m - 1) : Pop(t)[k] = stack[t][k] /\ k \in DOMAIN stack[t] /\ k < m
  <2>1. stack'[t] = Pop(t) /\ \A u \in Thread : u # t => stack'[u] = stack[u]
    BY <1>1 DEF TypeOK, StacksOK
  <2>2. m \in Nat /\ m > 0 /\ DOMAIN stack[t] = 1..m
    BY <1>0, <1>2
  <2>3. Pop(t) = [k \in 1..(m - 1) |-> stack[t][k]]
    BY <1>0, <1>2, <2>2 DEF Pop
  <2> QED
    BY <2>1, <2>2, <2>3
<1>10. Stacks'
  <2> SUFFICES ASSUME NEW u \in Thread  PROVE StackOK(u)'
    BY DEF Stacks
  <2>0. StackOK(u) /\ \A k \in DOMAIN stack[u] : stack[u][k] \in Id
    BY StackFacts DEF Inv, Stacks
  <2>1. CASE u # t
    <3>1. ASSUME NEW k \in DOMAIN stack[u], deleg[stack[u][k]].by = u
          PROVE  deleg'[stack[u][k]].pc \in Live
      <4>1. stack[u][k] # d
        BY <1>1, <2>1, <3>1
      <4> QED
        BY <1>5, <2>0, <3>1, <4>1 DEF StackOK
    <3> QED
      BY <1>1, <1>6, <1>9, <2>0, <2>1, <3>1, StackFrame
  <2>2. CASE u = t
    <3>1. PICK q : q = Pop(t)
      OBVIOUS
    <3>2. /\ stack'[t] = q /\ Len(q) = m - 1 /\ DOMAIN q = 1..(m - 1)
          /\ \A k \in 1..(m - 1) :
                /\ q[k] = stack[t][k] /\ k \in DOMAIN stack[t] /\ k < m
                /\ q[k] \in Id /\ deleg'[q[k]] = deleg[q[k]]
      BY <1>2, <1>5, <1>9, <3>1
    <3>3. \A j, k \in 1..(m - 1) : j < k => q[j] < q[k]
      BY <2>0, <2>2, <3>2 DEF StackOK
    <3>4. \A k \in 1..(m - 1) : Runs(t, q[k])'
      <4> SUFFICES ASSUME NEW k \in 1..(m - 1)  PROVE Runs(t, q[k])'
        OBVIOUS
      <4>1. Runs(t, stack[t][k])
        BY <1>0, <2>0, <2>2, <3>2 DEF StackOK
      <4> QED
        BY <3>2, <4>1 DEF Runs, Host
    <3>5. ASSUME NEW k \in 1..(m - 1)
          PROVE  /\ k > 1 => deleg'[q[k]].by = t /\ deleg'[q[k]].parent = q[k - 1]
                 /\ deleg'[q[k]].by = t => deleg'[q[k]].pc \in Live
                 /\ t \in Caller => (deleg'[q[k]].scoped <=> scope'[t])
      <4>1. k > 1 => q[k - 1] = stack[t][k - 1]
        BY <1>9, <3>2
      <4> QED
        BY <1>1, <2>0, <2>2, <3>2, <4>1 DEF StackOK
    <3>6. q # <<>> => \/ t \in Caller /\ deleg'[q[1]].by = t /\ deleg'[q[1]].parent = None
                      \/ q[1] = t /\ deleg'[q[1]].req.timed
      <4> SUFFICES ASSUME q # <<>>
                   PROVE  \/ t \in Caller /\ deleg'[q[1]].by = t /\ deleg'[q[1]].parent = None
                          \/ q[1] = t /\ deleg'[q[1]].req.timed
        OBVIOUS
      <4>1. 1 \in 1..(m - 1)
        <5>1. q \in Seq(Id)
          BY <1>0, <1>2, <1>9, <3>1 DEF Pop
        <5> QED
          BY <1>9, <3>2, <5>1
      <4>2. q[1] = stack[t][1] /\ deleg'[q[1]] = deleg[stack[t][1]]
        BY <3>2, <4>1
      <4> QED
        BY <1>1, <2>0, <2>2, <4>2 DEF StackOK
    <3> QED
      BY <2>2, <3>2, <3>3, <3>4, <3>5, <3>6 DEF StackOK
  <2> QED
    BY <2>1, <2>2
<1>11. Lives'
  <2> SUFFICES ASSUME NEW e \in Id, deleg'[e].pc \in Live
               PROVE  \E k \in DOMAIN stack'[deleg'[e].by] : stack'[deleg'[e].by][k] = e
    BY DEF Lives, OnStack
  <2>1. e # d
    BY <1>4, <1>5 DEF Live
  <2>2. deleg'[e] = deleg[e]
    BY <1>5, <2>1
  <2>3. PICK k \in DOMAIN stack[deleg[e].by] : stack[deleg[e].by][k] = e
    BY <2>2 DEF Inv, Lives, OnStack
  <2>4. CASE deleg[e].by = t
    <3>1. k \in 1..(m - 1)
      <4>1. k # m /\ k \in DOMAIN stack[t]
        BY <1>2, <2>1, <2>3, <2>4
      <4> QED
        BY <1>0, <1>2, <1>9, <4>1
    <3> QED
      BY <1>9, <2>2, <2>3, <2>4, <3>1
  <2>5. CASE deleg[e].by # t
    <3>1. deleg[e].by \in Thread
      <4>1. deleg[e] # NoDelegation /\ begun \in Nat /\ e \in Nat
        BY <2>2, NoDelegationFields, Constants DEF Live, TypeOK, DelegationsOK
      <4>2. e <= begun
        BY <4>1 DEF TypeOK, DelegationsOK
      <4> QED
        BY <4>2 DEF Inv, Families, Family
    <3> QED
      BY <1>9, <2>2, <2>3, <2>5, <3>1
  <2> QED
    BY <2>4, <2>5
<1>12. Workers'
  BY <1>1, <1>6 DEF Inv, Workers
<1>13. Records'
  <2> SUFFICES ASSUME NEW c \in Caller  PROVE RecordOK(c)'
    BY DEF Records
  <2>0. RecordOK(c) /\ steps[c] \in Seq(Id) /\ (c = t => (deleg[d].scoped <=> scope[c]))
    BY <1>2 DEF TypeOK, ScopesOK, Inv, Records, Stacks, StackOK
  <2>1. CASE c # t \/ ~scope[c]
    <3>1. steps'[c] = steps[c]
      BY <1>1, <2>1
    <3>2. ~Recorded(c, d) /\ ~Recorded(c, d)'
      <4>1. deleg'[d].by = t /\ (deleg'[d].scoped <=> deleg[d].scoped)
        BY <1>1, <1>2, <1>6
      <4> QED
        BY <1>1, <2>0, <2>1, <4>1 DEF Recorded
    <3>3. ASSUME NEW e \in Id
          PROVE  /\ Recorded(c, e)' <=> Recorded(c, e)
                 /\ Recorded(c, e) => deleg'[e].parent = deleg[e].parent
      <4>1. CASE e = d
        BY <1>6, <3>2, <4>1
      <4>2. CASE e # d
        BY <1>5, <4>2 DEF Recorded
      <4> QED
        BY <4>1, <4>2
    <3> QED
      BY <2>0, <3>1, <3>3, RecordFrame
  <2>2. CASE c = t /\ scope[c]
    <3>1. PICK q, n : q = Append(steps[c], d) /\ n = Len(steps[c])
      OBVIOUS
    <3>2. /\ steps'[c] = q /\ n \in Nat /\ DOMAIN q = 1..(n + 1) /\ DOMAIN steps[c] = 1..n
          /\ q[n + 1] = d /\ \A k \in 1..n : q[k] = steps[c][k] /\ q[k] \in Id
      BY <1>1, <1>2, <2>0, <2>2, <3>1
    <3>3. \A k \in 1..n : Recorded(c, q[k]) /\ q[k] # d /\ deleg'[q[k]] = deleg[q[k]]
      <4> SUFFICES ASSUME NEW k \in 1..n
                   PROVE  Recorded(c, q[k]) /\ q[k] # d /\ deleg'[q[k]] = deleg[q[k]]
        OBVIOUS
      <4>1. Recorded(c, q[k])
        BY <2>0, <3>2 DEF RecordOK
      <4>2. q[k] # d
        BY <1>1, <4>1 DEF Recorded
      <4> QED
        BY <1>5, <3>2, <4>1, <4>2
    <3>4. \A k \in 1..(n + 1) : Recorded(c, q[k])'
      <4> SUFFICES ASSUME NEW k \in 1..(n + 1)  PROVE Recorded(c, q[k])'
        OBVIOUS
      <4>1. CASE k \in 1..n
        BY <3>3, <4>1 DEF Recorded
      <4>2. CASE k = n + 1
        BY <1>1, <1>4, <1>5, <2>0, <2>2, <3>2, <4>2 DEF Recorded
      <4> QED
        BY <3>2, <4>1, <4>2
    <3>5. ASSUME NEW e \in Id, Recorded(c, e)'
          PROVE  \E i \in 1..(n + 1) : q[i] = e
      <4>1. CASE e = d
        <5>1. n + 1 \in 1..(n + 1)
          BY <3>2
        <5> QED
          BY <3>2, <4>1, <5>1
      <4>2. CASE e # d
        <5>1. Recorded(c, e)
          BY <1>5, <3>5, <4>2 DEF Recorded
        <5>2. PICK i \in DOMAIN steps[c] : steps[c][i] = e
          BY <2>0, <5>1 DEF RecordOK
        <5> QED
          BY <3>2, <5>2
      <4> QED
        BY <4>1, <4>2
    <3>6. \A i, j \in 1..(n + 1) : q[i] = q[j] => i = j
      <4> SUFFICES ASSUME NEW i \in 1..(n + 1), NEW j \in 1..(n + 1), q[i] = q[j]
                   PROVE  i = j
        OBVIOUS
      <4>1. CASE i \in 1..n /\ j \in 1..n
        BY <2>0, <3>2, <4>1 DEF RecordOK
      <4>2. CASE i = n + 1 /\ j = n + 1
        BY <4>2
      <4>3. CASE i = n + 1 /\ j \in 1..n
        BY <3>2, <3>3, <4>3
      <4>4. CASE j = n + 1 /\ i \in 1..n
        BY <3>2, <3>3, <4>4
      <4> QED
        BY <3>2, <4>1, <4>2, <4>3, <4>4
    <3>7. \A j \in 1..n : deleg[d].parent # q[j]
      <4> SUFFICES ASSUME NEW j \in 1..n, deleg[d].parent = q[j]
                   PROVE  FALSE
        OBVIOUS
      <4>1. deleg[d].parent # None /\ q[j] \in Id
        BY <3>2, Constants DEF None
      <4>2. t = Host(q[j]) /\ c \notin Id
        BY <1>1, <1>3, <4>1, Constants DEF Family
      <4>3. deleg[q[j]].pc = "done" /\ ~deleg[q[j]].req.timed
        BY <2>2, <3>3, <4>1, <4>2 DEF Recorded, Host
      <4>4. deleg[q[j]].body = "running"
        <5>1. PICK k \in DOMAIN stack[t] : stack[t][k] = d /\ k = m
          BY <1>2
        <5>2. k > 1
          <6>1. k # 1
            <7>1. ~(stack[t][1] = t)
              BY <2>2, <4>2, <1>2, <5>1, Constants
            <7> QED
              BY <1>1, <4>1, <5>1, <7>1 DEF Inv, Stacks, StackOK
          <6> QED
            BY <1>9, <5>1, <6>1
        <5>3. deleg[d].parent = stack[t][k - 1] /\ k - 1 \in DOMAIN stack[t] /\ k - 1 < Len(stack[t])
          BY <1>0, <1>2, <5>1, <5>2 DEF Inv, Stacks, StackOK
        <5>4. Runs(t, stack[t][k - 1])
          BY <5>3 DEF Inv, Stacks, StackOK
        <5> QED
          BY <5>3, <5>4 DEF Runs
      <4>5. RecOK(deleg[q[j]])
        BY <4>1 DEF Inv, Recs
      <4> QED
        BY <4>3, <4>4, <4>5 DEF RecOK
    <3>8. \A i, j \in 1..(n + 1) : deleg'[q[i]].parent = q[j] => i < j
      <4> SUFFICES ASSUME NEW i \in 1..(n + 1), NEW j \in 1..(n + 1), deleg'[q[i]].parent = q[j]
                   PROVE  i < j
        OBVIOUS
      <4>1. CASE i \in 1..n /\ j \in 1..n
        <5>1. deleg[steps[c][i]].parent = steps[c][j] /\ i \in DOMAIN steps[c] /\ j \in DOMAIN steps[c]
          <6>1. q[i] = steps[c][i] /\ q[j] = steps[c][j]
            BY <3>2, <4>1
          <6>2. deleg'[q[i]] = deleg[q[i]]
            BY <3>3, <4>1
          <6> QED
            BY <3>2, <4>1, <6>1, <6>2
        <5> QED
          BY <2>0, <5>1 DEF RecordOK
      <4>2. CASE i \in 1..n /\ j = n + 1
        BY <3>2, <4>2
      <4>3. CASE i = n + 1 /\ j \in 1..n
        BY <1>4, <1>5, <3>2, <3>7, <4>3
      <4>4. CASE i = n + 1 /\ j = n + 1
        BY <1>2, <1>3, <1>4, <1>5, <3>2, <4>4, Constants DEF Family
      <4> QED
        BY <3>2, <4>1, <4>2, <4>3, <4>4
    <3> QED
      BY <3>2, <3>4, <3>5, <3>6, <3>8 DEF RecordOK
  <2> QED
    BY <2>1, <2>2
<1> QED
  BY <1>7, <1>8, <1>10, <1>11, <1>12, <1>13 DEF Inv
\* Every step keeps all that.
LEMMA StepFits ==
    ASSUME TypeOK, Inv, [Next]_vars
    PROVE  Inv'
<1>1. CASE UNCHANGED vars
  BY <1>1, QuietSteps DEF vars
<1>2. ASSUME NEW a \in Agent, Register(a) \/ Unregister(a)
      PROVE  Inv'
  BY <1>2, QuietSteps DEF Register, Unregister
<1>3. ASSUME NEW c \in Caller, Enter(c) \/ Leave(c)
      PROVE  Inv'
  <2>1. \A e \in Caller : (scope'[e] <=> scope[e]) \/ stack[e] = <<>>
    BY <1>3 DEF Enter, Leave, TypeOK, ScopesOK
  <2> QED
    BY <1>3, <2>1, QuietSteps DEF Enter, Leave
<1>4. ASSUME NEW d \in Id, WorkerDies(d)
      PROVE  Inv'
  <2>1. \A e \in Id : worker'[e] \in {"ended", "dead"} => worker[e] \in {"ended", "dead"}
    BY <1>4 DEF WorkerDies, TypeOK, DelegationsOK
  <2> QED
    BY <1>4, <2>1, QuietSteps DEF WorkerDies
<1>5. ASSUME NEW t \in Thread, AgentStep(t) \/ DelegateStep(t)
      PROVE  Inv'
  <2>1. CASE InBody(t) /\ \E r \in Request : Delegate(t, r)
    BY <2>1, DelegateFits
  <2>2. CASE BodyEnds(t, "returned", "SUCCESS") \/ BodyEnds(t, "raised", "FAILED")
    <3>1. ASSUME BodyEnds(t, "returned", "SUCCESS")  PROVE Inv'
      BY <3>1, BodyFits
    <3>2. ASSUME BodyEnds(t, "raised", "FAILED")  PROVE Inv'
      BY <3>2, BodyFits
    <3> QED
      BY <2>2, <3>1, <3>2
  <2>3. CASE Joined(t)
    <3>1. At(t, "join") /\ worker[Top(t)] = "dead"
      BY <2>3 DEF Joined
    <3> QED
      BY <2>3, <3>1, JoinResult, ResultFits
  <2>4. CASE TimesOut(t)
    <3>1. At(t, "join") /\ Results(t, "TIMEOUT", TRUE)
      BY <2>4 DEF TimesOut
    <3> QED
      BY <3>1, ResultFits
  <2> QED
    BY <1>5, <2>1, <2>2, <2>3, <2>4, ThreadSteps, ExitFits, FinishFits
<1>6. ASSUME NEW c \in Caller, HostDelegates(c)
      PROVE  Inv'
  BY <1>6, DelegateFits, Constants DEF HostDelegates
<1> QED
  BY <1>1, <1>2, <1>3, <1>4, <1>5, <1>6 DEF Next, Delegations

\* At the start nothing has been delegated.
LEMMA InvAtStart ==
    ASSUME Init
    PROVE  Inv
<1>1. \A d \in Id : deleg[d] = NoDelegation /\ ~(d <= begun) /\ worker[d] = "none"
  BY Constants DEF Init, Id
<1>2. Recs /\ Families /\ Lives /\ Workers
  BY <1>1, NoDelegationFields DEF Recs, RecOK, Families, Lives, Live, Workers
<1>3. Stacks
  <2>1. \A t \in Thread : stack[t] = <<>>
    BY DEF Init
  <2> QED
    BY <2>1 DEF Stacks, StackOK
<1>4. Records
  <2>1. \A c \in Caller : steps[c] = <<>>
    BY DEF Init
  <2>2. \A c \in Caller, d \in Id : ~Recorded(c, d)
    BY <1>1, NoDelegationFields DEF Recorded
  <2> QED
    BY <2>1, <2>2 DEF Records, RecordOK
<1> QED
  BY <1>2, <1>3, <1>4 DEF Inv

\* It holds at the start, and so always.
LEMMA InvHolds == Spec => [](TypeOK /\ Inv)
<1>1. Init => Inv
  BY InvAtStart
<1>2. TypeOK /\ Inv /\ [Next]_vars => Inv'
  BY StepFits
<1> QED
  BY <1>1, <1>2, TypeCorrect, PTL DEF Spec

------------------------------------------------------------------------------
(* What follows                                                            *)

\* A result says what became of the agent, whenever the timeout comes.
THEOREM ResultsCorrect == Spec => []ResultIsTrue
<1>1. TypeOK /\ Inv => ResultIsTrue
  BY DEF Inv, Recs, RecOK, ResultIsTrue
<1> QED
  BY <1>1, InvHolds, PTL

\* A delegation with a result other than TIMEOUT has nothing running under it:
\* what is not over is on a stack, above an agent that runs.
THEOREM BelowCorrect == Spec => []NothingRunsBelow
<1>1. TypeOK /\ Inv => NothingRunsBelow
  <2> SUFFICES ASSUME TypeOK, Inv, NEW d \in Id, NEW e \in Id,
                      deleg[d].status \notin {"none", "TIMEOUT"}, deleg[e].parent = d, ~Over(e)
               PROVE  FALSE
    BY DEF NothingRunsBelow
  <2>1. e <= begun
    <3>1. deleg[e] # NoDelegation /\ begun \in Nat /\ e \in Nat
      BY NoDelegationFields, Constants DEF None, TypeOK, DelegationsOK
    <3> QED
      BY <3>1 DEF TypeOK, DelegationsOK
  <2>2. deleg[e].pc \in Live
    BY <2>1 DEF TypeOK, DelegationsOK, Delegation, Over, Live
  <2> DEFINE t == deleg[e].by
  <2>3. t \in Thread /\ t # e /\ d # None
    BY <2>1, Constants DEF Inv, Families, Family, None
  <2>4. PICK k \in DOMAIN stack[t] : stack[t][k] = e
    BY <2>2 DEF Inv, Lives, OnStack
  <2>5. StackOK(t) /\ stack[t] \in Seq(Id)
    BY <2>3, StackFacts DEF Inv, Stacks
  <2> HIDE DEF t
  <2>6. k > 1
    <3>1. CASE k = 1
      BY <2>3, <2>4, <2>5, <3>1 DEF StackOK
    <3>2. CASE k # 1
      BY <2>5, <3>2
    <3> QED
      BY <3>1, <3>2
  <2>7. d = stack[t][k - 1] /\ k - 1 \in DOMAIN stack[t] /\ k - 1 < Len(stack[t])
    BY <2>4, <2>5, <2>6 DEF StackOK
  <2>8. Runs(t, d)
    BY <2>5, <2>7 DEF StackOK
  <2>9. RecOK(deleg[d])
    BY DEF Inv, Recs
  <2> QED
    BY <2>8, <2>9 DEF Runs, RecOK
<1> QED
  BY <1>1, InvHolds, PTL

\* What a host thread delegates inside of its scope is on its trajectory once,
\* after what was delegated for it, and nothing is that was begun outside.
THEOREM HandoffsCorrect == Spec => []HandoffsAreComplete
<1>1. TypeOK /\ Inv => HandoffsAreComplete
  <2> SUFFICES ASSUME TypeOK, Inv, NEW c \in Caller, NEW d \in Id
               PROVE  /\ Recorded(c, d) => Index(c, d) # {}
                      /\ \A i, j \in Index(c, d) : i = j
                      /\ Index(c, d) # {} => Recorded(c, d)
                      /\ \A e \in Id : deleg[d].parent = e =>
                            \A i \in Index(c, d), j \in Index(c, e) : i < j
    BY DEF HandoffsAreComplete, Recorded
  <2>1. RecordOK(c)
    BY DEF Inv, Records
  <2> QED
    BY <2>1 DEF RecordOK, Index
<1> QED
  BY <1>1, InvHolds, PTL

------------------------------------------------------------------------------
(* Pipelines                                                               *)

\* A call of Pipeline.run when n delegations have begun.
RunRecord(n) ==
    [pc : {"idle", "step", "call", "called", "completed", "failed", "raised"},
     plan : Plan \cup {<<>>}, named : Seq(Agent),
     input : 0..n, ds : Seq(1..n), final : 0..n]

\* The output that the next step gets.
Handed(r) == IF r.ds = <<>> THEN Initial ELSE r.ds[Len(r.ds)]

\* Where a run is in its plan.
Placed(c) ==
    LET r == run[c] IN
    /\ Len(r.ds) <= Len(r.plan)
    /\ r.pc \in {"step", "call"} => stack[c] = <<>> /\ Len(r.ds) < Len(r.plan)
    /\ r.pc = "call" =>
          r.named = <<>> \/ r.named = <<Current(c).agent>>
    /\ r.pc = "called" => r.ds # <<>>
    /\ r.pc = "completed" => Len(r.ds) = Len(r.plan) /\ r.final = Handed(r)
    /\ r.pc \in {"step", "call"} => r.input = Handed(r)

\* What its delegations got and gave.
Chained(c) ==
    LET r == run[c] IN
    \A k \in DOMAIN r.ds :
       /\ fed[r.ds[k]] = IF k = 1 THEN Initial ELSE r.ds[k - 1]
       /\ k < Len(r.ds) \/ r.pc \in {"step", "call", "completed"} =>
             deleg[r.ds[k]].status = "SUCCESS"

\* Who ran them.
Named(c) ==
    \A k \in DOMAIN run[c].ds :
        LET s == run[c].plan[k] IN
        s.agent # NoAgent /\ ~s.capability =>
            deleg[run[c].ds[k]].to \in {s.agent, NoAgent}

RunOK(c) == Placed(c) /\ Chained(c) /\ Named(c)

PipeInv == \A c \in Caller : RunOK(c)

\* Plans are sequences of steps.
LEMMA Plans == \A p \in Plan \cup {<<>>} : p \in Seq(StepSpec)
<1> DEFINE none == <<>>
<1>1. none \in Seq(StepSpec)
  OBVIOUS
<1>2. \A p \in Plan : p \in Seq(StepSpec)
  BY PipelineAssumption DEF PipelineAssumption
<1> HIDE DEF none
<1>3. \A p \in Plan \cup {none} : p \in Seq(StepSpec)
  BY <1>1, <1>2
<1> QED
  BY <1>3 DEF none

------------------------------------------------------------------------------
(* What a step of the conductor leaves as it is                            *)

\* A delegation keeps its agent and its result.
LEMMA Lasts ==
    ASSUME TypeOK, Inv, [Next]_vars, NEW d \in Id, d <= begun
    PROVE  /\ deleg'[d].to = deleg[d].to
           /\ deleg[d].status # "none" => deleg'[d].status = deleg[d].status
<1>0. /\ deleg \in [Id -> Delegation] /\ deleg[d] \in Delegation /\ RecOK(deleg[d])
      /\ d \in Nat /\ begun \in Nat
  BY Constants DEF TypeOK, DelegationsOK, Inv, Recs
<1>1. CASE UNCHANGED deleg
  BY <1>1
<1>2. ASSUME NEW t \in Thread, NEW r \in Request, Delegate(t, r)
      PROVE  deleg'[d] = deleg[d]
  <2> DEFINE x == Begins(t, r)
  <2>1. deleg' = [deleg EXCEPT ![begun'] = x] /\ begun' = begun + 1
    BY <1>2 DEF Delegate
  <2> HIDE DEF x
  <2>2. d # begun'
    BY <1>0, <2>1
  <2> QED
    BY <1>0, <2>1, <2>2
<1>3. ASSUME NEW t \in Thread, NEW body, NEW status, BodyEnds(t, body, status)
      PROVE  /\ deleg'[d].to = deleg[d].to
             /\ deleg[d].status # "none" => deleg'[d].status = deleg[d].status
  <2>1. CASE deleg[Top(t)].req.timed
    <3>1. deleg' = [deleg EXCEPT ![Top(t)].body = body]
      BY <1>3, <2>1 DEF BodyEnds
    <3> QED
      BY <1>0, <3>1 DEF Delegation
  <2>2. CASE ~deleg[Top(t)].req.timed
    <3>1. /\ deleg' = [deleg EXCEPT ![Top(t)] =
                  [@ EXCEPT !.body = body, !.pc = "finish", !.status = status,
                            !.reason = (status # "SUCCESS")]]
          /\ deleg[Top(t)].body = "running"
      BY <1>3, <2>2 DEF BodyEnds, InBody
    <3>2. CASE d = Top(t)
      <4>1. deleg[d].status = "none"
        BY <1>0, <2>2, <3>1, <3>2 DEF RecOK
      <4>2. deleg'[d].to = deleg[d].to
        BY <1>0, <3>1, <3>2 DEF Delegation
      <4> QED
        BY <4>1, <4>2
    <3>3. CASE d # Top(t)
      BY <1>0, <3>1, <3>3
    <3> QED
      BY <3>2, <3>3
  <2> QED
    BY <2>1, <2>2
<1>4. ASSUME NEW t \in Thread, AgentExits(t)
      PROVE  /\ deleg'[d].to = deleg[d].to
             /\ deleg'[d].status = deleg[d].status
  <2>1. \/ deleg'[d] = deleg[d]
        \/ deleg'[d] = [deleg[d] EXCEPT !.body = "exited",
                           !.pc = IF deleg[d].pc = "agent" THEN "lost" ELSE deleg[d].pc]
    BY <1>4 DEF AgentExits
  <2> QED
    BY <1>0, <2>1 DEF Delegation
<1>5. ASSUME NEW t \in Thread, NEW status, NEW reason, At(t, "join"), Results(t, status, reason)
      PROVE  /\ deleg'[d].to = deleg[d].to
             /\ deleg[d].status # "none" => deleg'[d].status = deleg[d].status
  <2>1. /\ deleg' = [deleg EXCEPT ![Top(t)] =
              [@ EXCEPT !.pc = "finish", !.status = status, !.reason = reason]]
        /\ deleg[Top(t)].pc = "join"
    BY <1>5 DEF Results, At
  <2>2. CASE d = Top(t)
    <3>1. deleg[d].status = "none"
      BY <1>0, <2>1, <2>2 DEF RecOK
    <3>2. deleg'[d].to = deleg[d].to
      BY <1>0, <2>1, <2>2 DEF Delegation
    <3> QED
      BY <3>1, <3>2
  <2>3. CASE d # Top(t)
    BY <1>0, <2>1, <2>3
  <2> QED
    BY <2>2, <2>3
<1>6. ASSUME NEW t \in Thread, Finish(t)
      PROVE  /\ deleg'[d].to = deleg[d].to
             /\ deleg'[d].status = deleg[d].status
  <2>1. deleg' = [deleg EXCEPT ![Top(t)].pc = "done"]
    BY <1>6 DEF Finish, Returns
  <2> QED
    BY <1>0, <2>1 DEF Delegation
<1>7. ASSUME NEW t \in Thread, AgentStep(t) \/ DelegateStep(t)
      PROVE  /\ deleg'[d].to = deleg[d].to
             /\ deleg[d].status # "none" => deleg'[d].status = deleg[d].status
  <2>1. CASE Joined(t) \/ TimesOut(t)
    <3>1. At(t, "join") /\ \E status, reason : Results(t, status, reason)
      BY <2>1 DEF Joined, TimesOut
    <3> QED
      BY <1>5, <3>1
  <2> QED
    BY <1>2, <1>3, <1>4, <1>6, <1>7, <2>1, ThreadSteps
<1>8. ASSUME NEW c \in Caller, HostDelegates(c)
      PROVE  deleg'[d] = deleg[d]
  BY <1>2, <1>8, Constants DEF HostDelegates
<1> QED
  BY <1>1, <1>7, <1>8 DEF Next, Delegations, Register, Unregister, Enter, Leave,
                         WorkerDies, vars

\* Delegations are only added.
LEMMA Grows ==
    ASSUME TypeOK, [Next]_vars
    PROVE  begun' \in {begun, begun + 1} /\ begun \in Nat
<1>0. begun \in Nat
  BY Constants DEF TypeOK, DelegationsOK
<1>1. ASSUME NEW t \in Thread, AgentStep(t) \/ DelegateStep(t)
      PROVE  begun' \in {begun, begun + 1}
  BY <1>1, ThreadSteps
     DEF Delegate, BodyEnds, AgentExits, Joined, TimesOut, Results, Finish, Returns
<1> QED
  BY <1>0, <1>1 DEF Next, Delegations, HostDelegates, Delegate, Register, Unregister, Enter,
                    Leave, WorkerDies, vars

\* A host thread that is in no delegation gets into one only by making it.
LEMMA StaysOut ==
    ASSUME TypeOK, NEW c \in Caller, stack[c] = <<>>,
           \/ Delegations
           \/ \E e \in Caller \ {c}, r \in Request : Delegate(e, r)
           \/ UNCHANGED vars
    PROVE  stack'[c] = <<>>
<1>0. stack \in [Thread -> Seq(Id)] /\ c \in Thread /\ c \notin Id
  BY Constants DEF TypeOK, StacksOK
<1>1. CASE UNCHANGED stack
  BY <1>1
<1>2. ASSUME NEW t \in Thread, t # c, NEW r \in Request, Delegate(t, r)
      PROVE  stack'[c] = <<>>
  <2>1. begun' \in Id
    BY <1>2, Constants DEF Delegate, Id, TypeOK, DelegationsOK
  <2> DEFINE own == IF r.timed /\ ~Refused(r) THEN <<begun'>> ELSE stack[begun']
  <2>2. stack' = [stack EXCEPT ![begun'] = own, ![t] = Push(t, begun')]
    BY <1>2 DEF Delegate
  <2> HIDE DEF own
  <2> QED
    BY <1>0, <1>2, <2>1, <2>2
<1>3. ASSUME NEW t \in Thread, AgentStep(t) \/ DelegateStep(t)
      PROVE  stack'[c] = <<>>
  <2>1. stack[t] # <<>>
    BY <1>3, ThreadSteps DEF InBody, BodyEnds, AgentExits, Joined, TimesOut, Finish, Returns, At
  <2>2. CASE InBody(t) /\ \E r \in Request : Delegate(t, r)
    BY <1>2, <2>1, <2>2
  <2>3. CASE ~(InBody(t) /\ \E r \in Request : Delegate(t, r))
    <3>1. UNCHANGED stack \/ \E s : stack' = [stack EXCEPT ![t] = s]
      BY <1>3, <2>3, ThreadSteps
         DEF BodyEnds, AgentExits, Joined, TimesOut, Results, Finish, Returns
    <3> QED
      BY <1>0, <2>1, <3>1
  <2> QED
    BY <2>2, <2>3
<1> QED
  BY <1>1, <1>2, <1>3, Constants
     DEF Delegations, Register, Unregister, Enter, Leave, WorkerDies, vars

------------------------------------------------------------------------------
(* The calls of run                                                        *)

\* More delegations, the same record.
LEMMA RecordGrows ==
    ASSUME NEW n \in Nat, NEW m \in Nat, n <= m, NEW r \in RunRecord(n)
    PROVE  r \in RunRecord(m)
<1>1. r.ds \in Seq(1..m)
  <2>1. r.ds \in Seq(1..n)
    BY DEF RunRecord
  <2>2. \A i \in 1..Len(r.ds) : r.ds[i] \in 1..m
    BY <2>1
  <2> QED
    BY <2>1, <2>2
<1>2. r.input \in 0..m /\ r.final \in 0..m
  BY DEF RunRecord
<1>3. r = [pc |-> r.pc, plan |-> r.plan, named |-> r.named, input |-> r.input,
           ds |-> r.ds, final |-> r.final]
  BY DEF RunRecord
<1>4. /\ r.pc \in {"idle", "step", "call", "called", "completed", "failed", "raised"}
      /\ r.plan \in Plan \cup {<<>>} /\ r.named \in Seq(Agent)
  BY DEF RunRecord
<1> QED
  BY <1>1, <1>2, <1>3, <1>4 DEF RunRecord

\* What is left of a run.
LEMMA NoRunFields ==
    ASSUME NEW n \in Nat
    PROVE  NoRun \in RunRecord(n) /\ NoRun.pc = "idle" /\ NoRun.ds = <<>> /\ NoRun.plan = <<>>
<1> DEFINE none == <<>>
<1>1. none \in Seq(Agent) /\ none \in Seq(1..n) /\ none \in Plan \cup {<<>>}
  OBVIOUS
<1>2. NoRun = [pc |-> "idle", plan |-> none, named |-> none, input |-> 0,
               ds |-> none, final |-> 0]
  BY DEF NoRun, Initial, None
<1> HIDE DEF none
<1>3. NoRun \in RunRecord(n) /\ NoRun.pc = "idle" /\ NoRun.ds = none /\ NoRun.plan = none
  BY <1>1, <1>2 DEF RunRecord
<1> QED
  BY <1>3 DEF none

\* What a run is after a step.
OnwardOK(n, r, input, o) ==
    /\ o \in RunRecord(n) /\ o.ds = r.ds /\ o.plan = r.plan /\ o.input = input
    /\ o.pc = IF Len(r.ds) < Len(r.plan) THEN "step" ELSE "completed"
    /\ o.pc = "completed" => o.final = input

\* The step after this one, or the end.
LEMMA OnwardFields ==
    ASSUME NEW n \in Nat, NEW r \in RunRecord(n), NEW input \in 0..n
    PROVE  OnwardOK(n, r, input, Onward(r, input))
<1> DEFINE none == <<>>
           pc == IF Len(r.ds) < Len(r.plan) THEN "step" ELSE "completed"
           final == IF Len(r.ds) < Len(r.plan) THEN r.final ELSE input
           o == Onward(r, input)
<1>1. none \in Seq(Agent)
  OBVIOUS
<1>2. o = [r EXCEPT !.input = input, !.named = none, !.pc = pc, !.final = final]
  BY DEF Onward
<1>3. /\ pc \in {"step", "completed"} /\ final \in 0..n
      /\ pc = "completed" => final = input
  BY DEF RunRecord
<1>5. pc = IF Len(r.ds) < Len(r.plan) THEN "step" ELSE "completed"
  OBVIOUS
<1> HIDE DEF none, pc, final, o
<1>4. /\ o \in RunRecord(n) /\ o.ds = r.ds /\ o.plan = r.plan /\ o.input = input
      /\ o.pc = pc /\ o.final = final
  BY <1>1, <1>2, <1>3 DEF RunRecord
<1> QED
  BY <1>3, <1>4, <1>5 DEF OnwardOK, o

\* The types, said with RunRecord.
LEMMA RunTypes ==
    PipeTypeOK <=> TypeOK /\ run \in [Caller -> RunRecord(begun)] /\ fed \in [Id -> 0..begun]
BY DEF PipeTypeOK, RunRecord

\* What is known of a call of run.
LEMMA RunFacts ==
    ASSUME PipeTypeOK, NEW c \in Caller
    PROVE  /\ begun \in Nat /\ run[c] \in RunRecord(begun)
           /\ run[c].plan \in Seq(StepSpec) /\ run[c].ds \in Seq(1..begun)
           /\ Len(run[c].ds) \in Nat /\ Len(run[c].plan) \in Nat
           /\ DOMAIN run[c].ds = 1..Len(run[c].ds)
           /\ \A k \in DOMAIN run[c].ds :
                 run[c].ds[k] \in Id /\ run[c].ds[k] <= begun /\ run[c].ds[k] \in 1..begun
           /\ Handed(run[c]) \in 0..begun
<1>1. /\ begun \in 0..MaxDelegations /\ begun \in Nat /\ MaxDelegations \in Nat
      /\ run[c] \in RunRecord(begun)
  BY Constants, RunTypes DEF TypeOK, DelegationsOK
<1>2. run[c].plan \in Seq(StepSpec)
  BY <1>1, Plans DEF RunRecord
<1>3. run[c].ds \in Seq(1..begun)
  BY <1>1 DEF RunRecord
<1>4. \A k \in DOMAIN run[c].ds : run[c].ds[k] \in 1..begun
  <2> DEFINE S == 1..begun
             s == run[c].ds
  <2>1. s \in Seq(S)
    BY <1>3
  <2> HIDE DEF S, s
  <2>2. \A k \in DOMAIN s : s[k] \in S
    BY <2>1
  <2> QED
    BY <2>2 DEF S, s
<1>5. \A x \in 1..begun : x \in Id /\ x <= begun
  BY <1>1 DEF Id
<1>6. run[c].ds # <<>> => Len(run[c].ds) \in DOMAIN run[c].ds
  BY <1>3
<1>7. Handed(run[c]) \in 0..begun
  BY <1>1, <1>4, <1>6 DEF Handed, Initial
<1> QED
  BY <1>1, <1>2, <1>3, <1>4, <1>5, <1>7

\* A call of run that a step leaves alone.
LEMMA RunFrame ==
    ASSUME PipeTypeOK, Inv, [Next]_vars, NEW c \in Caller, RunOK(c), run'[c] = run[c],
           run[c].pc \in {"step", "call"} => stack'[c] = <<>>,
           \A d \in Id : d <= begun => fed'[d] = fed[d]
    PROVE  RunOK(c)'
<1>0. PICK r : r = run[c]
  OBVIOUS
<1>1. \A k \in DOMAIN r.ds : r.ds[k] \in Id /\ r.ds[k] <= begun
  BY <1>0, RunFacts
<1>2. TypeOK
  BY RunTypes
<1>3. \A k \in DOMAIN r.ds :
         /\ fed'[r.ds[k]] = fed[r.ds[k]]
         /\ deleg'[r.ds[k]].to = deleg[r.ds[k]].to
         /\ deleg[r.ds[k]].status = "SUCCESS" => deleg'[r.ds[k]].status = "SUCCESS"
  BY <1>1, <1>2, Lasts
<1>4. run'[c] = r /\ run[c] = r
  BY <1>0
<1>5. Placed(c)'
  BY <1>4 DEF RunOK, Placed, Current, Handed
<1>6. Chained(c)'
  BY <1>3, <1>4 DEF RunOK, Chained
<1>7. Named(c)'
  BY <1>3, <1>4 DEF RunOK, Named
<1> QED
  BY <1>5, <1>6, <1>7 DEF RunOK

\* Who runs a delegation that asks for one agent only.
LEMMA BeginsTo ==
    ASSUME NEW t \in Thread, NEW r \in Request, NEW a, ~r.capability,
           r.named = <<>> \/ r.named = <<a>>
    PROVE  Begins(t, r).to \in {a, NoAgent}
<1>1. Target(r) \in {a, NoAgent}
  <2>1. CASE r.named = <<>>
    BY <2>1 DEF Target
  <2>2. CASE r.named = <<a>>
    <3>1. DOMAIN r.named = {1} /\ r.named[1] = a /\ r.named # <<>>
      BY <2>2
    <3>2. Target(r) = r.named[CHOOSE i \in {1} : \A j \in {1} : i <= j]
      BY <3>1 DEF Target
    <3>3. (CHOOSE i \in {1} : \A j \in {1} : i <= j) = 1
      OBVIOUS
    <3> QED
      BY <3>1, <3>2, <3>3
  <2> QED
    BY <2>1, <2>2
<1> DEFINE outer == IF stack[t] = <<>> THEN None ELSE Top(t)
           inside == IF outer = None THEN scope[t]
                     ELSE deleg[outer].scoped /\ deleg[outer].pc # "done"
           d == [NoDelegation EXCEPT !.req = r, !.by = t, !.parent = outer, !.scoped = inside]
           to == Target(r)
           pc == IF r.timed THEN "join" ELSE "agent"
<1>2. Begins(t, r) = IF Refused(r)
          THEN [d EXCEPT !.pc = "finish", !.status = "REFUSED", !.reason = TRUE]
          ELSE [d EXCEPT !.pc = pc, !.to = to, !.body = "running"]
  BY DEF Begins
<1> HIDE DEF outer, inside, to, pc
<1>3. d.to = NoAgent /\ DOMAIN d = DOMAIN NoDelegation /\ "to" \in DOMAIN NoDelegation
  BY DEF NoDelegation
<1> HIDE DEF d
<1>4. [d EXCEPT !.pc = "finish", !.status = "REFUSED", !.reason = TRUE].to = d.to
  BY <1>3
<1>5. [d EXCEPT !.pc = pc, !.to = to, !.body = "running"].to = to
  BY <1>3
<1> QED
  BY <1>1, <1>2, <1>3, <1>4, <1>5 DEF to

\* A step of run on its own.
LEMMA Alone ==
    ASSUME PipeTypeOK, Inv, PipeInv, NEW c \in Caller, NEW o \in RunRecord(begun),
           Becomes(c, o), UNCHANGED <<vars, fed>>
    PROVE  /\ PipeTypeOK' /\ run'[c] = o
           /\ \A e \in Caller : e # c => RunOK(e)'
<1>1. TypeOK /\ run \in [Caller -> RunRecord(begun)] /\ [Next]_vars
  BY RunTypes
<1>2. run' \in [Caller -> RunRecord(begun)] /\ run'[c] = o
      /\ \A e \in Caller : e # c => run'[e] = run[e]
  BY <1>1 DEF Becomes
<1>3. PipeTypeOK'
  BY <1>1, <1>2, RunTypes DEF PipeTypeOK, RunRecord, vars, registry, TypeOK, RegistryOK,
     DelegationsOK, StacksOK, ScopesOK
<1>4. ASSUME NEW e \in Caller, e # c
      PROVE  RunOK(e)'
  <2>1. RunOK(e) /\ run'[e] = run[e]
    BY <1>2, <1>4 DEF PipeInv
  <2>2. run[e].pc \in {"step", "call"} => stack'[e] = <<>>
    BY <2>1 DEF RunOK, Placed, vars
  <2>3. \A d \in Id : d <= begun => fed'[d] = fed[d]
    OBVIOUS
  <2> QED
    BY <1>1, <2>1, <2>2, <2>3, RunFrame
<1> QED
  BY <1>2, <1>3, <1>4

\* A run that ends or is over.
LEMMA EndFits ==
    ASSUME PipeTypeOK, Inv, PipeInv, NEW c \in Caller,
           \/ TransformRaises(c)
           \/ PipelineReturns(c)
           \/ StepSettles(c) /\ run'[c].pc \in {"failed", "raised"}
    PROVE  PipeTypeOK' /\ PipeInv'
<1>0. PICK r : r = run[c]
  OBVIOUS
<1>1. RunOK(c) /\ r \in RunRecord(begun) /\ UNCHANGED <<vars, fed>> /\ begun \in Nat
  BY <1>0, RunFacts DEF PipeInv, TransformRaises, PipelineReturns, StepSettles
<1>2. \E o \in RunRecord(begun) :
         /\ Becomes(c, o)
         /\ o.pc \in {"idle", "failed", "raised"}
         /\ \/ o.ds = <<>> /\ o.plan = <<>>
            \/ o.ds = r.ds /\ o.plan = r.plan
  <2>1. CASE PipelineReturns(c)
    <3>1. /\ Becomes(c, NoRun) /\ NoRun \in RunRecord(begun)
          /\ NoRun.pc = "idle" /\ NoRun.ds = <<>> /\ NoRun.plan = <<>>
      BY <1>1, <2>1, NoRunFields DEF PipelineReturns
    <3> QED
      BY <3>1
  <2>2. CASE TransformRaises(c) \/ (StepSettles(c) /\ Becomes(c, [r EXCEPT !.pc = "raised"]))
    <3> DEFINE o == [r EXCEPT !.pc = "raised"]
    <3>1. Becomes(c, o)
      BY <1>0, <2>2 DEF TransformRaises
    <3>2. o \in RunRecord(begun) /\ o.pc = "raised" /\ o.ds = r.ds /\ o.plan = r.plan
      BY <1>1 DEF RunRecord
    <3> QED
      BY <3>1, <3>2
  <2>3. CASE StepSettles(c) /\ Becomes(c, [r EXCEPT !.pc = "failed", !.final = None])
    <3> DEFINE o == [r EXCEPT !.pc = "failed", !.final = None]
    <3>1. None \in 0..begun
      BY <1>1 DEF None
    <3>2. o \in RunRecord(begun) /\ o.pc = "failed" /\ o.ds = r.ds /\ o.plan = r.plan
      BY <1>1, <3>1 DEF RunRecord
    <3> QED
      BY <2>3, <3>2
  <2>4. CASE StepSettles(c) /\ run'[c].pc \in {"failed", "raised"}
             /\ Becomes(c, Onward(r, r.ds[Len(r.ds)]))
    <3>1. run[c].ds # <<>>
      BY <1>0, <1>1, <2>4 DEF RunOK, Placed, StepSettles
    <3>2. r.ds[Len(r.ds)] \in 0..begun
      BY <1>0, <3>1, RunFacts DEF Handed
    <3> DEFINE o == Onward(r, r.ds[Len(r.ds)])
    <3>3. o \in RunRecord(begun) /\ o.pc \in {"step", "completed"}
      BY <1>1, <3>2, OnwardFields DEF OnwardOK
    <3> HIDE DEF o
    <3>4. run'[c] = o
      BY <2>4, RunTypes DEF Becomes, o
    <3> QED
      BY <2>4, <3>3, <3>4
  <2> QED
    BY <1>0, <2>1, <2>2, <2>3, <2>4 DEF StepSettles
<1>3. PICK o \in RunRecord(begun) :
         /\ Becomes(c, o)
         /\ o.pc \in {"idle", "failed", "raised"}
         /\ \/ o.ds = <<>> /\ o.plan = <<>>
            \/ o.ds = r.ds /\ o.plan = r.plan
  BY <1>2
<1>4. /\ PipeTypeOK' /\ run'[c] = o
      /\ \A e \in Caller : e # c => RunOK(e)'
  BY <1>1, <1>3, Alone
<1>5. RunOK(c)'
  <2>1. CASE o.ds = <<>> /\ o.plan = <<>>
    BY <1>3, <1>4, <2>1 DEF RunOK, Placed, Chained, Named
  <2>2. CASE o.ds = r.ds /\ o.plan = r.plan
    <3>1. fed' = fed /\ deleg' = deleg
      BY <1>1 DEF vars
    <3>2. Placed(c)'
      BY <1>0, <1>1, <1>3, <1>4, <2>2 DEF RunOK, Placed
    <3>3. Chained(c)'
      BY <1>0, <1>1, <1>3, <1>4, <2>2, <3>1 DEF RunOK, Chained
    <3>4. Named(c)'
      BY <1>0, <1>1, <1>4, <2>2, <3>1 DEF RunOK, Named
    <3> QED
      BY <3>2, <3>3, <3>4 DEF RunOK
  <2> QED
    BY <1>3, <2>1, <2>2
<1> QED
  BY <1>4, <1>5 DEF PipeInv

\* run begins.
LEMMA StartFits ==
    ASSUME PipeTypeOK, Inv, PipeInv, NEW c \in Caller, PipelineStarts(c)
    PROVE  PipeTypeOK' /\ PipeInv'
<1>1. PICK plan \in Plan : Becomes(c, Onward([NoRun EXCEPT !.plan = plan], Initial))
  BY DEF PipelineStarts
<1>2. UNCHANGED <<vars, fed>> /\ begun \in Nat /\ stack'[c] = <<>>
  BY RunFacts DEF PipelineStarts, vars
<1> DEFINE r == [NoRun EXCEPT !.plan = plan]
<1>3. r \in RunRecord(begun) /\ r.plan = plan /\ r.ds = <<>>
  BY <1>2, NoRunFields DEF RunRecord
<1> HIDE DEF r
<1> DEFINE o == Onward(r, Initial)
<1>4. OnwardOK(begun, r, Initial, o)
  BY <1>2, <1>3, OnwardFields DEF Initial
<1>5. Becomes(c, o)
  BY <1>1 DEF r
<1> HIDE DEF o
<1>6. o \in RunRecord(begun)
  BY <1>4 DEF OnwardOK
<1>7. /\ PipeTypeOK' /\ run'[c] = o
      /\ \A e \in Caller : e # c => RunOK(e)'
  BY <1>2, <1>5, <1>6, Alone
<1>8. plan \in Seq(StepSpec)
  BY Plans
<1>9. RunOK(c)'
  BY <1>2, <1>3, <1>4, <1>7, <1>8 DEF OnwardOK, RunOK, Placed, Chained, Named, Handed
<1> QED
  BY <1>7, <1>9 DEF PipeInv

\* The named agent is looked up.
LEMMA LookUpFits ==
    ASSUME PipeTypeOK, Inv, PipeInv, NEW c \in Caller, LooksUp(c)
    PROVE  PipeTypeOK' /\ PipeInv'
<1>0. PICK r : r = run[c]
  OBVIOUS
<1>1. /\ RunOK(c) /\ r \in RunRecord(begun) /\ UNCHANGED <<vars, fed>> /\ begun \in Nat
      /\ r.pc = "step" /\ r.plan \in Seq(StepSpec)
      /\ Len(r.ds) \in Nat /\ Len(r.ds) < Len(r.plan)
  BY <1>0, RunFacts DEF PipeInv, LooksUp, RunOK, Placed
<1>2. PICK a : a = Current(c).agent
  OBVIOUS
<1>3. Current(c) = r.plan[Len(r.ds) + 1] /\ a \in Agent \cup {NoAgent}
  <2>1. Len(r.ds) + 1 \in 1..Len(r.plan)
    BY <1>1
  <2>2. r.plan[Len(r.ds) + 1] \in StepSpec
    BY <1>1, <2>1
  <2> QED
    BY <1>0, <1>2, <2>2 DEF Current, StepSpec
<1> DEFINE there == a # NoAgent /\ since[a] # NotRegistered
           named == IF there THEN <<a>> ELSE <<>>
           o == [r EXCEPT !.pc = "call", !.named = named]
<1>4. named \in Seq(Agent) /\ (named = <<>> \/ named = <<a>>)
  BY <1>3
<1>5. Becomes(c, o)
  BY <1>0, <1>2 DEF LooksUp
<1> HIDE DEF named
<1>6. /\ o \in RunRecord(begun) /\ o.pc = "call" /\ o.named = named
      /\ o.ds = r.ds /\ o.plan = r.plan /\ o.input = r.input
  BY <1>1, <1>4 DEF RunRecord
<1> HIDE DEF o
<1>7. /\ PipeTypeOK' /\ run'[c] = o
      /\ \A e \in Caller : e # c => RunOK(e)'
  BY <1>1, <1>5, <1>6, Alone
<1>8. RunOK(c)'
  <2>1. fed' = fed /\ deleg' = deleg /\ stack' = stack
    BY <1>1 DEF vars
  <2>2. Current(c)' = r.plan[Len(r.ds) + 1]
    BY <1>6, <1>7 DEF Current
  <2>3. Placed(c)'
    <3>1. /\ stack[c] = <<>> /\ r.input = Handed(r)
      BY <1>0, <1>1 DEF RunOK, Placed
    <3>2. Handed(o) = Handed(r)
      BY <1>6 DEF Handed
    <3>3. Current(c)'.agent = a
      BY <1>2, <1>3, <2>2
    <3> QED
      BY <1>1, <1>4, <1>6, <1>7, <2>1, <3>1, <3>2, <3>3 DEF Placed
  <2>4. Chained(c)'
    BY <1>0, <1>1, <1>6, <1>7, <2>1 DEF RunOK, Chained
  <2>5. Named(c)'
    BY <1>0, <1>1, <1>6, <1>7, <2>1 DEF RunOK, Named
  <2> QED
    BY <2>3, <2>4, <2>5 DEF RunOK
<1> QED
  BY <1>7, <1>8 DEF PipeInv

\* A step succeeded.
LEMMA SuccessFits ==
    ASSUME PipeTypeOK, Inv, PipeInv, NEW c \in Caller, run[c].pc = "called", stack[c] = <<>>,
           deleg[run[c].ds[Len(run[c].ds)]].status = "SUCCESS",
           Becomes(c, Onward(run[c], run[c].ds[Len(run[c].ds)])), UNCHANGED <<vars, fed>>
    PROVE  PipeTypeOK' /\ PipeInv'
<1>0. PICK r : r = run[c]
  OBVIOUS
<1>1. /\ RunOK(c) /\ r \in RunRecord(begun) /\ begun \in Nat
      /\ r.plan \in Seq(StepSpec) /\ r.ds \in Seq(1..begun) /\ r.ds # <<>>
      /\ Len(r.ds) <= Len(r.plan) /\ Len(r.ds) \in Nat /\ Len(r.plan) \in Nat
      /\ DOMAIN r.ds = 1..Len(r.ds)
  BY <1>0, RunFacts DEF PipeInv, RunOK, Placed
<1>2. PICK d : d = r.ds[Len(r.ds)]
  OBVIOUS
<1>3. d \in 0..begun /\ deleg[d].status = "SUCCESS" /\ d = Handed(r)
  BY <1>0, <1>1, <1>2, RunFacts DEF Handed
<1> DEFINE o == Onward(r, d)
<1>4. OnwardOK(begun, r, d, o)
  BY <1>1, <1>3, OnwardFields
<1>5. Becomes(c, o)
  BY <1>0, <1>2
<1> HIDE DEF o
<1>6. /\ o \in RunRecord(begun) /\ o.ds = r.ds /\ o.plan = r.plan /\ o.input = d
      /\ o.pc \in {"step", "completed"}
      /\ o.pc = "step" => Len(r.ds) < Len(r.plan)
      /\ o.pc = "completed" => Len(r.ds) = Len(r.plan) /\ o.final = d
  BY <1>1, <1>4 DEF OnwardOK
<1>7. /\ PipeTypeOK' /\ run'[c] = o
      /\ \A e \in Caller : e # c => RunOK(e)'
  BY <1>5, <1>6, Alone
<1>8. RunOK(c)'
  <2>1. fed' = fed /\ deleg' = deleg /\ stack' = stack
    BY DEF vars
  <2>2. Handed(o) = d
    BY <1>3, <1>6 DEF Handed
  <2>3. Placed(c)'
    BY <1>1, <1>6, <1>7, <2>1, <2>2 DEF Placed
  <2>4. Chained(c)'
    <3>1. \A k \in DOMAIN r.ds : deleg[r.ds[k]].status = "SUCCESS"
      <4> SUFFICES ASSUME NEW k \in DOMAIN r.ds  PROVE deleg[r.ds[k]].status = "SUCCESS"
        OBVIOUS
      <4>1. k < Len(r.ds) \/ k = Len(r.ds)
        BY <1>1
      <4> QED
        BY <1>0, <1>1, <1>2, <1>3, <4>1 DEF RunOK, Chained
    <3>2. \A k \in DOMAIN r.ds : fed[r.ds[k]] = IF k = 1 THEN Initial ELSE r.ds[k - 1]
      BY <1>0, <1>1 DEF RunOK, Chained
    <3> QED
      BY <1>6, <1>7, <2>1, <3>1, <3>2 DEF Chained
  <2>5. Named(c)'
    BY <1>0, <1>1, <1>6, <1>7, <2>1 DEF RunOK, Named
  <2> QED
    BY <2>3, <2>4, <2>5 DEF RunOK
<1> QED
  BY <1>7, <1>8 DEF PipeInv

\* A step delegates.
LEMMA DelegatesFits ==
    ASSUME PipeTypeOK, Inv, PipeInv, NEW c \in Caller, StepDelegates(c)
    PROVE  PipeTypeOK' /\ PipeInv'
<1>0. PICK r : r = run[c]
  OBVIOUS
<1>1. /\ RunOK(c) /\ r \in RunRecord(begun) /\ begun \in Nat
      /\ r.plan \in Seq(StepSpec) /\ r.ds \in Seq(1..begun)
      /\ Len(r.ds) < Len(r.plan) /\ Len(r.ds) \in Nat /\ Len(r.plan) \in Nat
      /\ DOMAIN r.ds = 1..Len(r.ds) /\ r.pc = "call" /\ stack[c] = <<>>
      /\ TypeOK /\ c \in Thread /\ run \in [Caller -> RunRecord(begun)]
      /\ fed \in [Id -> 0..begun]
  BY <1>0, RunFacts, RunTypes, Constants DEF PipeInv, RunOK, Placed, StepDelegates
<1>2. PICK q \in Request :
         q.named = r.named /\ (q.capability <=> Current(c).capability) /\ Delegate(c, q)
  BY <1>0 DEF StepDelegates
<1>3. PICK n : n = begun + 1
  OBVIOUS
<1>4. begun' = n /\ n \in Id /\ n \in Nat /\ begun < n
      /\ deleg' = [deleg EXCEPT ![n] = Begins(c, q)]
  BY <1>1, <1>2, <1>3, Constants DEF Delegate, Id
<1>5. Next
  BY <1>1, <1>2 DEF Next, HostDelegates
<1>6. TypeOK'
  BY <1>1, <1>5, StepTypes
<1>7. \A k \in DOMAIN r.ds :
         /\ r.ds[k] \in Id /\ r.ds[k] \in Nat /\ r.ds[k] <= begun /\ r.ds[k] # n
  BY <1>0, <1>1, <1>4, RunFacts, Constants
<1> DEFINE ds == Append(r.ds, n)
           o == [r EXCEPT !.pc = "called", !.ds = ds]
<1>8. /\ ds \in Seq(1..n) /\ Len(ds) = Len(r.ds) + 1 /\ DOMAIN ds = 1..(Len(r.ds) + 1)
      /\ ds[Len(r.ds) + 1] = n /\ \A k \in DOMAIN r.ds : ds[k] = r.ds[k]
  <2>1. r \in RunRecord(n)
    BY <1>1, <1>4, RecordGrows
  <2>2. r.ds \in Seq(1..n) /\ n \in 1..n
    BY <1>1, <1>3, <2>1 DEF RunRecord
  <2> QED
    BY <1>1, <2>2
<1>9. Becomes(c, o) /\ fed' = [fed EXCEPT ![n] = r.input]
  BY <1>0, <1>4 DEF StepDelegates
<1> HIDE DEF ds
<1>10. /\ o \in RunRecord(n) /\ o.pc = "called" /\ o.ds = ds /\ o.plan = r.plan
  <2>1. r \in RunRecord(n)
    BY <1>1, <1>4, RecordGrows
  <2> QED
    BY <1>8, <2>1 DEF RunRecord
<1> HIDE DEF o
<1>11. /\ run' \in [Caller -> RunRecord(n)] /\ run'[c] = o
       /\ \A e \in Caller : e # c => run'[e] = run[e]
  <2>1. \A e \in Caller : run[e] \in RunRecord(n)
    BY <1>1, <1>4, RecordGrows
  <2>2. run \in [Caller -> RunRecord(n)]
    BY <1>1, <2>1
  <2> QED
    BY <1>9, <1>10, <2>2 DEF Becomes
<1>12. PipeTypeOK'
  <2>1. r.input \in 0..begun
    BY <1>1 DEF RunRecord
  <2>2. fed' \in [Id -> 0..n]
    <3>1. \A x \in 0..begun : x \in 0..n
      BY <1>1, <1>3
    <3>2. \A d \in Id : fed[d] \in 0..n
      BY <1>1, <3>1
    <3>3. fed' = [d \in Id |-> IF d = n THEN r.input ELSE fed[d]]
      BY <1>1, <1>4, <1>9
    <3> QED
      BY <2>1, <3>1, <3>2, <3>3
  <2> QED
    BY <1>4, <1>6, <1>11, <2>2 DEF PipeTypeOK, RunRecord
<1>13. ASSUME NEW e \in Caller, e # c
       PROVE  RunOK(e)'
  <2>1. RunOK(e) /\ run'[e] = run[e]
    BY <1>11, <1>13 DEF PipeInv
  <2>2. run[e].pc \in {"step", "call"} => stack'[e] = <<>>
    BY <1>1, <1>2, <1>13, <2>1, StaysOut DEF RunOK, Placed
  <2>3. \A d \in Id : d <= begun => fed'[d] = fed[d]
    BY <1>1, <1>4, <1>9, Constants
  <2> QED
    BY <1>5, <2>1, <2>2, <2>3, RunFrame
<1>14. \A k \in DOMAIN r.ds :
          /\ fed'[r.ds[k]] = fed[r.ds[k]] /\ deleg'[r.ds[k]].to = deleg[r.ds[k]].to
          /\ deleg[r.ds[k]].status = "SUCCESS" => deleg'[r.ds[k]].status = "SUCCESS"
  BY <1>1, <1>5, <1>7, <1>9, Lasts
<1>15. ASSUME NEW k \in DOMAIN ds
       PROVE  \/ k \in DOMAIN r.ds /\ k < Len(ds) /\ ds[k] = r.ds[k]
              \/ k = Len(r.ds) + 1 /\ ds[k] = n /\ k = Len(ds)
  BY <1>1, <1>8
<1>16. Placed(c)'
  BY <1>1, <1>8, <1>10, <1>11 DEF Placed
<1>17. Chained(c)'
  <2> SUFFICES ASSUME NEW k \in DOMAIN ds
               PROVE  /\ fed'[ds[k]] = IF k = 1 THEN Initial ELSE ds[k - 1]
                      /\ k < Len(ds) => deleg'[ds[k]].status = "SUCCESS"
    BY <1>10, <1>11 DEF Chained
  <2>1. CASE k \in DOMAIN r.ds /\ k < Len(ds) /\ ds[k] = r.ds[k]
    <3>1. /\ fed[r.ds[k]] = IF k = 1 THEN Initial ELSE r.ds[k - 1]
          /\ deleg[r.ds[k]].status = "SUCCESS"
      BY <1>0, <1>1, <2>1 DEF RunOK, Chained
    <3>2. k # 1 => k - 1 \in DOMAIN r.ds
      BY <1>1, <2>1
    <3> QED
      BY <1>8, <1>14, <2>1, <3>1, <3>2
  <2>2. CASE k = Len(r.ds) + 1 /\ ds[k] = n /\ k = Len(ds)
    <3>1. fed'[n] = r.input /\ r.input = Handed(r)
      BY <1>0, <1>1, <1>4, <1>9 DEF RunOK, Placed
    <3>2. CASE k = 1
      <4>1. r.ds = <<>>
        BY <1>1, <2>2, <3>2
      <4> QED
        BY <1>8, <2>2, <3>1, <3>2, <4>1 DEF Handed
    <3>3. CASE k # 1
      <4>1. r.ds # <<>> /\ k - 1 = Len(r.ds) /\ k - 1 \in DOMAIN r.ds
        BY <1>1, <2>2, <3>3
      <4> QED
        BY <1>8, <2>2, <3>1, <3>3, <4>1 DEF Handed
    <3> QED
      BY <3>2, <3>3
  <2> QED
    BY <1>15, <2>1, <2>2
<1>18. Named(c)'
  <2> SUFFICES ASSUME NEW k \in DOMAIN ds, r.plan[k].agent # NoAgent, ~r.plan[k].capability
               PROVE  deleg'[ds[k]].to \in {r.plan[k].agent, NoAgent}
    BY <1>10, <1>11 DEF Named
  <2>1. CASE k \in DOMAIN r.ds /\ k < Len(ds) /\ ds[k] = r.ds[k]
    BY <1>0, <1>1, <1>14, <2>1 DEF RunOK, Named
  <2>2. CASE k = Len(r.ds) + 1 /\ ds[k] = n /\ k = Len(ds)
    <3>1. Current(c) = r.plan[k]
      BY <1>0, <2>2 DEF Current
    <3>2. ~q.capability /\ (q.named = <<>> \/ q.named = <<r.plan[k].agent>>)
      BY <1>0, <1>1, <1>2, <3>1 DEF RunOK, Placed
    <3>3. Begins(c, q).to \in {r.plan[k].agent, NoAgent}
      BY <1>1, <3>2, BeginsTo
    <3> DEFINE x == Begins(c, q)
    <3>4. deleg' = [deleg EXCEPT ![n] = x]
      BY <1>4
    <3>6. x.to \in {r.plan[k].agent, NoAgent}
      BY <3>3
    <3> HIDE DEF x
    <3>5. deleg'[n] = x
      BY <1>1, <1>4, <3>4 DEF TypeOK, DelegationsOK
    <3> QED
      BY <2>2, <3>5, <3>6
  <2> QED
    BY <1>15, <2>1, <2>2
<1>19. RunOK(c)'
  BY <1>16, <1>17, <1>18 DEF RunOK
<1> QED
  BY <1>12, <1>13, <1>19 DEF PipeInv

\* What the conductor does without a pipeline.
LEMMA OtherFits ==
    ASSUME PipeTypeOK, Inv, PipeInv, UNCHANGED <<run, fed>>,
           \/ Delegations
           \/ \E c \in Caller : run[c].pc = "idle" /\ HostDelegates(c)
           \/ UNCHANGED vars
    PROVE  PipeTypeOK' /\ PipeInv'
<1>1. [Next]_vars /\ TypeOK
  BY RunTypes DEF Next
<1>2. TypeOK' /\ begun \in Nat /\ begun' \in Nat /\ begun <= begun'
  BY <1>1, StepTypes, Grows
<1>3. PipeTypeOK'
  <2>1. run \in [Caller -> RunRecord(begun)] /\ fed \in [Id -> 0..begun]
    BY RunTypes
  <2>2. \A c \in Caller : run[c] \in RunRecord(begun')
    BY <1>2, <2>1, RecordGrows
  <2>3. \A x \in 0..begun : x \in 0..begun'
    BY <1>2
  <2>4. run' \in [Caller -> RunRecord(begun')] /\ fed' \in [Id -> 0..begun']
    BY <2>1, <2>2, <2>3
  <2> QED
    BY <1>2, <2>4 DEF PipeTypeOK, RunRecord
<1>4. ASSUME NEW e \in Caller
      PROVE  RunOK(e)'
  <2>1. RunOK(e) /\ run'[e] = run[e]
    BY DEF PipeInv
  <2>2. run[e].pc \in {"step", "call"} => stack'[e] = <<>>
    BY <1>1, <2>1, StaysOut DEF RunOK, Placed, HostDelegates
  <2>3. \A d \in Id : d <= begun => fed'[d] = fed[d]
    OBVIOUS
  <2> QED
    BY <1>1, <2>1, <2>2, <2>3, RunFrame
<1> QED
  BY <1>3, <1>4 DEF PipeInv

\* Every step.
LEMMA PipeFits ==
    ASSUME PipeTypeOK, Inv, PipeInv, [PipeNext]_pipeVars
    PROVE  PipeTypeOK' /\ PipeInv' /\ [Next]_vars
<1>1. CASE UNCHANGED pipeVars
  BY <1>1, OtherFits DEF pipeVars
<1>2. CASE Delegations /\ UNCHANGED <<run, fed>>
  BY <1>2, OtherFits DEF Next
<1>3. ASSUME NEW c \in Caller, run[c].pc = "idle", HostDelegates(c), UNCHANGED <<run, fed>>
      PROVE  PipeTypeOK' /\ PipeInv' /\ [Next]_vars
  BY <1>3, OtherFits DEF Next
<1>4. ASSUME NEW c \in Caller, PipelineStep(c)
      PROVE  PipeTypeOK' /\ PipeInv' /\ [Next]_vars
  <2>1. CASE PipelineStarts(c)
    BY <2>1, StartFits DEF PipelineStarts
  <2>2. CASE TransformRaises(c) \/ PipelineReturns(c)
    BY <2>2, EndFits DEF TransformRaises, PipelineReturns
  <2>3. CASE LooksUp(c)
    BY <2>3, LookUpFits DEF LooksUp
  <2>4. CASE StepDelegates(c)
    <3>1. stack[c] = <<>>
      BY <2>4 DEF PipeInv, RunOK, Placed, StepDelegates
    <3>2. HostDelegates(c)
      BY <2>4, <3>1 DEF StepDelegates, HostDelegates
    <3> QED
      BY <2>4, <3>2, DelegatesFits DEF Next
  <2>5. CASE StepSettles(c)
    <3>0. UNCHANGED <<vars, fed>>
      BY <2>5 DEF StepSettles
    <3>1. CASE Becomes(c, [run[c] EXCEPT !.pc = "failed", !.final = None])
      <4>1. run'[c].pc = "failed"
        BY <3>1, RunTypes DEF Becomes, RunRecord
      <4> QED
        BY <2>5, <3>0, <4>1, EndFits
    <3>2. CASE Becomes(c, [run[c] EXCEPT !.pc = "raised"])
      <4>1. run'[c].pc = "raised"
        BY <3>2, RunTypes DEF Becomes, RunRecord
      <4> QED
        BY <2>5, <3>0, <4>1, EndFits
    <3>3. CASE /\ deleg[run[c].ds[Len(run[c].ds)]].status = "SUCCESS"
               /\ Becomes(c, Onward(run[c], run[c].ds[Len(run[c].ds)]))
      BY <2>5, <3>0, <3>3, SuccessFits DEF StepSettles
    <3> QED
      BY <2>5, <3>1, <3>2, <3>3 DEF StepSettles
  <2> QED
    BY <1>4, <2>1, <2>2, <2>3, <2>4, <2>5 DEF PipelineStep
<1> QED
  BY <1>1, <1>2, <1>3, <1>4 DEF PipeNext

------------------------------------------------------------------------------
(* The theorems                                                            *)

\* At the start no pipeline runs.
LEMMA PipeStart ==
    ASSUME PipeInit
    PROVE  PipeInv /\ (TypeOK => PipeTypeOK)
<1>1. \A c \in Caller : run[c].ds = <<>> /\ run[c].plan = <<>> /\ run[c].pc = "idle"
  BY NoRunFields DEF PipeInit
<1>2. PipeInv
  BY <1>1 DEF PipeInv, RunOK, Placed, Chained, Named
<1>3. begun = 0 /\ run \in [Caller -> RunRecord(begun)] /\ fed \in [Id -> 0..begun]
  BY NoRunFields DEF PipeInit, Init, None
<1> QED
  BY <1>2, <1>3, RunTypes

\* Everything that is invariant of a conductor with pipelines.
LEMMA PipeHolds ==
    PipeSpec => [](PipeTypeOK /\ Inv /\ PipeInv) /\ [][Next]_vars
<1>1. PipeInit => PipeTypeOK /\ Inv /\ PipeInv
  BY PipeStart, TypesAtStart, InvAtStart DEF PipeInit
<1>2. PipeTypeOK /\ Inv /\ PipeInv /\ [PipeNext]_pipeVars =>
        (PipeTypeOK /\ Inv /\ PipeInv)' /\ [Next]_vars
  BY PipeFits, StepFits, RunTypes
<1> QED
  BY <1>1, <1>2, PTL DEF PipeSpec

\* A conductor with pipelines is a conductor: a pipeline only delegates, from
\* a thread that is in no delegation.
THEOREM PipelinesAreHosts == PipeSpec => Spec
<1>1. PipeInit => Init
  BY DEF PipeInit
<1> QED
  BY <1>1, PipeHolds, PTL DEF PipeSpec, Spec

\* The types of the two variables of the pipelines too.
THEOREM PipeTypeCorrect == PipeSpec => []PipeTypeOK
BY PipeHolds, PTL

\* The delegations of a run form a chain, whatever else is delegated meanwhile.
THEOREM ChainCorrect == PipeSpec => []OutputsChain
<1>1. PipeTypeOK /\ PipeInv => OutputsChain
  <2> SUFFICES ASSUME PipeTypeOK, PipeInv, NEW c \in Caller, NEW r, r = run[c]
               PROVE  /\ \A k \in DOMAIN r.ds :
                            /\ fed[r.ds[k]] = IF k = 1 THEN Initial ELSE r.ds[k - 1]
                            /\ k < Len(r.ds) => deleg[r.ds[k]].status = "SUCCESS"
                      /\ r.pc = "completed" /\ r.plan # <<>> =>
                            /\ Len(r.ds) = Len(r.plan)
                            /\ r.final = r.ds[Len(r.ds)]
                            /\ deleg[r.final].status = "SUCCESS"
    BY DEF OutputsChain
  <2>1. RunOK(c) /\ Chained(c)
    BY DEF PipeInv, RunOK
  <2>2. \A k \in DOMAIN r.ds :
           /\ fed[r.ds[k]] = IF k = 1 THEN Initial ELSE r.ds[k - 1]
           /\ k < Len(r.ds) => deleg[r.ds[k]].status = "SUCCESS"
    BY <2>1 DEF Chained
  <2>3. ASSUME r.pc = "completed", r.plan # <<>>
        PROVE  /\ Len(r.ds) = Len(r.plan) /\ r.final = r.ds[Len(r.ds)]
               /\ deleg[r.final].status = "SUCCESS"
    <3>1. Len(r.ds) = Len(r.plan) /\ r.final = Handed(r)
      BY <2>1, <2>3 DEF RunOK, Placed
    <3>2. r.plan \in Seq(StepSpec) /\ r.ds \in Seq(1..begun)
      BY RunFacts
    <3>3. r.ds # <<>> /\ Len(r.ds) \in DOMAIN r.ds
      BY <2>3, <3>1, <3>2
    <3> QED
      BY <2>1, <2>3, <3>1, <3>3 DEF Chained, Handed
  <2> QED
    BY <2>2, <2>3
<1> QED
  BY <1>1, PipeHolds, PTL

\* A step that names an agent is run by it or refused.
THEOREM NamedCorrect == PipeSpec => []OnlyTheNamedAgent
<1>1. PipeInv => OnlyTheNamedAgent
  BY DEF PipeInv, RunOK, Named, OnlyTheNamedAgent
<1> QED
  BY <1>1, PipeHolds, PTL
===============================================================================
