---------------------------- MODULE GuardianProofs ----------------------------
(***************************************************************************)
(* Proofs about Guardian: the types, dry runs, the races of the limiters,  *)
(* what the policies enforce and redact, and where violations go.          *)
(***************************************************************************)
EXTENDS Guardian, FiniteSetTheorems, SequenceTheorems, WellFoundedInduction, TLAPS

\* What the constants are.
LEMMA Constants ==
    /\ MaxCalls \in Nat /\ MaxBlocks \in Nat /\ MaxTime \in Nat
    /\ Main \subseteq Ctx /\ Result \subseteq Outcome /\ Past \subseteq [Ledger -> Seq(Entry)]
    /\ \A r \in Request : r.agent \in Agent
BY GuardianAssumption DEF GuardianAssumption

\* What the groups of an agent are.
LEMMA GroupFacts ==
    ASSUME NEW a \in Agent
    PROVE  /\ Len(Groups[a]) \in Nat /\ DOMAIN Groups[a] = 1..Len(Groups[a])
           /\ 1 \in DOMAIN Groups[a]
           /\ \A g \in DOMAIN Groups[a] : GroupOK(Groups[a][g])
<1>1. /\ Groups[a] \in Seq(Range(Groups[a])) /\ Groups[a] # <<>>
      /\ \A g \in DOMAIN Groups[a] : GroupOK(Groups[a][g])
  BY GuardianAssumption DEF GuardianAssumption
<1> QED
  BY <1>1

\* What a group is.
LEMMA PolicyFacts ==
    ASSUME NEW group, GroupOK(group)
    PROVE  /\ group.mode \in {"all", "any"}
           /\ Len(group.policies) \in Nat /\ DOMAIN group.policies = 1..Len(group.policies)
           /\ 1 \in DOMAIN group.policies
           /\ \A i \in DOMAIN group.policies : PolicyOK(group.policies[i])
<1>1. /\ group.policies \in Seq(Range(group.policies)) /\ group.policies # <<>>
      /\ group.mode \in {"all", "any"}
      /\ \A i \in DOMAIN group.policies : PolicyOK(group.policies[i])
  BY DEF GroupOK
<1> QED
  BY <1>1

\* A set of numbers that is not empty has a least one.
LEMMA MinFacts ==
    ASSUME NEW S, S \subseteq Nat, S # {}
    PROVE  Min(S) \in S /\ \A y \in S : Min(S) <= y
<1> DEFINE R == {ss \in Nat \X Nat : ss[1] < ss[2]}
<1>1. IsWellFoundedOn(R, Nat)
  BY NatLessThanWellFounded DEF OpToRel
<1> HIDE DEF R
<1>2. PICK x \in S : \A y \in S : ~(<<y, x>> \in R)
  BY <1>1, IsWellFoundedOnSubset, WFMin
<1>3. \A y \in S : ~(y < x)
  BY <1>2 DEF R
<1>4. \A y \in S : x <= y
  BY <1>3
<1> QED
  BY <1>4 DEF Min

------------------------------------------------------------------------------
(* The way through the policies                                            *)

\* The place of a call that is in the policies.
LEMMA Place ==
    ASSUME NEW k \in CallState, PlaceOK(k), k.pc \in Asking
    PROVE  /\ k.agent \in Agent /\ k.g \in Nat /\ k.i \in Nat
           /\ DOMAIN Groups[k.agent] = 1..Len(Groups[k.agent]) /\ Len(Groups[k.agent]) \in Nat
           /\ k.g \in 1..Len(Groups[k.agent]) /\ k.g \in DOMAIN Groups[k.agent]
           /\ Group(k) = Groups[k.agent][k.g] /\ Group(k).mode \in {"all", "any"}
           /\ DOMAIN Group(k).policies = 1..Len(Group(k).policies)
           /\ Len(Group(k).policies) \in Nat /\ k.i \in 1..Len(Group(k).policies)
           /\ k.i \in DOMAIN Group(k).policies
           /\ Policy(k) = Group(k).policies[k.i] /\ PolicyOK(Policy(k))
<1>1. k.agent \in Agent /\ k.g \in DOMAIN Groups[k.agent] /\ k.i \in DOMAIN Group(k).policies
      /\ k.g \in Nat /\ k.i \in Nat
  BY DEF PlaceOK, CallState
<1>2. GroupOK(Group(k))
  BY <1>1, GroupFacts DEF Group
<1> QED
  BY <1>1, <1>2, GroupFacts, PolicyFacts DEF Group, Policy

\* The same call: only its way through the policies goes on.
SameCall(k, o) ==
    o \in CallState /\ o.agent = k.agent /\ o.id = k.id /\ o.dry = k.dry

\* The same place in the policies, with the same result.
SamePlace(k, o) ==
    /\ SameCall(k, o) /\ o.phase = k.phase /\ o.g = k.g /\ o.i = k.i
    /\ o.result = k.result /\ o.current = k.current /\ (o.replaced <=> k.replaced)

\* Nothing is left of a check of a deque.
Settles(o) == ~o.raced /\ ~o.disturbed

\* What a call looks like at the next place.
LEMMA ChecksFields ==
    ASSUME NEW k \in CallState
    PROVE  SamePlace(k, Checks(k)) /\ Settles(Checks(k)) /\ Checks(k).pc = "check"
BY DEF CallState, Checks, SamePlace, SameCall, Settles

\* What a call looks like when it has been left.
EndsOK(k, pc, o) ==
    /\ SameCall(k, o) /\ o.pc = pc /\ (o.raced <=> k.raced) /\ ~o.disturbed
    /\ pc = "returned" => o.result = k.result

\* What is kept of it.
LEMMA EndsFields ==
    ASSUME NEW k \in CallState, NEW pc \in Ended
    PROVE  EndsOK(k, pc, Ends(k, pc))
<1> DEFINE result == IF pc = "returned" THEN k.result ELSE Idle.result
           o == Ends(k, pc)
<1>1. Unknown \in Outcome
  BY DEF Unknown, Outcome
<1>2. Idle \in CallState /\ Idle.result \in Outcome /\ ~Idle.disturbed
  BY <1>1 DEF Idle, CallState, Ended
<1>3. result \in Outcome /\ (pc = "returned" => result = k.result)
  BY <1>2 DEF CallState
<1>4. o = [Idle EXCEPT !.pc = pc, !.agent = k.agent, !.id = k.id, !.dry = k.dry,
                       !.raced = k.raced, !.result = result]
  BY DEF Ends
<1> HIDE DEF result, o
<1>5. /\ o \in CallState /\ o.pc = pc /\ o.agent = k.agent /\ o.id = k.id /\ o.dry = k.dry
      /\ o.raced = k.raced /\ o.result = result /\ o.disturbed = Idle.disturbed
  BY <1>2, <1>3, <1>4 DEF CallState
<1> QED
  BY <1>2, <1>3, <1>5 DEF EndsOK, SameCall, o

Final(k) == IF k.replaced THEN k.current ELSE k.result

\* Where a call is after a group.
NextOK(k, o) ==
    /\ SameCall(k, o) /\ PlaceOK(o) /\ Settles(o)
    /\ \/ /\ k.g < Len(Groups[k.agent]) /\ o.pc = "check" /\ o.phase = k.phase
          /\ o.g = k.g + 1 /\ o.i = 1 /\ ~o.replaced
          /\ o.result = Final(k) /\ o.current = Final(k)
       \/ /\ k.g = Len(Groups[k.agent]) /\ k.phase = "pre"
          /\ o.pc = "agent" /\ o.phase = "pre"
       \/ /\ k.g = Len(Groups[k.agent]) /\ k.phase = "post"
          /\ o.pc = "returned" /\ o.result = Final(k)

\* The next group, the agent or the caller.
LEMMA NextGroupFields ==
    ASSUME NEW k \in CallState, PlaceOK(k), k.pc \in Asking
    PROVE  NextOK(k, NextGroup(k))
<1> DEFINE result == IF k.replaced THEN k.current ELSE k.result
           base == Checks(k)
           next == [base EXCEPT !.i = 1, !.replaced = FALSE, !.result = result, !.current = result]
           on == [next EXCEPT !.g = next.g + 1]
           agent == Goes(next, "agent")
           o == NextGroup(k)
<1>1. o = IF k.g < Len(Groups[k.agent]) THEN on
          ELSE IF k.phase = "pre" THEN agent ELSE Ends(next, "returned")
  BY DEF NextGroup
<1>2. SamePlace(k, base) /\ Settles(base) /\ base.pc = "check"
  BY ChecksFields
<1>3. result \in Outcome /\ result = Final(k)
  BY DEF CallState, Final
<1> HIDE DEF base, result
<1>4. /\ next \in CallState /\ next.pc = "check" /\ next.agent = k.agent /\ next.id = k.id
      /\ next.dry = k.dry /\ next.phase = k.phase /\ next.g = k.g /\ next.i = 1
      /\ next.replaced = FALSE /\ next.result = result /\ next.current = result
      /\ ~next.raced /\ ~next.disturbed
  BY <1>2, <1>3 DEF CallState, SamePlace, SameCall, Settles
<1> HIDE DEF next
<1>5. /\ on \in CallState /\ on.pc = "check" /\ on.agent = k.agent /\ on.id = k.id
      /\ on.dry = k.dry /\ on.phase = k.phase /\ on.g = k.g + 1 /\ on.i = 1
      /\ ~on.replaced /\ on.result = result /\ on.current = result
      /\ ~on.raced /\ ~on.disturbed
  BY <1>4 DEF CallState
<1>6. /\ agent \in CallState /\ agent.pc = "agent" /\ agent.agent = k.agent
      /\ agent.id = k.id /\ agent.dry = k.dry /\ agent.phase = k.phase
      /\ ~agent.raced /\ ~agent.disturbed
  BY <1>4 DEF CallState, Goes
<1> HIDE DEF on, agent, o
<1>7. EndsOK(next, "returned", Ends(next, "returned"))
  BY <1>4, EndsFields DEF Ended
<1>8. CASE k.g < Len(Groups[k.agent])
  <2>1. k.g + 1 \in DOMAIN Groups[k.agent]
    BY <1>8, Place
  <2>2. 1 \in DOMAIN Groups[k.agent][k.g + 1].policies /\ k.agent \in Agent
    BY <2>1, Place, GroupFacts, PolicyFacts
  <2>3. PlaceOK(on)
    BY <1>5, <2>1, <2>2 DEF PlaceOK, Group, Asking, Metering
  <2> QED
    BY <1>1, <1>3, <1>5, <1>8, <2>3 DEF NextOK, SameCall, Settles, o
<1>9. CASE ~(k.g < Len(Groups[k.agent])) /\ k.phase = "pre"
  <2>1. PlaceOK(agent)
    BY <1>6, <1>9, Place DEF PlaceOK, Asking, Metering
  <2> QED
    BY <1>1, <1>6, <1>9, <2>1, Place DEF NextOK, SameCall, Settles, o
<1>10. CASE ~(k.g < Len(Groups[k.agent])) /\ k.phase = "post"
  <2> DEFINE e == Ends(next, "returned")
  <2> HIDE DEF e
  <2>0. EndsOK(next, "returned", e) /\ NextGroup(k) = e
    BY <1>1, <1>7, <1>10 DEF e, o
  <2>1. /\ e \in CallState /\ e.pc = "returned" /\ e.agent = k.agent /\ e.id = k.id
        /\ e.dry = k.dry /\ e.result = result /\ ~e.raced /\ ~e.disturbed
    BY <1>4, <2>0 DEF EndsOK, SameCall
  <2>2. PlaceOK(e)
    BY <2>1, Place DEF PlaceOK, Asking, Metering
  <2> QED
    BY <1>3, <1>10, <2>0, <2>1, <2>2, Place DEF NextOK, SameCall, Settles
<1> QED
  BY <1>8, <1>9, <1>10 DEF CallState

\* A place further on in the same group, with nothing else changed.
Further(k, i, o) ==
    /\ SameCall(k, o) /\ PlaceOK(o) /\ o.pc = "check" /\ o.phase = k.phase
    /\ o.g = k.g /\ o.i = i
    /\ o.result = k.result /\ o.current = k.current /\ (o.replaced <=> k.replaced)

\* A place in the same group.
LEMMA FurtherFields ==
    ASSUME NEW k \in CallState, PlaceOK(k), k.pc \in Asking,
           NEW i \in DOMAIN Group(k).policies
    PROVE  Further(k, i, [Checks(k) EXCEPT !.i = i])
<1> DEFINE base == Checks(k)
           o == [base EXCEPT !.i = i]
<1>1. SamePlace(k, base) /\ Settles(base) /\ base.pc = "check"
  BY ChecksFields
<1>2. i \in Nat
  BY Place
<1> HIDE DEF base
<1>3. /\ o \in CallState /\ o.pc = "check" /\ o.agent = k.agent /\ o.id = k.id
      /\ o.dry = k.dry /\ o.phase = k.phase /\ o.g = k.g /\ o.i = i
      /\ (o.replaced <=> k.replaced) /\ o.result = k.result /\ o.current = k.current
      /\ ~o.raced /\ ~o.disturbed
  BY <1>1, <1>2 DEF CallState, SamePlace, SameCall, Settles
<1> HIDE DEF o
<1>4. PlaceOK(o)
  BY <1>3, Place DEF PlaceOK, Group, Asking, Metering
<1> QED
  BY <1>3, <1>4 DEF Further, SameCall, Settles, o, base

\* The hook of the current policy let the call pass.
AcceptsOK(k, o) ==
    \/ NextOK(k, o) /\ (Group(k).mode = "any" \/ k.i = Len(Group(k).policies))
    \/ Further(k, k.i + 1, o) /\ Group(k).mode = "all" /\ k.i < Len(Group(k).policies)

\* Where it goes on.
LEMMA AcceptsFields ==
    ASSUME NEW k \in CallState, PlaceOK(k), k.pc \in Asking
    PROVE  AcceptsOK(k, Accepts(k))
<1>1. CASE Group(k).mode = "any" \/ IsLast(k)
  BY <1>1, NextGroupFields DEF Accepts, AcceptsOK, IsLast
<1>2. CASE ~(Group(k).mode = "any" \/ IsLast(k))
  <2>1. k.i + 1 \in DOMAIN Group(k).policies /\ k.i < Len(Group(k).policies)
    BY <1>2, Place DEF IsLast
  <2>2. Checks(k).i = k.i
    BY ChecksFields DEF SamePlace
  <2>3. Accepts(k) = [Checks(k) EXCEPT !.i = k.i + 1]
    BY <1>2, <2>2 DEF Accepts
  <2>4. Further(k, k.i + 1, [Checks(k) EXCEPT !.i = k.i + 1])
    BY <2>1, FurtherFields
  <2> QED
    BY <1>2, <2>1, <2>3, <2>4, Place DEF AcceptsOK
<1> QED
  BY <1>1, <1>2

\* The hook of the current policy raised a violation.
RejectsOK(k, o) ==
    \/ SamePlace(k, o) /\ PlaceOK(o) /\ Settles(o) /\ o.pc = "violated"
    \/ Further(k, k.i + 1, o) /\ Group(k).mode = "any"

\* Where it goes on.
LEMMA RejectsFields ==
    ASSUME NEW k \in CallState, PlaceOK(k), k.pc \in Asking
    PROVE  RejectsOK(k, Rejects(k))
<1>1. CASE Group(k).mode = "all" \/ IsLast(k)
  <2> DEFINE base == Checks(k)
             o == Goes(base, "violated")
  <2>1. SamePlace(k, base) /\ Settles(base) /\ base.pc = "check"
    BY ChecksFields
  <2> HIDE DEF base
  <2>2. /\ SamePlace(k, o) /\ Settles(o) /\ o.pc = "violated"
    BY <2>1 DEF Goes, CallState, SamePlace, SameCall, Settles
  <2> HIDE DEF o
  <2>3. PlaceOK(o)
    BY <2>2, Place DEF PlaceOK, SamePlace, SameCall, Group, Asking, Metering
  <2> QED
    BY <1>1, <2>2, <2>3 DEF Rejects, RejectsOK, o, base
<1>2. CASE ~(Group(k).mode = "all" \/ IsLast(k))
  <2>1. k.i + 1 \in DOMAIN Group(k).policies /\ Group(k).mode = "any"
    BY <1>2, Place DEF IsLast
  <2>2. Checks(k).i = k.i
    BY ChecksFields DEF SamePlace
  <2>3. Rejects(k) = [Checks(k) EXCEPT !.i = k.i + 1]
    BY <1>2, <2>2 DEF Rejects
  <2>4. Further(k, k.i + 1, [Checks(k) EXCEPT !.i = k.i + 1])
    BY <2>1, FurtherFields
  <2> QED
    BY <2>1, <2>3, <2>4 DEF RejectsOK
<1> QED
  BY <1>1, <1>2

\* Nothing is left where PIIRedact looks.
Clean(result) == "reached" \notin result.pii

\* What has been redacted.
RedactsOK(k, o) ==
    /\ SameCall(k, o) /\ o.pc = k.pc /\ o.phase = k.phase /\ o.g = k.g /\ o.i = k.i
    /\ o.replaced /\ Clean(o.current) /\ (o.result = k.result \/ Clean(o.result))
    /\ Group(o) = Group(k)

\* PIIRedact.
LEMMA RedactsFields ==
    ASSUME NEW k \in CallState, PlaceOK(k), k.pc = "check"
    PROVE  RedactsOK(k, Redacts(k)) /\ PlaceOK(Redacts(k))
<1> DEFINE clean == [k.current EXCEPT !.pii = @ \ {"reached"}]
           result == IF clean.shape = "dict" THEN clean ELSE k.result
           o == Redacts(k)
<1>1. clean \in Outcome /\ Clean(clean)
  <2>1. k.current \in Outcome
    BY DEF CallState
  <2> QED
    BY <2>1 DEF Outcome, Clean
<1>2. result \in Outcome /\ (result = k.result \/ Clean(result))
  BY <1>1 DEF CallState
<1>3. o = [k EXCEPT !.current = clean, !.replaced = TRUE, !.result = result]
  BY DEF Redacts
<1> HIDE DEF clean, result, o
<1>4. /\ o \in CallState /\ o.agent = k.agent /\ o.id = k.id /\ o.dry = k.dry /\ o.pc = k.pc
      /\ o.phase = k.phase /\ o.g = k.g /\ o.i = k.i /\ o.replaced = TRUE
      /\ o.current = clean /\ o.result = result
  BY <1>1, <1>2, <1>3 DEF CallState
<1>5. PlaceOK(o)
  BY <1>4 DEF PlaceOK, Group, Asking, Metering
<1> QED
  BY <1>1, <1>2, <1>4, <1>5 DEF RedactsOK, SameCall, Group, o

------------------------------------------------------------------------------
(* What holds                                                              *)

\* A context that does not exist yet has done nothing.
Asleep ==
    \A c \in Ctx \ started : call[c] = Idle /\ tokens[c] = <<>> /\ blocks[c] = <<>>

\* What dry_run will reset the buffer to is the block around, or what the
\* context was made with.
Nested(c) ==
    /\ buffer[c] = IF blocks[c] # <<>> THEN Last(blocks[c]) ELSE inherited[c]
    /\ \A k \in DOMAIN tokens[c] :
          tokens[c][k] = IF k = 1 THEN inherited[c] ELSE blocks[c][k - 1]
    /\ call[c].pc \notin Ended => buffer[c] = call[c].dry

\* Two checks of one deque know of each other; a check that was disturbed, or
\* that found a charge which is gone, is one of two.
Raced(c) ==
    /\ \A d \in Ctx \ {c} :
          call[c].pc \in Metering /\ Uses(d, LedgerOf(c)) => call[c].raced
    /\ call[c].pc = "sum" /\ call[c].disturbed => call[c].raced
    /\ call[c].pc \in {"look", "pop"} /\ ledger[LedgerOf(c)] = <<>> => call[c].raced
    /\ call[c].pc = "crashed" => call[c].raced

\* A group has let the call pass, going by the checks in P.
Lets(a, phase, g, P) ==
    LET passes == {i \in DOMAIN Groups[a][g].policies : <<phase, g, i>> \in P} IN
    IF Groups[a][g].mode = "all" THEN passes = DOMAIN Groups[a][g].policies
    ELSE passes # {}

AllLet(a, phase, P) == \A g \in DOMAIN Groups[a] : Lets(a, phase, g, P)

\* Outside of a dry run: the groups before the current one have let the call
\* pass, and of an AllOf the policies before the current one.
Enforced(k, P) ==
    k.dry = 0 =>
    /\ k.pc \in Asking =>
          /\ \A g \in DOMAIN Groups[k.agent] : g < k.g => Lets(k.agent, k.phase, g, P)
          /\ Group(k).mode = "all" =>
                \A j \in DOMAIN Group(k).policies : j < k.i => <<k.phase, k.g, j>> \in P
          /\ k.phase = "post" => AllLet(k.agent, "pre", P)
    /\ k.pc \in {"agent", "returned"} => AllLet(k.agent, "pre", P)
    /\ k.pc = "returned" => AllLet(k.agent, "post", P)

\* The group redacts whatever comes to it.
Redactor(group) ==
    group.mode = "all" /\ \E i \in DOMAIN group.policies : group.policies[i].kind = "redact"

\* Outside of a dry run: what a redacting group has had is clean, and stays so.
Cleaned(k) ==
    k.dry = 0 =>
    /\ k.pc \in Asking /\ k.phase = "post" =>
          /\ Clean(k.result) => Clean(k.current)
          /\ \A g \in DOMAIN Groups[k.agent] :
                g < k.g /\ Redactor(Groups[k.agent][g]) => Clean(k.result)
          /\ Group(k).mode = "all" =>
                \A j \in DOMAIN Group(k).policies :
                   j < k.i /\ Group(k).policies[j].kind = "redact" =>
                      k.replaced /\ Clean(k.current)
    /\ k.pc = "returned" =>
          \A g \in DOMAIN Groups[k.agent] : Redactor(Groups[k.agent][g]) => Clean(k.result)

Settled(c) == found[c] - IF call[c].pc = "violated" THEN 1 ELSE 0

\* The violations of a call, where they went.
Accounts(c) ==
    /\ call[c].pc = "violated" => found[c] > 0
    /\ call[c].id = 0 => found[c] = 0 /\ told[c] = 0 /\ call[c].pc = "idle"
    /\ \A b \in 1..MaxBlocks :
          Occurrences(b, call[c].id) = IF b = call[c].dry THEN Settled(c) ELSE 0
    /\ told[c] = IF call[c].dry = 0 THEN Settled(c) ELSE 0
    /\ call[c].dry = 0 /\ Settled(c) > 0 => call[c].pc \in {"violation", "error"}
    /\ call[c].pc = "violation" => call[c].dry = 0 /\ Settled(c) = 1
    /\ \A d \in Ctx \ {c} : call[c].id # 0 => call[d].id # call[c].id

Inv ==
    /\ Asleep
    /\ \A c \in Ctx : /\ Nested(c) /\ Raced(c) /\ Enforced(call[c], passed[c])
                      /\ Cleaned(call[c]) /\ Accounts(c)

------------------------------------------------------------------------------
(* What a step of a call does                                              *)

\* A check goes on at its place.
Stays(k, o) ==
    SamePlace(k, o) /\ k.pc \in Asking \ {"violated"} /\ o.pc \in Asking \ {"violated"}

\* A hook returned, and may have redacted the result.
Accepted(k, o) ==
    \E j \in CallState :
       /\ \/ j = k /\ Policy(k).kind # "redact"
          \/ RedactsOK(k, j)
       /\ PlaceOK(j) /\ AcceptsOK(j, o)

\* Policies without this hook, from the current one up to n, were passed over.
Skipped(k, o, n) ==
    /\ \A j \in k.i..(n - 1) : Group(k).policies[j].kind \notin Hook[k.phase]
    /\ \/ NextOK(k, o) /\ (Group(k).mode = "any" \/ n = Len(Group(k).policies) + 1)
       \/ Further(k, n, o) /\ Group(k).mode = "all"

\* The agent returned.
Answered(k, o) ==
    /\ k.pc = "agent" /\ SameCall(k, o) /\ PlaceOK(o) /\ o.pc = "check"
    /\ o.phase = "post" /\ o.g = 1 /\ o.i = 1 /\ o.current = o.result

\* The wrapper was left by an exception.
Left(k, o) == SameCall(k, o) /\ o.pc \in {"error", "crashed", "violation"}

\* A violation was noted.
Noted(k, o) ==
    k.pc = "violated" /\ k.dry # 0 /\ NextOK([k EXCEPT !.replaced = FALSE], o)

\* The way of one call, whose checks passed were P and then Q.
Turn(k, o, P, Q) ==
    \/ Stays(k, o) /\ Q = P
    \/ /\ k.pc \in Asking /\ Accepted(k, o)
       /\ Q = P \cup {<<k.phase, k.g, k.i>>}
    \/ /\ k.pc \in Asking
       /\ \E n \in (k.i + 1)..(Len(Group(k).policies) + 1) :
             /\ Skipped(k, o, n)
             /\ Q = P \cup {<<k.phase, k.g, j>> : j \in k.i..(n - 1)}
    \/ k.pc \in Asking /\ RejectsOK(k, o) /\ Q = P
    \/ Answered(k, o) /\ Q = P
    \/ Left(k, o) /\ Q = P
    \/ Noted(k, o) /\ Q = P

\* After a group that let the call pass, those before the place have.
LEMMA NextEnforced ==
    ASSUME NEW k \in CallState, PlaceOK(k), k.pc \in Asking, NEW o, NextOK(k, o), NEW P,
           k.dry = 0,
           \A g \in DOMAIN Groups[k.agent] : g <= k.g => Lets(k.agent, k.phase, g, P),
           k.phase = "post" => AllLet(k.agent, "pre", P)
    PROVE  Enforced(o, P)
<1>1. /\ k.agent \in Agent /\ Len(Groups[k.agent]) \in Nat /\ k.g \in Nat
      /\ DOMAIN Groups[k.agent] = 1..Len(Groups[k.agent]) /\ k.phase \in {"pre", "post"}
      /\ o.agent = k.agent
  BY Place DEF CallState, NextOK, SameCall
<1> HIDE DEF Lets
<1>2. CASE k.g < Len(Groups[k.agent]) /\ o.pc = "check" /\ o.phase = k.phase
           /\ o.g = k.g + 1 /\ o.i = 1
  <2>1. \A g \in DOMAIN Groups[k.agent] : g < o.g => Lets(k.agent, k.phase, g, P)
    BY <1>1, <1>2
  <2>2. \A j \in DOMAIN Group(o).policies : ~(j < o.i)
    <3>1. o \in CallState /\ PlaceOK(o) /\ o.pc \in Asking
      BY <1>2 DEF NextOK, SameCall, Asking
    <3> QED
      BY <1>2, <3>1, Place
  <2> QED
    BY <1>1, <1>2, <2>1, <2>2 DEF Enforced, Asking, Metering
<1>3. CASE k.g = Len(Groups[k.agent]) /\ k.phase = "pre" /\ o.pc = "agent"
  BY <1>1, <1>3 DEF Enforced, Asking, Metering, AllLet
<1>4. CASE k.g = Len(Groups[k.agent]) /\ k.phase = "post" /\ o.pc = "returned"
  BY <1>1, <1>4 DEF Enforced, Asking, Metering, AllLet
<1> QED
  BY <1>2, <1>3, <1>4 DEF NextOK

\* More checks passed, no group lost.
LEMMA LetsMore ==
    ASSUME NEW a, NEW phase, NEW g, NEW P, NEW Q, P \subseteq Q, Lets(a, phase, g, P)
    PROVE  Lets(a, phase, g, Q)
BY DEF Lets

\* A call goes on to the next policy only if the one before let it pass.
LEMMA TurnEnforced ==
    ASSUME NEW k \in CallState, PlaceOK(k), k.pc \notin Ended, NEW o, NEW P, NEW Q,
           Turn(k, o, P, Q), Enforced(k, P)
    PROVE  Enforced(o, Q)
<1> SUFFICES ASSUME o.dry = 0  PROVE Enforced(o, Q)
  BY DEF Enforced
<1> HIDE DEF Lets
<1>1. CASE Stays(k, o) /\ Q = P
  <2>1. o.agent = k.agent /\ o.phase = k.phase /\ o.g = k.g /\ o.i = k.i /\ o.dry = k.dry
        /\ Group(o) = Group(k)
    BY <1>1 DEF Stays, SamePlace, SameCall, Group
  <2> QED
    BY <1>1, <2>1 DEF Enforced, Stays, Asking, Metering
<1>2. ASSUME k.pc \in Asking, k.dry = 0
      PROVE  /\ \A g \in DOMAIN Groups[k.agent] : g < k.g => Lets(k.agent, k.phase, g, P)
             /\ Group(k).mode = "all" =>
                   \A j \in DOMAIN Group(k).policies : j < k.i => <<k.phase, k.g, j>> \in P
             /\ k.phase = "post" => AllLet(k.agent, "pre", P)
  BY <1>2 DEF Enforced
<1>3. ASSUME k.pc \in Asking, k.dry = 0,
             NEW n \in (k.i + 1)..(Len(Group(k).policies) + 1),
             Q = P \cup {<<k.phase, k.g, j>> : j \in k.i..(n - 1)}
      PROVE  /\ P \subseteq Q
             /\ \A g \in DOMAIN Groups[k.agent] : g < k.g => Lets(k.agent, k.phase, g, Q)
             /\ k.phase = "post" => AllLet(k.agent, "pre", Q)
             /\ Group(k).mode = "all" =>
                   \A j \in DOMAIN Group(k).policies : j < n => <<k.phase, k.g, j>> \in Q
             /\ Group(k).mode = "any" \/ n = Len(Group(k).policies) + 1 =>
                   Lets(k.agent, k.phase, k.g, Q)
  <2>1. P \subseteq Q
    BY <1>3
  <2>2. /\ \A g \in DOMAIN Groups[k.agent] : g < k.g => Lets(k.agent, k.phase, g, Q)
        /\ k.phase = "post" => AllLet(k.agent, "pre", Q)
    BY <1>2, <1>3, <2>1, LetsMore DEF AllLet
  <2>3. Group(k).mode = "all" =>
                   \A j \in DOMAIN Group(k).policies : j < n => <<k.phase, k.g, j>> \in Q
    <3> SUFFICES ASSUME Group(k).mode = "all", NEW j \in DOMAIN Group(k).policies, j < n
                 PROVE  <<k.phase, k.g, j>> \in Q
      OBVIOUS
    <3>1. j \in Nat /\ k.i \in Nat /\ n \in Nat
      BY <1>3, Place
    <3>2. j < k.i \/ j \in k.i..(n - 1)
      BY <3>1
    <3> QED
      BY <1>2, <1>3, <2>1, <3>2
  <2>4. ASSUME Group(k).mode = "any" \/ n = Len(Group(k).policies) + 1
        PROVE  Lets(k.agent, k.phase, k.g, Q)
    <3>1. CASE Group(k).mode = "any"
      <4>1. k.i \in k.i..(n - 1) /\ k.i \in DOMAIN Group(k).policies
        BY <1>3, Place
      <4>2. <<k.phase, k.g, k.i>> \in Q
        BY <1>3, <4>1
      <4> QED
        BY <1>3, <3>1, <4>1, <4>2, Place DEF Lets
    <3>2. CASE Group(k).mode # "any" /\ n = Len(Group(k).policies) + 1
      <4>1. Group(k).mode = "all" /\ \A j \in DOMAIN Group(k).policies : j < n
        BY <1>3, <3>2, Place
      <4>2. \A j \in DOMAIN Group(k).policies : <<k.phase, k.g, j>> \in Q
        BY <2>3, <4>1
      <4> QED
        BY <1>3, <4>1, <4>2, Place DEF Lets
    <3> QED
      BY <2>4, <3>1, <3>2
  <2> QED
    BY <2>1, <2>2, <2>3, <2>4
<1>4. ASSUME k.pc \in Asking, NEW n \in (k.i + 1)..(Len(Group(k).policies) + 1),
             Q = P \cup {<<k.phase, k.g, j>> : j \in k.i..(n - 1)},
             NEW q \in CallState, PlaceOK(q), q.pc = k.pc, SameCall(k, q), q.phase = k.phase,
             q.g = k.g, Group(q) = Group(k),
             \/ NextOK(q, o) /\ (Group(k).mode = "any" \/ n = Len(Group(k).policies) + 1)
             \/ Further(q, n, o) /\ Group(k).mode = "all"
      PROVE  Enforced(o, Q)
  <2>0. q.agent = k.agent /\ k.dry = 0
    BY <1>4 DEF SameCall, NextOK, Further
  <2>1. CASE NextOK(q, o) /\ (Group(k).mode = "any" \/ n = Len(Group(k).policies) + 1)
    <3>1. \A g \in DOMAIN Groups[q.agent] : g <= q.g => Lets(q.agent, q.phase, g, Q)
      <4> SUFFICES ASSUME NEW g \in DOMAIN Groups[k.agent], g <= k.g
                   PROVE  Lets(k.agent, k.phase, g, Q)
        BY <1>4, <2>0
      <4>1. g < k.g \/ g = k.g
        BY <1>4, Place
      <4> QED
        BY <1>3, <1>4, <2>0, <2>1, <4>1
    <3>2. q.phase = "post" => AllLet(q.agent, "pre", Q)
      BY <1>3, <1>4, <2>0
    <3>3. q.dry = 0
      BY <1>4, <2>0 DEF SameCall
    <3> QED
      BY <1>4, <2>1, <3>1, <3>2, <3>3, NextEnforced
  <2>2. CASE Further(q, n, o) /\ Group(k).mode = "all"
    <3>1. /\ o.agent = k.agent /\ o.phase = k.phase /\ o.g = k.g /\ o.i = n /\ o.pc = "check"
          /\ Group(o) = Group(k)
      BY <1>4, <2>0, <2>2 DEF Further, SameCall, Group
    <3>2. /\ \A g \in DOMAIN Groups[k.agent] : g < k.g => Lets(k.agent, k.phase, g, Q)
          /\ k.phase = "post" => AllLet(k.agent, "pre", Q)
          /\ \A j \in DOMAIN Group(k).policies : j < n => <<k.phase, k.g, j>> \in Q
      BY <1>3, <1>4, <2>0, <2>2
    <3> QED
      BY <3>1, <3>2 DEF Enforced, Asking, Metering
  <2> QED
    BY <1>4, <2>1, <2>2
<1>5. CASE k.pc \in Asking /\ Accepted(k, o) /\ Q = P \cup {<<k.phase, k.g, k.i>>}
  <2>1. PICK q \in CallState : (q = k \/ RedactsOK(k, q)) /\ PlaceOK(q) /\ AcceptsOK(q, o)
    BY <1>5 DEF Accepted
  <2>2. /\ q.pc = k.pc /\ SameCall(k, q) /\ q.phase = k.phase /\ q.g = k.g /\ q.i = k.i
        /\ Group(q) = Group(k)
    BY <2>1 DEF RedactsOK, SameCall
  <2>3. PICK n : n = k.i + 1
    OBVIOUS
  <2>4. n \in (k.i + 1)..(Len(Group(k).policies) + 1) /\ k.i \in Nat
    BY <1>5, <2>3, Place
  <2>5. Q = P \cup {<<k.phase, k.g, j>> : j \in k.i..(n - 1)}
    <3>1. k.i..(n - 1) = {k.i}
      BY <2>3, <2>4
    <3> QED
      BY <1>5, <3>1
  <2>6. \/ NextOK(q, o) /\ (Group(k).mode = "any" \/ n = Len(Group(k).policies) + 1)
        \/ Further(q, n, o) /\ Group(k).mode = "all"
    BY <2>1, <2>2, <2>3 DEF AcceptsOK
  <2> QED
    BY <1>4, <1>5, <2>1, <2>2, <2>4, <2>5, <2>6
<1>6. CASE /\ k.pc \in Asking
           /\ \E n \in (k.i + 1)..(Len(Group(k).policies) + 1) :
                 Skipped(k, o, n) /\ Q = P \cup {<<k.phase, k.g, j>> : j \in k.i..(n - 1)}
  <2>1. SameCall(k, k)
    BY DEF SameCall
  <2> QED
    BY <1>4, <1>6, <2>1 DEF Skipped
<1>7. CASE k.pc \in Asking /\ RejectsOK(k, o) /\ Q = P
  <2>1. CASE SamePlace(k, o) /\ o.pc = "violated"
    <3>1. o.agent = k.agent /\ o.phase = k.phase /\ o.g = k.g /\ o.i = k.i /\ k.dry = 0
          /\ Group(o) = Group(k)
      BY <2>1 DEF SamePlace, SameCall, Group
    <3> QED
      BY <1>2, <1>7, <2>1, <3>1 DEF Enforced, Asking, Metering
  <2>2. CASE Further(k, k.i + 1, o) /\ Group(k).mode = "any"
    <3>1. o.agent = k.agent /\ o.phase = k.phase /\ o.g = k.g /\ k.dry = 0 /\ o.pc = "check"
          /\ Group(o) = Group(k)
      BY <2>2 DEF Further, SameCall, Group
    <3> QED
      BY <1>2, <1>7, <2>2, <3>1 DEF Enforced, Asking, Metering
  <2> QED
    BY <1>7, <2>1, <2>2 DEF RejectsOK
<1>8. CASE Answered(k, o) /\ Q = P
  <2>1. o.agent = k.agent /\ o.phase = "post" /\ o.g = 1 /\ o.i = 1 /\ k.dry = 0
        /\ o.pc = "check" /\ k.pc = "agent" /\ o \in CallState /\ PlaceOK(o)
    BY <1>8 DEF Answered, SameCall
  <2>2. /\ \A g \in DOMAIN Groups[o.agent] : ~(g < 1)
        /\ \A j \in DOMAIN Group(o).policies : ~(j < 1)
    BY <2>1, Place DEF Asking
  <2>3. AllLet(k.agent, "pre", P)
    BY <2>1 DEF Enforced
  <2> QED
    BY <1>8, <2>1, <2>2, <2>3 DEF Enforced, Asking, Metering
<1>9. CASE Left(k, o) /\ Q = P
  BY <1>9 DEF Left, Enforced, Asking, Metering
<1>10. CASE Noted(k, o)
  <2> DEFINE q == [k EXCEPT !.replaced = FALSE]
  <2>1. q.dry = k.dry
    BY DEF CallState
  <2> QED
    BY <1>10, <2>1 DEF Noted, NextOK, SameCall
<1> QED
  BY <1>1, <1>5, <1>6, <1>7, <1>8, <1>9, <1>10 DEF Turn

\* After a group, what redacting groups had so far is clean.
LEMMA NextCleaned ==
    ASSUME NEW k \in CallState, PlaceOK(k), k.pc \in Asking, NEW o, NextOK(k, o), k.dry = 0,
           k.phase = "post" =>
              \A g \in DOMAIN Groups[k.agent] :
                 g <= k.g /\ Redactor(Groups[k.agent][g]) => Clean(Final(k))
    PROVE  Cleaned(o)
<1>1. /\ k.agent \in Agent /\ Len(Groups[k.agent]) \in Nat /\ k.g \in Nat
      /\ DOMAIN Groups[k.agent] = 1..Len(Groups[k.agent]) /\ k.phase \in {"pre", "post"}
      /\ o.agent = k.agent
  BY Place DEF CallState, NextOK, SameCall
<1> HIDE DEF Redactor
<1>2. CASE k.g < Len(Groups[k.agent]) /\ o.pc = "check" /\ o.phase = k.phase
           /\ o.g = k.g + 1 /\ o.i = 1 /\ o.result = Final(k) /\ o.current = Final(k)
  <2>1. o.phase = "post" => \A g \in DOMAIN Groups[o.agent] :
           g < o.g /\ Redactor(Groups[o.agent][g]) => Clean(o.result)
    BY <1>1, <1>2
  <2>2. \A j \in DOMAIN Group(o).policies : ~(j < o.i)
    <3>1. o \in CallState /\ PlaceOK(o) /\ o.pc \in Asking
      BY <1>2 DEF NextOK, SameCall, Asking
    <3> QED
      BY <1>2, <3>1, Place
  <2> QED
    BY <1>1, <1>2, <2>1, <2>2 DEF Cleaned, Asking, Metering
<1>3. CASE k.phase = "pre" /\ o.pc = "agent"
  BY <1>1, <1>3 DEF Cleaned, Asking, Metering
<1>4. CASE k.g = Len(Groups[k.agent]) /\ k.phase = "post" /\ o.pc = "returned"
           /\ o.result = Final(k)
  BY <1>1, <1>4 DEF Cleaned, Asking, Metering
<1> QED
  BY <1>2, <1>3, <1>4 DEF NextOK

\* What is replaced is clean once a redacting group is behind, or its redacting
\* policy.
LEMMA TurnCleaned ==
    ASSUME NEW k \in CallState, PlaceOK(k), k.pc \notin Ended, NEW o, NEW P, NEW Q,
           Turn(k, o, P, Q), Cleaned(k)
    PROVE  Cleaned(o)
<1> SUFFICES ASSUME o.dry = 0  PROVE Cleaned(o)
  BY DEF Cleaned
<1> HIDE DEF Redactor
<1>1. CASE Stays(k, o)
  <2>1. /\ o.agent = k.agent /\ o.phase = k.phase /\ o.g = k.g /\ o.i = k.i /\ o.dry = k.dry
        /\ Group(o) = Group(k) /\ o.result = k.result /\ o.current = k.current
        /\ (o.replaced <=> k.replaced)
    BY <1>1 DEF Stays, SamePlace, SameCall, Group
  <2> QED
    BY <1>1, <2>1 DEF Cleaned, Stays, Asking, Metering
<1>2. ASSUME k.pc \in Asking, k.dry = 0, k.phase = "post"
      PROVE  /\ Clean(k.result) => Clean(k.current)
             /\ \A g \in DOMAIN Groups[k.agent] :
                   g < k.g /\ Redactor(Groups[k.agent][g]) => Clean(k.result)
             /\ Group(k).mode = "all" =>
                   \A j \in DOMAIN Group(k).policies :
                      j < k.i /\ Group(k).policies[j].kind = "redact" =>
                         k.replaced /\ Clean(k.current)
  BY <1>2 DEF Cleaned
<1>3. ASSUME k.pc \in Asking, NEW n \in (k.i + 1)..(Len(Group(k).policies) + 1),
             NEW q \in CallState, PlaceOK(q), q.pc = k.pc, SameCall(k, q), q.phase = k.phase,
             q.g = k.g, Group(q) = Group(k),
             k.phase = "post" =>
                \/ /\ q = k
                   /\ \A j \in k.i..(n - 1) : Group(k).policies[j].kind # "redact"
                \/ q.replaced /\ Clean(q.current) /\ (q.result = k.result \/ Clean(q.result)),
             \/ NextOK(q, o) /\ (Group(k).mode = "any" \/ n = Len(Group(k).policies) + 1)
             \/ Further(q, n, o) /\ Group(k).mode = "all"
      PROVE  Cleaned(o)
  <2>0. q.agent = k.agent /\ k.dry = 0 /\ q.dry = 0
    BY <1>3 DEF SameCall, NextOK, Further
  <2>1. ASSUME k.phase = "post"
        PROVE  /\ Clean(q.result) => Clean(q.current)
               /\ \A g \in DOMAIN Groups[k.agent] :
                     g < k.g /\ Redactor(Groups[k.agent][g]) => Clean(q.result)
               /\ Group(k).mode = "all" =>
                     \A j \in DOMAIN Group(k).policies :
                        j < n /\ Group(k).policies[j].kind = "redact" =>
                           q.replaced /\ Clean(q.current)
    <3>1. CASE q = k /\ \A j \in k.i..(n - 1) : Group(k).policies[j].kind # "redact"
      <4>1. \A j \in DOMAIN Group(k).policies : j < n => j < k.i \/ j \in k.i..(n - 1)
        BY <1>3, Place
      <4> QED
        BY <1>2, <1>3, <2>0, <2>1, <3>1, <4>1
    <3>2. CASE q.replaced /\ Clean(q.current) /\ (q.result = k.result \/ Clean(q.result))
      BY <1>2, <1>3, <2>0, <2>1, <3>2
    <3> QED
      BY <1>3, <2>1, <3>1, <3>2
  <2>2. CASE NextOK(q, o) /\ (Group(k).mode = "any" \/ n = Len(Group(k).policies) + 1)
    <3>1. ASSUME k.phase = "post", NEW g \in DOMAIN Groups[k.agent], g <= k.g,
                 Redactor(Groups[k.agent][g])
          PROVE  Clean(Final(q))
      <4>1. CASE g < k.g
        BY <2>1, <3>1, <4>1 DEF Final
      <4>2. CASE g = k.g
        <5>1. Group(k) = Groups[k.agent][g]
          BY <4>2 DEF Group
        <5>2. PICK i \in DOMAIN Group(k).policies : Group(k).policies[i].kind = "redact"
          BY <3>1, <5>1 DEF Redactor
        <5>3. Group(k).mode = "all" /\ n = Len(Group(k).policies) + 1
          BY <2>2, <3>1, <5>1 DEF Redactor
        <5>4. i < n
          BY <1>3, <5>3, Place
        <5> QED
          BY <2>1, <3>1, <5>2, <5>3, <5>4 DEF Final
      <4>3. g < k.g \/ g = k.g
        BY <1>3, <3>1, Place
      <4> QED
        BY <4>1, <4>2, <4>3
    <3>2. q.phase = "post" =>
             \A g \in DOMAIN Groups[q.agent] :
                g <= q.g /\ Redactor(Groups[q.agent][g]) => Clean(Final(q))
      BY <1>3, <2>0, <3>1
    <3> QED
      BY <1>3, <2>0, <2>2, <3>2, NextCleaned
  <2>3. CASE Further(q, n, o) /\ Group(k).mode = "all"
    <3>1. /\ o.agent = k.agent /\ o.phase = k.phase /\ o.g = k.g /\ o.i = n /\ o.pc = "check"
          /\ Group(o) = Group(k) /\ o.result = q.result /\ o.current = q.current
          /\ (o.replaced <=> q.replaced)
      BY <1>3, <2>0, <2>3 DEF Further, SameCall, Group
    <3> QED
      BY <2>1, <3>1 DEF Cleaned, Asking, Metering
  <2> QED
    BY <1>3, <2>2, <2>3
<1>4. CASE k.pc \in Asking /\ Accepted(k, o)
  <2>1. PICK q \in CallState : /\ \/ q = k /\ Policy(k).kind # "redact"
                                  \/ RedactsOK(k, q)
                               /\ PlaceOK(q) /\ AcceptsOK(q, o)
    BY <1>4 DEF Accepted
  <2>2. /\ q.pc = k.pc /\ SameCall(k, q) /\ q.phase = k.phase /\ q.g = k.g /\ q.i = k.i
        /\ Group(q) = Group(k)
    BY <2>1 DEF RedactsOK, SameCall
  <2>3. PICK n : n = k.i + 1
    OBVIOUS
  <2>4. n \in (k.i + 1)..(Len(Group(k).policies) + 1) /\ k.i..(n - 1) = {k.i}
    BY <1>4, <2>3, Place
  <2>5. \/ /\ q = k
           /\ \A j \in k.i..(n - 1) : Group(k).policies[j].kind # "redact"
        \/ q.replaced /\ Clean(q.current) /\ (q.result = k.result \/ Clean(q.result))
    BY <1>4, <2>1, <2>4, Place DEF RedactsOK
  <2>6. \/ NextOK(q, o) /\ (Group(k).mode = "any" \/ n = Len(Group(k).policies) + 1)
        \/ Further(q, n, o) /\ Group(k).mode = "all"
    BY <2>1, <2>2, <2>3 DEF AcceptsOK
  <2> QED
    BY <1>3, <1>4, <2>1, <2>2, <2>4, <2>5, <2>6
<1>5. ASSUME k.pc \in Asking, NEW n \in (k.i + 1)..(Len(Group(k).policies) + 1),
             Skipped(k, o, n)
      PROVE  Cleaned(o)
  <2>1. SameCall(k, k)
    BY DEF SameCall
  <2>2. k.phase = "post" => \A j \in k.i..(n - 1) : Group(k).policies[j].kind # "redact"
    BY <1>5 DEF Skipped, Hook
  <2>3. \/ NextOK(k, o) /\ (Group(k).mode = "any" \/ n = Len(Group(k).policies) + 1)
        \/ Further(k, n, o) /\ Group(k).mode = "all"
    BY <1>5 DEF Skipped
  <2> QED
    BY <1>3, <1>5, <2>1, <2>2, <2>3
<1>6. CASE k.pc \in Asking /\ RejectsOK(k, o)
  <2>1. CASE SamePlace(k, o) /\ o.pc = "violated"
    <3>1. /\ o.agent = k.agent /\ o.phase = k.phase /\ o.g = k.g /\ o.i = k.i /\ k.dry = 0
          /\ Group(o) = Group(k) /\ o.result = k.result /\ o.current = k.current
          /\ (o.replaced <=> k.replaced)
      BY <2>1 DEF SamePlace, SameCall, Group
    <3> QED
      BY <1>2, <1>6, <2>1, <3>1 DEF Cleaned, Asking, Metering
  <2>2. CASE Further(k, k.i + 1, o) /\ Group(k).mode = "any"
    <3>1. /\ o.agent = k.agent /\ o.phase = k.phase /\ o.g = k.g /\ k.dry = 0 /\ o.pc = "check"
          /\ Group(o) = Group(k) /\ o.result = k.result /\ o.current = k.current
      BY <2>2 DEF Further, SameCall, Group
    <3> QED
      BY <1>2, <1>6, <2>2, <3>1 DEF Cleaned, Asking, Metering
  <2> QED
    BY <1>6, <2>1, <2>2 DEF RejectsOK
<1>7. CASE Answered(k, o)
  <2>1. o.phase = "post" /\ o.g = 1 /\ o.i = 1 /\ o.current = o.result
        /\ o.pc = "check" /\ o \in CallState /\ PlaceOK(o)
    BY <1>7 DEF Answered, SameCall
  <2>2. /\ \A g \in DOMAIN Groups[o.agent] : ~(g < 1)
        /\ \A j \in DOMAIN Group(o).policies : ~(j < 1)
    BY <2>1, Place DEF Asking
  <2> QED
    BY <2>1, <2>2 DEF Cleaned, Asking, Metering
<1>8. CASE Left(k, o)
  BY <1>8 DEF Left, Cleaned, Asking, Metering
<1>9. CASE Noted(k, o)
  <2> DEFINE q == [k EXCEPT !.replaced = FALSE]
  <2>1. q.dry = k.dry
    BY DEF CallState
  <2> QED
    BY <1>9, <2>1 DEF Noted, NextOK, SameCall
<1> QED
  BY <1>1, <1>4, <1>5, <1>6, <1>7, <1>8, <1>9 DEF Turn

------------------------------------------------------------------------------
(* The steps of a call, one by one                                         *)

\* The locals of a call that another call's step may touch.
Almost(k, o) ==
    /\ SamePlace(k, o) /\ o.pc = k.pc /\ o.w = k.w /\ o.now = k.now /\ (k.raced => o.raced)
    /\ k.pc \notin Metering => o = k

\* One call goes on.
CallMoves(c) ==
    /\ call[c].pc \notin Ended /\ call' \in [Ctx -> CallState]
    /\ SameCall(call[c], call'[c]) /\ PlaceOK(call'[c])
    /\ \A d \in Ctx \ {c} : Almost(call[d], call'[d])
    /\ UNCHANGED <<clock, dryVars, calls>>

\* What becomes of violations.
Tallies(c) ==
    \/ /\ call[c].pc # "violated" /\ call'[c].pc \notin {"violated", "violation"}
       /\ UNCHANGED <<found, told, recorded>>
    \/ /\ call[c].pc # "violated" /\ call'[c].pc = "violated"
       /\ found' = [found EXCEPT ![c] = found[c] + 1] /\ UNCHANGED <<told, recorded>>
    \/ /\ call[c].pc = "violated" /\ call'[c].pc \notin {"violated", "violation"}
       /\ buffer[c] # 0
       /\ recorded' = [recorded EXCEPT ![buffer[c]] = Append(@, call[c].id)]
       /\ UNCHANGED <<found, told>>
    \/ /\ call[c].pc = "violated" /\ call'[c].pc \in {"error", "violation"}
       /\ buffer[c] = 0
       /\ told' = [told EXCEPT ![c] = told[c] + 1] /\ UNCHANGED <<found, recorded>>

Works(c) ==
    /\ CallMoves(c)
    /\ Turn(call[c], call'[c], passed[c], passed'[c])
    /\ passed' = [passed EXCEPT ![c] = passed'[c]]
    /\ Tallies(c)

\* The step does not leave the call in a check of a deque, nor crash it.
Unmetered(c) == call'[c].pc \notin Metering \cup {"crashed"}

\* What is known of a call.
LEMMA CallFacts ==
    ASSUME TypeOK, NEW c \in Ctx
    PROVE  /\ call[c] \in CallState /\ PlaceOK(call[c]) /\ call[c].id <= calls
           /\ call[c].id \in Nat /\ calls \in Nat
BY Constants DEF TypeOK, CallsOK, CallState

\* Only the locals of this call change.
LEMMA StepMoves ==
    ASSUME TypeOK, NEW c \in Ctx, call[c].pc \notin Ended, NEW o \in CallState,
           SameCall(call[c], o), PlaceOK(o), Step(c, o)
    PROVE  CallMoves(c) /\ call'[c] = o
<1>1. call \in [Ctx -> CallState]
  BY DEF TypeOK, CallsOK
<1>2. call' = [call EXCEPT ![c] = o]
  BY DEF Step
<1>3. call' \in [Ctx -> CallState] /\ call'[c] = o /\ \A d \in Ctx \ {c} : call'[d] = call[d]
  BY <1>1, <1>2
<1>4. \A d \in Ctx : Almost(call[d], call[d])
  BY <1>1 DEF Almost, SamePlace, SameCall
<1> QED
  BY <1>3, <1>4 DEF CallMoves, Step

\* Others iterate over the deque it changes.
LEMMA DisturbMoves ==
    ASSUME TypeOK, NEW c \in Ctx, call[c].pc \notin Ended, NEW o \in CallState,
           SameCall(call[c], o), PlaceOK(o), NEW l, call' = Disturbing(c, l, o),
           UNCHANGED <<clock, dryVars, calls>>
    PROVE  CallMoves(c) /\ call'[c] = o
<1>1. call \in [Ctx -> CallState]
  BY DEF TypeOK, CallsOK
<1>2. call' = [d \in Ctx |-> IF d = c THEN o
                 ELSE IF call[d].pc = "sum" /\ LedgerOf(d) = l
                 THEN [call[d] EXCEPT !.disturbed = TRUE]
                 ELSE call[d]]
  BY DEF Disturbing
<1>3. ASSUME NEW d \in Ctx \ {c}
      PROVE  call'[d] \in CallState /\ Almost(call[d], call'[d])
  <2>1. CASE call'[d] = call[d]
    BY <1>1, <2>1 DEF Almost, SamePlace, SameCall
  <2>2. CASE call[d].pc = "sum" /\ call'[d] = [call[d] EXCEPT !.disturbed = TRUE]
    <3>1. call[d] \in CallState
      BY <1>1
    <3> QED
      BY <2>2, <3>1 DEF Almost, SamePlace, SameCall, CallState, Metering
  <2> QED
    BY <1>2, <2>1, <2>2
<1>4. call'[c] = o /\ call' \in [Ctx -> CallState]
  BY <1>2, <1>3
<1> QED
  BY <1>3, <1>4 DEF CallMoves

\* A check of a deque is still at its place.
LEMMA MeterOn ==
    ASSUME NEW k \in CallState, PlaceOK(k), k.pc \in Metering \cup {"check"},
           k.pc = "check" => Meters(k, Policy(k)), NEW o, SamePlace(k, o), o.pc \in Metering,
           o.w > 0,
           o.pc = "sum" => o.w \in DOMAIN Policy(k).windows
    PROVE  Stays(k, o) /\ PlaceOK(o) /\ SameCall(k, o)
<1>1. Policy(o) = Policy(k) /\ Group(o) = Group(k) /\ o.agent = k.agent /\ o.g = k.g /\ o.i = k.i
      /\ o.current = k.current /\ SameCall(k, o)
  BY DEF SamePlace, SameCall, Policy, Group
<1>2. k.pc \in Asking /\ o.pc \in Asking /\ o.pc \notin {"agent", "returned"}
  BY DEF Asking, Metering
<1> QED
  BY <1>1, <1>2 DEF Stays, PlaceOK, Meters, Asking, Metering

\* A policy of another kind is passed over.
LEMMA NothingWorks ==
    ASSUME TypeOK, NEW c \in Ctx, CheckNothing(c)
    PROVE  Works(c) /\ Unmetered(c)
<1>0. PICK k : k = call[c]
  OBVIOUS
<1>1. k \in CallState /\ PlaceOK(k) /\ k.pc = "check" /\ k.pc \in Asking
  BY <1>0, CallFacts DEF CheckNothing, Checking, Asking
<1> DEFINE len == Len(Group(k).policies)
           hooked == {j \in (k.i + 1)..len : Group(k).policies[j].kind \in Hook[k.phase]}
           next == IF hooked = {} THEN len + 1 ELSE Min(hooked)
           o == IF Group(k).mode = "any" \/ hooked = {} THEN NextGroup(k)
                ELSE [k EXCEPT !.i = next]
<1>2. /\ Policy(k).kind \notin Hook[k.phase]
      /\ Step(c, o)
      /\ passed' = [passed EXCEPT ![c] = @ \cup {<<k.phase, k.g, j>> : j \in k.i..(next - 1)}]
      /\ UNCHANGED <<found, told, recorded>>
  BY <1>0 DEF CheckNothing, Hooked
<1>3. k.i \in Nat /\ len \in Nat /\ k.i \in 1..len /\ Policy(k) = Group(k).policies[k.i]
  BY <1>1, Place
<1>4. /\ next \in (k.i + 1)..(len + 1)
      /\ \A j \in k.i..(next - 1) : Group(k).policies[j].kind \notin Hook[k.phase]
      /\ hooked = {} => next = len + 1
      /\ hooked # {} => next \in (k.i + 1)..len
  <2>1. hooked \subseteq Nat /\ hooked \subseteq (k.i + 1)..len
    BY <1>3
  <2>2. CASE hooked = {}
    <3>1. next = len + 1
      BY <2>2
    <3>2. \A j \in (k.i + 1)..len : Group(k).policies[j].kind \notin Hook[k.phase]
      BY <2>2
    <3> HIDE DEF next, hooked
    <3>3. \A j \in k.i..(next - 1) : j = k.i \/ j \in (k.i + 1)..len
      BY <1>3, <3>1
    <3> QED
      BY <1>2, <1>3, <2>2, <3>1, <3>2, <3>3
  <2>3. CASE hooked # {}
    <3>1. next \in hooked /\ \A y \in hooked : next <= y
      BY <2>1, <2>3, MinFacts
    <3>2. \A j \in (k.i + 1)..len :
             j \notin hooked => Group(k).policies[j].kind \notin Hook[k.phase]
      OBVIOUS
    <3> HIDE DEF next, hooked
    <3>3. \A j \in k.i..(next - 1) : j = k.i \/ (j \in (k.i + 1)..len /\ j \notin hooked)
      BY <1>3, <2>1, <3>1
    <3>4. next \in (k.i + 1)..len /\ next \in (k.i + 1)..(len + 1)
      BY <1>3, <2>1, <3>1
    <3> QED
      BY <1>2, <1>3, <2>3, <3>2, <3>3, <3>4
  <2> QED
    BY <2>2, <2>3
<1> HIDE DEF next
<1>5. /\ o \in CallState /\ SameCall(k, o) /\ PlaceOK(o) /\ o.pc \notin {"violated", "violation"}
      /\ Skipped(k, o, next) /\ o.pc \in {"check", "agent", "returned"}
  <2>1. CASE Group(k).mode = "any" \/ hooked = {}
    <3>1. NextOK(k, NextGroup(k))
      BY <1>1, NextGroupFields
    <3>2. o = NextGroup(k)
      BY <2>1
    <3> HIDE DEF o, hooked
    <3> QED
      BY <1>4, <2>1, <3>1, <3>2 DEF NextOK, SameCall, Skipped
  <2>2. CASE ~(Group(k).mode = "any" \/ hooked = {})
    <3>1. o = [k EXCEPT !.i = next] /\ hooked # {} /\ Group(k).mode = "all"
      BY <1>1, <2>2, Place
    <3> HIDE DEF o, hooked
    <3>2. next \in Nat /\ next \in DOMAIN Group(k).policies
      BY <1>1, <1>3, <1>4, <3>1, Place
    <3>3. /\ o \in CallState /\ o.pc = "check" /\ o.agent = k.agent /\ o.id = k.id
          /\ o.dry = k.dry /\ o.phase = k.phase /\ o.g = k.g /\ o.i = next
          /\ (o.replaced <=> k.replaced) /\ o.result = k.result /\ o.current = k.current
          /\ o.raced = k.raced /\ o.disturbed = k.disturbed
      BY <1>1, <3>1, <3>2 DEF CallState
    <3>4. PlaceOK(o)
      BY <1>1, <3>2, <3>3, Place DEF PlaceOK, Group, Asking, Metering
    <3>5. Further(k, next, o)
      BY <3>3, <3>4 DEF Further, SameCall
    <3> QED
      BY <1>4, <3>1, <3>3, <3>4, <3>5 DEF Skipped, SameCall
  <2> QED
    BY <2>1, <2>2
<1> HIDE DEF o
<1>6. CallMoves(c) /\ call'[c] = o
  BY <1>0, <1>1, <1>2, <1>5, StepMoves DEF Ended
<1>7. /\ passed'[c] = passed[c] \cup {<<k.phase, k.g, j>> : j \in k.i..(next - 1)}
      /\ passed' = [passed EXCEPT ![c] = passed'[c]]
  BY <1>2 DEF TypeOK, RecordsOK
<1>8. Turn(k, o, passed[c], passed'[c])
  BY <1>1, <1>4, <1>5, <1>7 DEF Turn
<1>9. Tallies(c)
  BY <1>0, <1>1, <1>2, <1>5, <1>6 DEF Tallies
<1> QED
  BY <1>0, <1>5, <1>6, <1>7, <1>8, <1>9 DEF Works, Unmetered, Metering

\* A hook let the call pass.
LEMMA AcceptWorks ==
    ASSUME TypeOK, NEW c \in Ctx, call[c].pc \in Asking \ {"violated"},
           NEW q \in CallState, PlaceOK(q), q.pc = call[c].pc,
           \/ q = call[c] /\ Policy(call[c]).kind # "redact"
           \/ RedactsOK(call[c], q),
           CallMoves(c), call'[c] = Accepts(q),
           passed' = [passed EXCEPT ![c] = @ \cup {<<call[c].phase, call[c].g, call[c].i>>}],
           UNCHANGED <<found, told, recorded>>
    PROVE  Works(c) /\ Unmetered(c)
<1>0. PICK k : k = call[c]
  OBVIOUS
<1>1. k \in CallState /\ PlaceOK(k) /\ k.pc \in Asking /\ k.pc # "violated"
  BY <1>0, CallFacts
<1>2. AcceptsOK(q, Accepts(q))
  BY <1>0, <1>1, AcceptsFields
<1>3. Accepted(k, Accepts(q))
  BY <1>0, <1>2 DEF Accepted
<1>4. Accepts(q).pc \in {"check", "agent", "returned"}
  BY <1>2 DEF AcceptsOK, NextOK, Further
<1>5. /\ passed'[c] = passed[c] \cup {<<k.phase, k.g, k.i>>}
      /\ passed' = [passed EXCEPT ![c] = passed'[c]]
  BY <1>0 DEF TypeOK, RecordsOK
<1>6. Turn(call[c], call'[c], passed[c], passed'[c])
  BY <1>0, <1>1, <1>3, <1>5 DEF Turn
<1>7. Tallies(c)
  BY <1>0, <1>1, <1>4 DEF Tallies
<1> QED
  BY <1>4, <1>5, <1>6, <1>7 DEF Works, Unmetered, Metering

\* A hook raised a violation.
LEMMA FailWorks ==
    ASSUME TypeOK, NEW c \in Ctx, call[c].pc \in Asking \ {"violated"},
           Fails(c, call[c]), UNCHANGED <<passed, told, recorded>>
    PROVE  Works(c) /\ Unmetered(c)
<1>0. PICK k : k = call[c]
  OBVIOUS
<1>1. k \in CallState /\ PlaceOK(k) /\ k.pc \in Asking /\ k.pc # "violated"
  BY <1>0, CallFacts
<1>2. RejectsOK(k, Rejects(k))
  BY <1>1, RejectsFields
<1> DEFINE o == Rejects(k)
<1>3. Step(c, o) /\ found' = [found EXCEPT ![c] = IF o.pc = "violated" THEN @ + 1 ELSE @]
  BY <1>0 DEF Fails
<1>4. o \in CallState /\ SameCall(k, o) /\ PlaceOK(o) /\ o.pc \in {"check", "violated"}
  BY <1>2 DEF RejectsOK, SamePlace, SameCall, Further
<1> HIDE DEF o
<1>5. CallMoves(c) /\ call'[c] = o
  BY <1>0, <1>1, <1>3, <1>4, StepMoves DEF Ended, Asking, Metering
<1>6. Turn(k, o, passed[c], passed'[c])
  BY <1>1, <1>2 DEF Turn, o
<1>7. Tallies(c)
  <2>1. CASE o.pc = "violated"
    BY <1>0, <1>1, <1>3, <1>5, <2>1 DEF Tallies
  <2>2. CASE o.pc = "check"
    <3>1. found' = found
      BY <1>3, <2>2 DEF TypeOK, RecordsOK
    <3> QED
      BY <1>0, <1>1, <1>5, <2>2, <3>1 DEF Tallies
  <2> QED
    BY <1>4, <2>1, <2>2
<1> QED
  BY <1>0, <1>4, <1>5, <1>6, <1>7 DEF Works, Unmetered, Metering, TypeOK, RecordsOK

\* A step that leaves the checks and violations of the call alone.
LEMMA StayWorks ==
    ASSUME TypeOK, NEW c \in Ctx, call[c].pc # "violated", CallMoves(c),
           call'[c].pc \notin {"violated", "violation"},
           Stays(call[c], call'[c]) \/ Left(call[c], call'[c]) \/ Answered(call[c], call'[c]),
           UNCHANGED <<passed, found, told, recorded>>
    PROVE  Works(c)
<1>1. Turn(call[c], call'[c], passed[c], passed'[c])
  BY DEF Turn
<1> QED
  BY <1>1 DEF Works, Tallies, TypeOK, RecordsOK

\* A policy is asked.
LEMMA CheckWorks ==
    ASSUME TypeOK, NEW c \in Ctx, CheckAtOnce(c)
    PROVE  Works(c) /\ Unmetered(c)
<1>0. PICK k : k = call[c]
  OBVIOUS
<1>1. k \in CallState /\ PlaceOK(k) /\ k.pc = "check" /\ k.pc \in Asking
  BY <1>0, CallFacts DEF CheckAtOnce, Checking, Asking
<1>2. CASE Fails(c, k) /\ UNCHANGED <<passed, told, recorded>>
  BY <1>0, <1>1, <1>2, FailWorks
<1>3. ASSUME Passes(c, IF Policy(k).kind = "redact" THEN Redacts(k) ELSE k),
             UNCHANGED <<found, told, recorded>>
      PROVE  Works(c) /\ Unmetered(c)
  <2> DEFINE q == IF Policy(k).kind = "redact" THEN Redacts(k) ELSE k
  <2>1. RedactsOK(k, Redacts(k)) /\ PlaceOK(Redacts(k))
    BY <1>1, RedactsFields
  <2>2. /\ q \in CallState /\ PlaceOK(q) /\ q.pc = k.pc
        /\ \/ q = k /\ Policy(k).kind # "redact"
           \/ RedactsOK(k, q)
    BY <1>1, <2>1 DEF RedactsOK, SameCall
  <2>3. /\ Step(c, Accepts(q))
        /\ passed' = [passed EXCEPT ![c] = @ \cup {<<q.phase, q.g, q.i>>}]
    BY <1>3 DEF Passes
  <2> HIDE DEF q
  <2>4. SameCall(k, q) /\ q.phase = k.phase /\ q.g = k.g /\ q.i = k.i
    BY <1>1, <2>2 DEF RedactsOK, SameCall
  <2>5. AcceptsOK(q, Accepts(q))
    BY <1>1, <2>2, AcceptsFields
  <2> DEFINE o == Accepts(q)
  <2>6. o \in CallState /\ SameCall(q, o) /\ PlaceOK(o)
    BY <2>5 DEF AcceptsOK, NextOK, Further, SameCall
  <2> HIDE DEF o
  <2>7. SameCall(k, o) /\ Step(c, o)
    BY <2>3, <2>4, <2>6 DEF SameCall, o
  <2>8. CallMoves(c) /\ call'[c] = o
    BY <1>0, <1>1, <2>6, <2>7, StepMoves DEF Ended
  <2>9. passed' = [passed EXCEPT ![c] = @ \cup {<<k.phase, k.g, k.i>>}]
    BY <2>3, <2>4
  <2> QED
    BY <1>0, <1>1, <1>3, <2>2, <2>8, <2>9, AcceptWorks DEF o
<1> QED
  BY <1>0, <1>2, <1>3 DEF CheckAtOnce

\* The agent returns or raises.
LEMMA AgentWorks ==
    ASSUME TypeOK, NEW c \in Ctx, AgentRaises(c) \/ \E r \in Result : AgentReturns(c, r)
    PROVE  Works(c) /\ Unmetered(c)
<1>0. PICK k : k = call[c]
  OBVIOUS
<1>1. /\ k \in CallState /\ PlaceOK(k) /\ k.pc = "agent" /\ k.agent \in Agent
      /\ UNCHANGED <<passed, found, told, recorded>>
  BY <1>0, CallFacts DEF AgentRaises, AgentReturns, PlaceOK, pastVars, callPast
<1>2. CASE AgentRaises(c)
  <2> DEFINE o == Ends(k, "error")
  <2>1. EndsOK(k, "error", o)
    BY <1>1, EndsFields DEF Ended
  <2>2. Step(c, o)
    BY <1>0, <1>2 DEF AgentRaises
  <2> HIDE DEF o
  <2>3. o \in CallState /\ o.pc = "error" /\ SameCall(k, o) /\ PlaceOK(o)
    BY <2>1 DEF EndsOK, SameCall, PlaceOK, Asking, Metering
  <2>4. CallMoves(c) /\ call'[c] = o
    BY <1>0, <1>1, <2>2, <2>3, StepMoves DEF Ended
  <2> QED
    BY <1>0, <1>1, <2>3, <2>4, StayWorks DEF Left, Unmetered, Metering
<1>3. ASSUME NEW r \in Result, AgentReturns(c, r)
      PROVE  Works(c) /\ Unmetered(c)
  <2> DEFINE o == [k EXCEPT !.pc = "check", !.phase = "post", !.g = 1, !.i = 1,
                            !.result = r, !.current = r]
  <2>1. Step(c, o)
    BY <1>0, <1>3 DEF AgentReturns
  <2>2. /\ o \in CallState /\ o.pc = "check" /\ o.agent = k.agent /\ o.id = k.id
        /\ o.dry = k.dry /\ o.phase = "post" /\ o.g = 1 /\ o.i = 1
        /\ o.result = r /\ o.current = r
    BY <1>1, Constants DEF CallState, Asking, Metering
  <2> HIDE DEF o
  <2>3. 1 \in DOMAIN Groups[k.agent] /\ 1 \in DOMAIN Groups[k.agent][1].policies
    BY <1>1, GroupFacts, PolicyFacts
  <2>4. PlaceOK(o)
    BY <1>1, <2>2, <2>3 DEF PlaceOK, Group, Asking, Metering
  <2>5. SameCall(k, o) /\ Answered(k, o)
    BY <1>1, <2>2, <2>4 DEF Answered, SameCall
  <2>6. CallMoves(c) /\ call'[c] = o
    BY <1>0, <1>1, <2>1, <2>2, <2>4, <2>5, StepMoves DEF Ended
  <2> QED
    BY <1>0, <1>1, <2>2, <2>5, <2>6, StayWorks DEF Unmetered, Metering
<1> QED
  BY <1>2, <1>3

\* A call in a check of a deque.
LEMMA MeterFacts ==
    ASSUME TypeOK, NEW c \in Ctx, call[c].pc \in Metering
    PROVE  /\ call[c] \in CallState /\ PlaceOK(call[c]) /\ call[c].pc \in Asking
           /\ call[c].pc \notin Ended \cup {"violated", "violation", "check"}
           /\ Meters(call[c], Policy(call[c])) /\ LedgerOf(c) \in Ledger
           /\ Policy(call[c]).windows \in Seq(Window) /\ Policy(call[c]).kind # "redact"
           /\ call[c].w > 0 /\ call[c].w \in Nat
<1>1. /\ call[c] \in CallState /\ PlaceOK(call[c]) /\ call[c].pc \in Asking
      /\ call[c].pc \notin Ended \cup {"violated", "violation", "check"}
  BY CallFacts DEF Asking, Metering, Ended
<1>2. Meters(call[c], Policy(call[c])) /\ PolicyOK(Policy(call[c]))
  BY <1>1, Place DEF PlaceOK
<1>3. call[c].w > 0 /\ call[c].w \in Nat
  BY <1>1 DEF PlaceOK, CallState
<1> QED
  BY <1>1, <1>2, <1>3 DEF PolicyOK, Meters, LedgerOf

\* A check crashes on its deque.
LEMMA CrashWorks ==
    ASSUME TypeOK, NEW c \in Ctx, call[c].pc \in Metering, Step(c, Ends(call[c], "crashed")),
           UNCHANGED <<passed, found, told, recorded>>
    PROVE  Works(c) /\ call'[c].pc = "crashed" /\ (call'[c].raced <=> call[c].raced)
<1>0. PICK k : k = call[c]
  OBVIOUS
<1> DEFINE o == Ends(k, "crashed")
<1>1. EndsOK(k, "crashed", o)
  BY <1>0, MeterFacts, EndsFields DEF Ended
<1>2. Step(c, o)
  BY <1>0
<1> HIDE DEF o
<1>3. o \in CallState /\ o.pc = "crashed" /\ SameCall(k, o) /\ PlaceOK(o) /\ (o.raced <=> k.raced)
  BY <1>1 DEF EndsOK, SameCall, PlaceOK, Asking, Metering
<1>4. CallMoves(c) /\ call'[c] = o
  BY <1>0, <1>2, <1>3, MeterFacts, StepMoves
<1>5. Left(k, o)
  BY <1>3 DEF Left
<1>6. Works(c)
  BY <1>0, <1>3, <1>4, <1>5, MeterFacts, StayWorks
<1> QED
  BY <1>0, <1>3, <1>4, <1>6

\* A check of a deque at its place.
Metered(k, pc, w, disturbed) == [k EXCEPT !.pc = pc, !.w = w, !.disturbed = disturbed]

\* It goes on at that place.
MeteredOK(k, pc, w, disturbed, o) ==
    /\ o \in CallState /\ o.pc = pc /\ Stays(k, o) /\ PlaceOK(o)
    /\ SameCall(k, o) /\ (o.raced <=> k.raced) /\ (o.disturbed <=> disturbed)
    /\ o.w = w /\ o.now = k.now

\* The step of a check of a deque that stays at its place.
LEMMA MeterStep ==
    ASSUME NEW k \in CallState, PlaceOK(k), k.pc \in Metering,
           NEW pc \in Metering, NEW w \in Nat, w > 0, NEW disturbed \in BOOLEAN,
           pc = "sum" => w \in DOMAIN Policy(k).windows
    PROVE  MeteredOK(k, pc, w, disturbed, Metered(k, pc, w, disturbed))
<1> DEFINE o == Metered(k, pc, w, disturbed)
<1>1. pc \in Ended \cup Metering \cup {"check", "agent", "violated"}
  OBVIOUS
<1>2. /\ o \in CallState /\ o.pc = pc /\ o.w = w /\ o.disturbed = disturbed
      /\ SamePlace(k, o) /\ (o.raced <=> k.raced) /\ o.now = k.now
  BY <1>1 DEF CallState, SamePlace, SameCall, Metered
<1> HIDE DEF o
<1>3. o.pc \in Metering /\ o.w > 0 /\ (o.pc = "sum" => o.w \in DOMAIN Policy(k).windows)
  BY <1>2
<1>4. k.pc \in Metering \cup {"check"} /\ k.pc # "check"
  BY DEF Metering
<1>5. Stays(k, o) /\ PlaceOK(o) /\ SameCall(k, o)
  BY <1>2, <1>3, <1>4, MeterOn
<1> QED
  BY <1>2, <1>5 DEF MeteredOK, o

\* The check finds what it looks for.
Trims(c) ==
    \/ TestEmpty(c)
    \/ TestOldest(c) /\ ledger[LedgerOf(c)] # <<>>
    \/ BeginSum(c)

\* The deque is trimmed.
LEMMA TrimWorks ==
    ASSUME TypeOK, NEW c \in Ctx, Trims(c)
    PROVE  /\ Works(c) /\ Stays(call[c], call'[c]) /\ (call'[c].raced <=> call[c].raced)
           /\ call'[c].pc \in Metering
           /\ call'[c].pc = "sum" => ~call'[c].disturbed
           /\ call'[c].pc \in {"look", "pop"} => ledger[LedgerOf(c)] # <<>>
<1>0. PICK k : k = call[c]
  OBVIOUS
<1>1. /\ k \in CallState /\ k.pc \in Metering /\ k.w \in Nat /\ k.w > 0 /\ k.disturbed \in BOOLEAN
      /\ UNCHANGED <<passed, found, told, recorded>>
  <2>1. k.pc \in Metering /\ UNCHANGED <<passed, found, told, recorded>>
    BY <1>0 DEF Trims, TestEmpty, TestOldest, BeginSum, Metering, pastVars, callPast
  <2> QED
    BY <1>0, <2>1, MeterFacts DEF CallState
<1>2. \E pc \in Metering, disturbed \in BOOLEAN :
         /\ Step(c, Metered(k, pc, k.w, disturbed))
         /\ pc = "sum" => k.w \in DOMAIN Policy(k).windows /\ ~disturbed
         /\ pc \in {"look", "pop"} => ledger[Policy(k).ledger] # <<>>
  <2>0. CASE TestEmpty(c)
    <3> DEFINE pc == IF ledger[Policy(k).ledger] = <<>> THEN "meter" ELSE "look"
    <3>1. Step(c, Goes(k, pc))
      BY <1>0, <2>0 DEF TestEmpty, LedgerOf
    <3>2. /\ pc \in Metering /\ pc # "sum"
          /\ pc \in {"look", "pop"} => ledger[Policy(k).ledger] # <<>>
      BY DEF Metering
    <3> HIDE DEF pc
    <3>3. Goes(k, pc) = Metered(k, pc, k.w, k.disturbed)
      BY <1>1 DEF Goes, Metered, CallState
    <3> QED
      BY <1>1, <3>1, <3>2, <3>3
  <2>1. CASE TestOldest(c) /\ ledger[LedgerOf(c)] # <<>>
    <3> DEFINE pc == IF Old(k, Policy(k), Head(ledger[Policy(k).ledger])) THEN "pop" ELSE "meter"
    <3>1. Step(c, Goes(k, pc)) /\ ledger[Policy(k).ledger] # <<>>
      BY <1>0, <2>1 DEF TestOldest, LedgerOf
    <3>2. pc \in Metering /\ pc # "sum"
      BY DEF Metering
    <3> HIDE DEF pc
    <3>3. Goes(k, pc) = Metered(k, pc, k.w, k.disturbed)
      BY <1>1 DEF Goes, Metered, CallState
    <3> QED
      BY <1>1, <3>1, <3>2, <3>3
  <2>2. CASE BeginSum(c) /\ k.w > Len(Policy(k).windows)
    <3>1. Step(c, Goes(k, "charge"))
      BY <1>0, <2>2 DEF BeginSum
    <3>2. Goes(k, "charge") = Metered(k, "charge", k.w, k.disturbed)
      BY <1>1 DEF Goes, Metered, CallState
    <3>3. "charge" \in Metering
      BY DEF Metering
    <3> QED
      BY <1>1, <3>1, <3>2, <3>3
  <2>3. CASE BeginSum(c) /\ ~(k.w > Len(Policy(k).windows))
    <3>1. Step(c, [k EXCEPT !.pc = "sum", !.disturbed = FALSE])
      BY <1>0, <2>3 DEF BeginSum
    <3>2. [k EXCEPT !.pc = "sum", !.disturbed = FALSE] =
          Metered(k, "sum", k.w, FALSE)
      BY <1>1 DEF Metered, CallState
    <3>3. Policy(k).windows \in Seq(Window)
      BY <1>0, <1>1, MeterFacts
    <3>4. k.w \in DOMAIN Policy(k).windows
      BY <1>1, <2>3, <3>3
    <3>5. "sum" \in Metering
      BY DEF Metering
    <3> QED
      BY <3>1, <3>2, <3>4, <3>5
  <2> QED
    BY <2>0, <2>1, <2>2, <2>3 DEF Trims
<1>3. PICK pc \in Metering, disturbed \in BOOLEAN :
         /\ Step(c, Metered(k, pc, k.w, disturbed))
         /\ pc = "sum" => k.w \in DOMAIN Policy(k).windows /\ ~disturbed
         /\ pc \in {"look", "pop"} => ledger[Policy(k).ledger] # <<>>
  BY <1>2
<1>4. PICK o : o = Metered(k, pc, k.w, disturbed)
  OBVIOUS
<1>5. MeteredOK(k, pc, k.w, disturbed, o)
  <2>1. PlaceOK(k)
    BY <1>0, <1>1, MeterFacts
  <2> QED
    BY <1>1, <1>3, <1>4, <2>1, MeterStep
<1>6. CallMoves(c) /\ call'[c] = o
  <2>1. o \in CallState /\ SameCall(k, o) /\ PlaceOK(o) /\ Step(c, o)
    BY <1>3, <1>4, <1>5 DEF MeteredOK
  <2>2. call[c].pc \notin Ended
    BY <1>0, <1>1, MeterFacts
  <2> QED
    BY <1>0, <2>1, <2>2, StepMoves
<1>7. o.pc \notin {"violated", "violation"} /\ k.pc # "violated" /\ Stays(k, o)
  BY <1>1, <1>5 DEF MeteredOK, Metering
<1> QED
  BY <1>0, <1>1, <1>3, <1>5, <1>6, <1>7, StayWorks DEF MeteredOK, LedgerOf

\* The oldest charge is looked at, and there is none.
LEMMA LookWorks ==
    ASSUME TypeOK, NEW c \in Ctx, TestOldest(c), ledger[LedgerOf(c)] = <<>>
    PROVE  /\ call[c].pc = "look" /\ Works(c)
           /\ call'[c].pc = "crashed" /\ (call'[c].raced <=> call[c].raced)
<1>1. /\ call[c].pc = "look" /\ call[c].pc \in Metering
      /\ UNCHANGED <<passed, found, told, recorded>>
  BY DEF TestOldest, Metering, pastVars, callPast
<1>2. Step(c, Ends(call[c], "crashed"))
  BY DEF TestOldest, LedgerOf
<1> QED
  BY <1>1, <1>2, CrashWorks

\* The time is read, and those who use the same deque are raced.
LEMMA BeginWorks ==
    ASSUME TypeOK, NEW c \in Ctx, BeginMeter(c)
    PROVE  /\ Works(c) /\ SamePlace(call[c], call'[c]) /\ call'[c].pc \in Metering
           /\ call'[c].pc \notin {"sum", "look", "pop"}
           /\ \A d \in Ctx \ {c} :
                 /\ Uses(d, LedgerOf(c)) => call'[d].raced /\ call'[c].raced
                 /\ call'[d].disturbed = call[d].disturbed
<1>0. PICK k : k = call[c]
  OBVIOUS
<1>1. /\ k \in CallState /\ PlaceOK(k) /\ k.pc = "check" /\ Meters(k, Policy(k))
      /\ UNCHANGED <<clock, dryVars, calls, passed, found, told, recorded>>
  BY <1>0, CallFacts DEF BeginMeter, Checking, callPast
<1>2. PICK others : others = {d \in Ctx \ {c} : Uses(d, Policy(k).ledger)}
  OBVIOUS
<1> DEFINE pc == IF Policy(k).windows = <<>> THEN "meter" ELSE "trim"
           raced == others # {}
           o == [k EXCEPT !.pc = pc, !.now = clock, !.w = 1, !.raced = raced]
<1>3. call' = [d \in Ctx |-> IF d = c THEN o
                             ELSE IF d \in others THEN [call[d] EXCEPT !.raced = TRUE]
                             ELSE call[d]]
  BY <1>0, <1>2 DEF BeginMeter
<1>4. pc \in {"meter", "trim"} /\ raced \in BOOLEAN /\ clock \in Nat
  BY Constants DEF TypeOK, LedgersOK
<1> HIDE DEF pc, raced
<1>5. /\ o \in CallState /\ o.pc = pc /\ o.w = 1 /\ o.raced = raced /\ SamePlace(k, o)
  BY <1>1, <1>4 DEF CallState, Metering, SamePlace, SameCall
<1> HIDE DEF o
<1>6. Stays(k, o) /\ PlaceOK(o) /\ SameCall(k, o)
  <2>1. o.pc \in Metering /\ o.w > 0 /\ o.pc # "sum" /\ k.pc \in Metering \cup {"check"}
    BY <1>1, <1>4, <1>5 DEF Metering
  <2> QED
    BY <1>1, <1>5, <2>1, MeterOn
<1>7. ASSUME NEW d \in Ctx \ {c}
      PROVE  /\ call'[d] \in CallState /\ Almost(call[d], call'[d])
             /\ call'[d].disturbed = call[d].disturbed
             /\ d \in others => call'[d].raced
  <2>1. call[d] \in CallState
    BY CallFacts
  <2>2. CASE d \notin others
    <3>1. call'[d] = call[d]
      BY <1>3, <2>2
    <3> QED
      BY <2>1, <2>2, <3>1 DEF Almost, SamePlace, SameCall
  <2>3. CASE d \in others
    <3>1. call'[d] = [call[d] EXCEPT !.raced = TRUE] /\ call[d].pc \in Metering
      BY <1>2, <1>3, <2>3 DEF Uses
    <3> QED
      BY <2>1, <3>1 DEF CallState, Almost, SamePlace, SameCall
  <2> QED
    BY <2>2, <2>3
<1>8. call'[c] = o /\ call' \in [Ctx -> CallState]
  BY <1>3, <1>5, <1>7
<1>9. CallMoves(c)
  BY <1>0, <1>1, <1>6, <1>7, <1>8 DEF CallMoves, Ended
<1>10. Works(c)
  BY <1>0, <1>1, <1>4, <1>5, <1>6, <1>8, <1>9, StayWorks
<1>11. \A d \in Ctx \ {c} : Uses(d, LedgerOf(c)) => call'[d].raced /\ call'[c].raced
  BY <1>0, <1>2, <1>5, <1>7, <1>8 DEF LedgerOf, raced
<1> QED
  BY <1>0, <1>4, <1>5, <1>7, <1>8, <1>10, <1>11 DEF Metering

\* The oldest charge is thrown away, or there is none.
LEMMA PopWorks ==
    ASSUME TypeOK, NEW c \in Ctx, PopOldest(c)
    PROVE  /\ Works(c)
           /\ IF ledger[LedgerOf(c)] = <<>>
              THEN call'[c].pc = "crashed" /\ (call'[c].raced <=> call[c].raced)
              ELSE call'[c].pc = "trim" /\ Stays(call[c], call'[c])
                   /\ (call'[c].raced <=> call[c].raced)
<1>0. PICK k : k = call[c]
  OBVIOUS
<1>1. k.pc = "pop" /\ k.pc \in Metering /\ UNCHANGED <<passed, found, told, recorded>>
  BY <1>0 DEF PopOldest, Metering, callPast
<1>2. CASE ledger[LedgerOf(c)] = <<>>
  <2>1. Step(c, Ends(call[c], "crashed"))
    BY <1>2 DEF PopOldest
  <2>2. Works(c) /\ call'[c].pc = "crashed" /\ (call'[c].raced <=> call[c].raced)
    BY <1>0, <1>1, <2>1, CrashWorks
  <2> QED
    BY <1>2, <2>2
<1>3. CASE ledger[LedgerOf(c)] # <<>>
  <2>1. PICK o : o = Goes(k, "trim")
    OBVIOUS
  <2>2. call' = Disturbing(c, LedgerOf(c), o) /\ UNCHANGED <<clock, dryVars, calls>>
    BY <1>0, <1>3, <2>1 DEF PopOldest
  <2>3. /\ k \in CallState /\ PlaceOK(k) /\ k.w > 0 /\ k.pc \in Metering \cup {"check"}
        /\ k.pc \notin Ended
    BY <1>0, <1>1, MeterFacts
  <2>4. /\ o \in CallState /\ o.pc = "trim" /\ o.w = k.w /\ SamePlace(k, o)
        /\ (o.raced <=> k.raced)
    BY <2>1, <2>3 DEF Goes, CallState, Metering, SamePlace, SameCall
  <2>5. Stays(k, o) /\ PlaceOK(o) /\ SameCall(k, o)
    <3>1. o.pc \in Metering /\ o.w > 0 /\ o.pc # "sum" /\ k.pc # "check"
      BY <1>1, <2>3, <2>4 DEF Metering
    <3> QED
      BY <2>3, <2>4, <3>1, MeterOn
  <2>6. CallMoves(c) /\ call'[c] = o
    BY <1>0, <2>2, <2>3, <2>4, <2>5, DisturbMoves
  <2>7. Works(c)
    BY <1>0, <1>1, <2>4, <2>5, <2>6, StayWorks
  <2> QED
    BY <1>0, <1>3, <2>4, <2>5, <2>6, <2>7
<1> QED
  BY <1>2, <1>3

\* The charges of a window are counted.
LEMMA SumWorks ==
    ASSUME TypeOK, NEW c \in Ctx, EndSum(c)
    PROVE  /\ Works(c)
           /\ call'[c].pc = "crashed" => call[c].disturbed /\ (call'[c].raced <=> call[c].raced)
           /\ call'[c].pc \in Metering =>
                 /\ call'[c].pc = "meter" /\ Stays(call[c], call'[c])
                 /\ call'[c].raced <=> call[c].raced
<1>0. PICK k : k = call[c]
  OBVIOUS
<1>1. /\ k.pc = "sum" /\ k.pc \in Metering /\ k \in CallState /\ PlaceOK(k) /\ k.pc \in Asking
      /\ k.w > 0 /\ k.w \in Nat /\ k.disturbed \in BOOLEAN /\ k.raced \in BOOLEAN
      /\ UNCHANGED <<passed, told, recorded>>
  <2>1. k.pc = "sum" /\ k.pc \in Metering /\ UNCHANGED <<passed, told, recorded>>
    BY <1>0 DEF EndSum, Metering
  <2> QED
    BY <1>0, <2>1, MeterFacts DEF CallState
<1>2. CASE k.disturbed /\ Step(c, Ends(k, "crashed")) /\ UNCHANGED found
  <2>1. Works(c) /\ call'[c].pc = "crashed" /\ (call'[c].raced <=> call[c].raced)
    BY <1>0, <1>1, <1>2, CrashWorks
  <2>2. call'[c].raced \in BOOLEAN
    BY <2>1 DEF Works, CallMoves, CallState
  <2> QED
    BY <1>0, <1>1, <1>2, <2>1, <2>2 DEF Metering
<1>3. CASE Fails(c, k)
  <2>1. Works(c)
    BY <1>0, <1>1, <1>3, FailWorks
  <2>2. call'[c] = Rejects(k)
    BY <1>3 DEF Fails, Step, TypeOK, CallsOK
  <2>3. RejectsOK(k, Rejects(k))
    BY <1>1, RejectsFields
  <2> QED
    BY <2>1, <2>2, <2>3 DEF RejectsOK, Further, Metering
<1>4. CASE Step(c, [k EXCEPT !.pc = "meter", !.w = @ + 1]) /\ UNCHANGED found
  <2>1. PICK o : o = Metered(k, "meter", k.w + 1, k.disturbed)
    OBVIOUS
  <2>2. [k EXCEPT !.pc = "meter", !.w = @ + 1] = o
    BY <1>1, <2>1 DEF Metered, CallState
  <2>3. k.w + 1 \in Nat /\ k.w + 1 > 0 /\ "meter" \in Metering /\ "meter" # "sum"
    BY <1>1 DEF Metering
  <2>4. MeteredOK(k, "meter", k.w + 1, k.disturbed, o)
    BY <1>1, <2>1, <2>3, MeterStep
  <2>5. CallMoves(c) /\ call'[c] = o
    BY <1>0, <1>1, <1>4, <2>2, <2>4, StepMoves, MeterFacts DEF MeteredOK
  <2>6. Stays(k, o) /\ o.pc = "meter" /\ (o.raced <=> k.raced)
    BY <2>4 DEF MeteredOK
  <2>7. Works(c)
    BY <1>0, <1>1, <1>4, <2>5, <2>6, StayWorks
  <2> QED
    BY <1>0, <2>5, <2>6, <2>7
<1> QED
  BY <1>0, <1>2, <1>3, <1>4 DEF EndSum

\* The call is charged.
LEMMA ChargeWorks ==
    ASSUME TypeOK, NEW c \in Ctx, Charge(c)
    PROVE  Works(c) /\ Unmetered(c)
<1>0. PICK k : k = call[c]
  OBVIOUS
<1>1. /\ k.pc = "charge" /\ k.pc \in Metering /\ UNCHANGED <<told, found, recorded>>
      /\ passed' = [passed EXCEPT ![c] = @ \cup {<<k.phase, k.g, k.i>>}]
  BY <1>0 DEF Charge, Metering
<1>2. /\ k \in CallState /\ PlaceOK(k) /\ k.pc \in Asking \ {"violated"} /\ k.pc \notin Ended
      /\ Policy(k).kind # "redact"
  BY <1>0, <1>1, MeterFacts
<1>3. AcceptsOK(k, Accepts(k))
  BY <1>2, AcceptsFields
<1>4. PICK o : o = Accepts(k)
  OBVIOUS
<1>5. o \in CallState /\ SameCall(k, o) /\ PlaceOK(o) /\ o.pc \in {"check", "agent", "returned"}
  BY <1>3, <1>4 DEF AcceptsOK, NextOK, Further, SameCall
<1>6. call' = Disturbing(c, Policy(k).ledger, o) /\ UNCHANGED <<clock, dryVars, calls>>
  BY <1>0, <1>4 DEF Charge
<1>7. CallMoves(c) /\ call'[c] = o
  <2>1. PICK l : l = Policy(k).ledger
    OBVIOUS
  <2> QED
    BY <1>0, <1>2, <1>5, <1>6, <2>1, DisturbMoves
<1>8. Works(c) /\ Unmetered(c)
  BY <1>0, <1>1, <1>2, <1>4, <1>7, AcceptWorks
<1> QED
  BY <1>8

\* A violation is noted in the buffer of the dry run.
LEMMA NoteWorks ==
    ASSUME TypeOK, NEW c \in Ctx, Nested(c), RecordViolation(c)
    PROVE  Works(c) /\ Unmetered(c)
<1>0. PICK k : k = call[c]
  OBVIOUS
<1>1. /\ k.pc = "violated" /\ buffer[c] # 0 /\ UNCHANGED <<passed, found, told>>
      /\ recorded' = [recorded EXCEPT ![buffer[c]] = Append(@, k.id)]
  BY <1>0 DEF RecordViolation, pastVars, callPast
<1>2. k \in CallState /\ PlaceOK(k) /\ k.pc \in Asking /\ k.pc \notin Ended /\ k.dry # 0
  BY <1>0, <1>1, CallFacts DEF Asking, Ended, Nested
<1>3. PICK q : q = [k EXCEPT !.replaced = FALSE]
  OBVIOUS
<1>4. /\ q \in CallState /\ q.pc = k.pc /\ q.agent = k.agent /\ q.g = k.g /\ q.i = k.i
      /\ SameCall(k, q)
  BY <1>2, <1>3 DEF CallState, SameCall
<1>5. PlaceOK(q) /\ q.pc \in Asking
  BY <1>1, <1>2, <1>4 DEF PlaceOK, Group, Asking, Metering
<1>6. NextOK(q, NextGroup(q))
  BY <1>4, <1>5, NextGroupFields
<1>7. PICK o : o = NextGroup(q)
  OBVIOUS
<1>8. /\ o \in CallState /\ SameCall(k, o) /\ PlaceOK(o) /\ Noted(k, o)
      /\ o.pc \in {"check", "agent", "returned"}
  BY <1>1, <1>2, <1>3, <1>4, <1>6, <1>7 DEF NextOK, SameCall, Noted
<1>9. Step(c, o)
  BY <1>0, <1>3, <1>7 DEF RecordViolation
<1>10. CallMoves(c) /\ call'[c] = o
  BY <1>0, <1>2, <1>8, <1>9, StepMoves
<1>11. Turn(k, o, passed[c], passed'[c])
  BY <1>1, <1>8 DEF Turn
<1>12. Tallies(c)
  BY <1>0, <1>1, <1>8, <1>10 DEF Tallies
<1> QED
  BY <1>0, <1>1, <1>8, <1>10, <1>11, <1>12 DEF Works, Unmetered, Metering, TypeOK, RecordsOK

\* A violation is escalated.
LEMMA EscalateWorks ==
    ASSUME TypeOK, NEW c \in Ctx, Escalate(c)
    PROVE  Works(c) /\ Unmetered(c)
<1>0. PICK k : k = call[c]
  OBVIOUS
<1>1. /\ k.pc = "violated" /\ buffer[c] = 0 /\ UNCHANGED <<passed, found, recorded>>
      /\ told' = [told EXCEPT ![c] = @ + 1]
  BY <1>0 DEF Escalate
<1>2. k \in CallState /\ k.pc \notin Ended
  BY <1>0, <1>1, CallFacts DEF Ended
<1>3. PICK pc \in {"error", "violation"} : Step(c, Ends(k, pc))
  BY <1>0 DEF Escalate, AfterHandler
<1>4. PICK o : o = Ends(k, pc)
  OBVIOUS
<1>5. EndsOK(k, pc, o)
  BY <1>2, <1>4, EndsFields DEF Ended
<1>6. /\ o \in CallState /\ SameCall(k, o) /\ PlaceOK(o) /\ o.pc = pc /\ Left(k, o)
  BY <1>5 DEF EndsOK, SameCall, PlaceOK, Left, Asking, Metering
<1>7. CallMoves(c) /\ call'[c] = o
  BY <1>0, <1>2, <1>3, <1>4, <1>6, StepMoves
<1>8. Turn(k, o, passed[c], passed'[c])
  BY <1>1, <1>6 DEF Turn
<1>9. Tallies(c)
  BY <1>0, <1>1, <1>6, <1>7 DEF Tallies
<1> QED
  BY <1>0, <1>1, <1>6, <1>7, <1>8, <1>9 DEF Works, Unmetered, Metering, TypeOK, RecordsOK

\* What each step of a call does.
LEMMA CallWorks ==
    ASSUME TypeOK, NEW c \in Ctx, Nested(c), CallStep(c)
    PROVE  Works(c)
BY NothingWorks, CheckWorks, AgentWorks, BeginWorks, TrimWorks, LookWorks, PopWorks, SumWorks,
   ChargeWorks, NoteWorks, EscalateWorks DEF CallStep, Trims

------------------------------------------------------------------------------
(* The types                                                               *)

\* The passed checks that Turn adds.
LEMMA TurnTypes ==
    ASSUME NEW k \in CallState, PlaceOK(k), NEW o, NEW P \in SUBSET ({"pre", "post"} \X Nat \X Nat),
           NEW Q, Turn(k, o, P, Q)
    PROVE  P \subseteq Q /\ Q \in SUBSET ({"pre", "post"} \X Nat \X Nat)
<1>1. k.phase \in {"pre", "post"} /\ k.g \in Nat /\ k.i \in Nat
  BY DEF CallState
<1>2. CASE Q = P
  BY <1>2
<1>3. CASE Q = P \cup {<<k.phase, k.g, k.i>>}
  BY <1>1, <1>3
<1>4. ASSUME k.pc \in Asking, NEW n \in (k.i + 1)..(Len(Group(k).policies) + 1),
             Q = P \cup {<<k.phase, k.g, j>> : j \in k.i..(n - 1)}
      PROVE  P \subseteq Q /\ Q \in SUBSET ({"pre", "post"} \X Nat \X Nat)
  <2>1. n \in Nat
    BY <1>1, <1>4, Place
  <2>2. \A j \in k.i..(n - 1) : j \in Nat
    BY <1>1, <2>1
  <2>3. {<<k.phase, k.g, j>> : j \in k.i..(n - 1)} \subseteq {"pre", "post"} \X Nat \X Nat
    BY <1>1, <2>2
  <2> QED
    BY <1>4, <2>3
<1> QED
  BY <1>2, <1>3, <1>4 DEF Turn

\* The calls keep their types.
LEMMA WorkTypes ==
    ASSUME TypeOK, NEW c \in Ctx, Works(c)
    PROVE  CallsOK' /\ DryOK' /\ RecordsOK'
<1>1. /\ call' \in [Ctx -> CallState] /\ call \in [Ctx -> CallState]
      /\ call[c].pc \notin Ended /\ SameCall(call[c], call'[c]) /\ PlaceOK(call'[c])
      /\ \A d \in Ctx \ {c} : Almost(call[d], call'[d])
      /\ calls' = calls /\ UNCHANGED dryVars
  BY DEF Works, CallMoves, TypeOK, CallsOK
<1>2. CallsOK'
  <2>1. ASSUME NEW d \in Ctx
        PROVE  /\ PlaceOK(call'[d]) /\ call'[d].id <= calls /\ call'[d].dry <= opened
               /\ call'[d].pc # "idle" => call'[d].id > 0
    <3>0. /\ call[d] \in CallState /\ PlaceOK(call[d]) /\ call[d].id <= calls
          /\ call[d].dry <= opened /\ (call[d].pc # "idle" => call[d].id > 0)
      BY <1>1 DEF TypeOK, CallsOK
    <3>1. CASE d = c
      BY <1>1, <3>0, <3>1 DEF SameCall, Ended
    <3>2. CASE d # c
      <4>1. /\ call'[d].id = call[d].id /\ call'[d].dry = call[d].dry /\ call'[d].pc = call[d].pc
            /\ SamePlace(call[d], call'[d]) /\ call'[d].w = call[d].w
            /\ (call[d].pc \notin Metering => call'[d] = call[d])
        BY <1>1, <3>2 DEF Almost, SamePlace, SameCall
      <4>2. CASE call[d].pc \in Metering
        <5>1. /\ call'[d].w > 0 /\ call[d].pc # "check" /\ call'[d].pc \in Metering
              /\ (call'[d].pc = "sum" => call'[d].w \in DOMAIN Policy(call[d]).windows)
              /\ call[d].pc \in Metering \cup {"check"}
          BY <3>0, <4>1, <4>2 DEF PlaceOK, Metering
        <5> QED
          BY <3>0, <4>1, <5>1, MeterOn
      <4>3. CASE call[d].pc \notin Metering
        BY <3>0, <4>1, <4>3
      <4> QED
        BY <3>0, <4>1, <4>2, <4>3
    <3> QED
      BY <3>1, <3>2
  <2> QED
    BY <1>1, <2>1 DEF TypeOK, CallsOK, dryVars
<1>3. DryOK'
  BY <1>1 DEF TypeOK, DryOK, dryVars
<1>4. /\ passed' \in [Ctx -> SUBSET ({"pre", "post"} \X Nat \X Nat)]
  <2>1. passed \in [Ctx -> SUBSET ({"pre", "post"} \X Nat \X Nat)]
    BY DEF TypeOK, RecordsOK
  <2>2. call[c] \in CallState /\ PlaceOK(call[c]) /\ Turn(call[c], call'[c], passed[c], passed'[c])
    BY CallFacts DEF Works
  <2>3. passed'[c] \in SUBSET ({"pre", "post"} \X Nat \X Nat)
    BY <2>1, <2>2, TurnTypes
  <2>4. passed' = [passed EXCEPT ![c] = passed'[c]]
    BY DEF Works
  <2>5. PICK Q : Q = passed'[c]
    OBVIOUS
  <2> QED
    BY <2>1, <2>3, <2>4, <2>5
<1>5. found' \in [Ctx -> Nat] /\ told' \in [Ctx -> Nat]
  BY DEF TypeOK, RecordsOK, Works, Tallies
<1>6. /\ recorded' \in [1..MaxBlocks -> Seq(1..MaxCalls)]
      /\ \A b \in 1..MaxBlocks : \A k \in DOMAIN recorded'[b] : recorded'[b][k] <= calls
  <2>0. /\ recorded \in [1..MaxBlocks -> Seq(1..MaxCalls)]
        /\ \A b \in 1..MaxBlocks : \A k \in DOMAIN recorded[b] : recorded[b][k] <= calls
    BY DEF TypeOK, RecordsOK
  <2>1. CASE recorded' = recorded
    BY <2>0, <2>1
  <2>2. CASE buffer[c] # 0 /\ recorded' = [recorded EXCEPT ![buffer[c]] = Append(@, call[c].id)]
    <3>1. PICK b, x : b = buffer[c] /\ x = call[c].id
      OBVIOUS
    <3>2. b \in 1..MaxBlocks
      BY <2>2, <3>1, Constants DEF TypeOK, DryOK
    <3>3. x \in 1..MaxCalls /\ x <= calls
      BY <1>1, <3>1, CallFacts, Constants DEF TypeOK, CallsOK, Ended
    <3>4. recorded' = [recorded EXCEPT ![b] = Append(recorded[b], x)] /\ recorded[b] \in Seq(1..MaxCalls)
      BY <2>0, <2>2, <3>1, <3>2
    <3>5. PICK s : s = Append(recorded[b], x)
      OBVIOUS
    <3>6. s \in Seq(1..MaxCalls) /\ \A k \in DOMAIN s : s[k] <= calls
      <4>1. /\ s \in Seq(1..MaxCalls) /\ Len(s) = Len(recorded[b]) + 1
            /\ \A k \in 1..Len(recorded[b]) : s[k] = recorded[b][k]
            /\ s[Len(recorded[b]) + 1] = x
        BY <3>3, <3>4, <3>5, AppendProperties
      <4>2. \A k \in 1..Len(recorded[b]) : recorded[b][k] <= calls
        BY <2>0, <3>2, <3>4
      <4>3. DOMAIN s = 1..(Len(recorded[b]) + 1) /\ Len(recorded[b]) \in Nat
        BY <3>4, <4>1
      <4>4. \A k \in DOMAIN s : k \in 1..Len(recorded[b]) \/ k = Len(recorded[b]) + 1
        BY <4>3
      <4> QED
        BY <3>3, <4>1, <4>2, <4>4
    <3>7. recorded' = [recorded EXCEPT ![b] = s]
      BY <3>4, <3>5
    <3> QED
      BY <2>0, <3>2, <3>6, <3>7
  <2> QED
    BY <2>1, <2>2 DEF Works, Tallies
<1> QED
  BY <1>1, <1>2, <1>3, <1>4, <1>5, <1>6 DEF RecordsOK

\* The deques keep their types.
LEMMA LedgerTypes ==
    ASSUME TypeOK, NEW c \in Ctx, CallStep(c), Works(c)
    PROVE  LedgersOK'
<1>0. clock' = clock /\ clock \in 0..MaxTime
  BY DEF Works, CallMoves, TypeOK, LedgersOK
<1>1. /\ ledger \in [Ledger -> Seq(Entry)] /\ charged \in [Ledger -> Seq(Entry)]
      /\ lost \in [Ledger -> Nat] /\ overlapped \subseteq Ledger
  BY DEF TypeOK, LedgersOK
<1>2. CASE UNCHANGED <<ledger, chargePast>>
  BY <1>0, <1>1, <1>2 DEF LedgersOK, chargePast
<1>3. CASE BeginMeter(c)
  <2>1. UNCHANGED <<ledger, charged, lost>> /\
        (overlapped' = overlapped \/ overlapped' = overlapped \cup {Policy(call[c]).ledger})
    BY <1>3 DEF BeginMeter
  <2>2. /\ call[c] \in CallState /\ PlaceOK(call[c]) /\ call[c].pc \in Asking
        /\ Meters(call[c], Policy(call[c]))
    BY <1>3, CallFacts DEF BeginMeter, Checking, Asking
  <2>3. Policy(call[c]).ledger \in Ledger
    BY <2>2, Place DEF PolicyOK, Meters
  <2> QED
    BY <1>0, <1>1, <2>1, <2>3 DEF LedgersOK
<1>4. CASE PopOldest(c)
  <2>0. LedgerOf(c) \in Ledger
    BY <1>4, MeterFacts DEF PopOldest, Metering
  <2>1. PICK l \in Ledger : l = LedgerOf(c)
    BY <2>0
  <2>2. CASE ledger[l] = <<>>
    BY <1>0, <1>1, <1>4, <2>1, <2>2 DEF PopOldest, LedgersOK
  <2>3. CASE ledger[l] # <<>>
    <3>1. Head(ledger[l]) \in Entry /\ Tail(ledger[l]) \in Seq(Entry)
      BY <1>1, <2>3
    <3>2. PICK s, n : s = Tail(ledger[l]) /\ n = lost[l] + Head(ledger[l]).amount
      OBVIOUS
    <3>3. s \in Seq(Entry) /\ n \in Nat
      BY <1>1, <3>1, <3>2 DEF Entry
    <3>4. /\ ledger' = [ledger EXCEPT ![l] = s] /\ UNCHANGED <<charged, overlapped>>
          /\ lost' = [lost EXCEPT ![l] = n] \/ lost' = lost
      BY <1>1, <1>4, <2>1, <2>3, <3>2 DEF PopOldest
    <3> QED
      BY <1>0, <1>1, <3>3, <3>4 DEF LedgersOK
  <2> QED
    BY <2>2, <2>3
<1>5. CASE Charge(c)
  <2>0. call[c].pc \in Metering
    BY <1>5 DEF Charge, Metering
  <2>1. PICK l \in Ledger : l = LedgerOf(c)
    BY <2>0, MeterFacts
  <2>2. PICK k, p : k = call[c] /\ p = Policy(k)
    OBVIOUS
  <2>3. k \in CallState /\ Meters(k, p)
    BY <2>0, <2>2, MeterFacts
  <2>4. PICK e : e = [at |-> k.now, amount |-> Amount(k, p)]
    OBVIOUS
  <2>5. Amount(k, p) \in Nat /\ k.now \in Int
    BY <2>3 DEF Meters, Amount, CallState, Outcome
  <2>6. e \in Entry
    BY <2>4, <2>5 DEF Entry
  <2>7. PICK s, t : s = Append(ledger[l], e) /\ t = Append(charged[l], e)
    OBVIOUS
  <2>8. s \in Seq(Entry) /\ t \in Seq(Entry)
    BY <1>1, <2>6, <2>7
  <2>9. /\ ledger' = [ledger EXCEPT ![l] = s] /\ charged' = [charged EXCEPT ![l] = t]
        /\ UNCHANGED <<lost, overlapped>>
    BY <1>1, <1>5, <2>1, <2>2, <2>4, <2>7 DEF Charge, LedgerOf
  <2> QED
    BY <1>0, <1>1, <2>8, <2>9 DEF LedgersOK
<1>6. CASE CheckNothing(c) \/ CheckAtOnce(c)
  BY <1>2, <1>6 DEF CheckNothing, CheckAtOnce
<1>7. CASE \/ TestEmpty(c) \/ TestOldest(c) \/ BeginSum(c) \/ AgentRaises(c) \/ RecordViolation(c)
           \/ \E r \in Result : AgentReturns(c, r)
  BY <1>2, <1>7 DEF TestEmpty, TestOldest, BeginSum, AgentRaises, AgentReturns, RecordViolation, pastVars
<1>8. CASE EndSum(c) \/ Escalate(c)
  BY <1>2, <1>8 DEF EndSum, Escalate
<1> QED
  BY <1>3, <1>4, <1>5, <1>6, <1>7, <1>8 DEF CallStep

------------------------------------------------------------------------------
(* The steps that are not of a call                                        *)

\* At the start.
LEMMA TypesAtStart ==
    ASSUME Init  PROVE TypeOK
<1>1. Unknown \in Outcome
  BY DEF Unknown, Outcome
<1>2. Idle \in CallState /\ PlaceOK(Idle) /\ Idle.id = 0 /\ Idle.dry = 0 /\ Idle.pc = "idle"
  BY <1>1 DEF Idle, CallState, PlaceOK, Ended, Asking, Metering
<1>3. /\ call = [d \in Ctx |-> Idle] /\ calls = 0 /\ opened = 0
  BY DEF Init
<1> HIDE DEF Idle
<1>4. CallsOK
  <2>1. call \in [Ctx -> CallState]
    BY <1>2, <1>3
  <2>2. \A d \in Ctx : call[d] = Idle
    BY <1>3
  <2>3. calls \in 0..MaxCalls
    BY <1>3, Constants
  <2> QED
    BY <1>2, <1>3, <2>1, <2>2, <2>3 DEF CallsOK
<1>5. DryOK
  <2> DEFINE none == <<>>
  <2>1. none \in Seq(0..MaxBlocks) /\ none \in Seq(1..MaxBlocks) /\ Len(none) = 0 /\ DOMAIN none = {}
    OBVIOUS
  <2> HIDE DEF none
  <2>2. /\ tokens = [d \in Ctx |-> none] /\ blocks = [d \in Ctx |-> none]
        /\ buffer = [d \in Ctx |-> 0] /\ inherited = [d \in Ctx |-> 0] /\ started = Main
    BY DEF Init, none
  <2>3. /\ tokens \in [Ctx -> Seq(0..MaxBlocks)] /\ blocks \in [Ctx -> Seq(1..MaxBlocks)]
        /\ \A d \in Ctx : Len(tokens[d]) = Len(blocks[d]) /\ DOMAIN blocks[d] = {}
    BY <2>1, <2>2
  <2>4. /\ buffer \in [Ctx -> 0..MaxBlocks] /\ inherited \in [Ctx -> 0..MaxBlocks]
        /\ \A d \in Ctx : buffer[d] <= opened /\ inherited[d] <= opened
        /\ opened \in 0..MaxBlocks
    BY <1>3, <2>2, Constants
  <2> QED
    BY <2>2, <2>3, <2>4, Constants DEF DryOK
<1>6. LedgersOK
  BY Constants DEF Init, LedgersOK
<1>7. RecordsOK
  <2> DEFINE none == <<>>
  <2>1. none \in Seq(1..MaxCalls) /\ DOMAIN none = {}
    OBVIOUS
  <2> HIDE DEF none
  <2>2. recorded = [b \in 1..MaxBlocks |-> none]
    BY DEF Init, none
  <2>3. /\ recorded \in [1..MaxBlocks -> Seq(1..MaxCalls)]
        /\ \A b \in 1..MaxBlocks : \A k \in DOMAIN recorded[b] : recorded[b][k] <= calls
    BY <2>1, <2>2
  <2> QED
    BY <2>3 DEF Init, RecordsOK
<1> QED
  BY <1>4, <1>5, <1>6, <1>7 DEF TypeOK

\* The blocks of a context.
LEMMA BlockFacts ==
    ASSUME NEW S, NEW s \in Seq(S), S = 1..MaxBlocks
    PROVE  \A k \in DOMAIN s : s[k] \in Nat /\ s[k] > 0
BY Constants

\* A sequence without its last element.
LEMMA FrontFacts ==
    ASSUME NEW S, NEW s \in Seq(S), s # <<>>
    PROVE  /\ Len(s) \in Nat /\ Len(s) > 0 /\ Len(s) \in DOMAIN s
           /\ Front(s) \in Seq(S) /\ Len(Front(s)) = Len(s) - 1
           /\ \A k \in DOMAIN Front(s) :
                 k \in 1..(Len(s) - 1) /\ k \in DOMAIN s /\ Front(s)[k] = s[k]
           /\ Last(s) = s[Len(s)] /\ Last(s) \in S
<1>1. Len(s) \in Nat /\ Len(s) > 0 /\ DOMAIN s = 1..Len(s) /\ Len(s) \in DOMAIN s
  OBVIOUS
<1>2. /\ SubSeq(s, 1, Len(s) - 1) \in Seq(S) /\ Len(SubSeq(s, 1, Len(s) - 1)) = Len(s) - 1
      /\ \A k \in 1..(Len(s) - 1) : SubSeq(s, 1, Len(s) - 1)[k] = s[k]
  BY <1>1
<1>3. PICK t : t = SubSeq(s, 1, Len(s) - 1)
  OBVIOUS
<1>4. DOMAIN t = 1..(Len(s) - 1)
  BY <1>2, <1>3
<1>5. \A k \in 1..(Len(s) - 1) : k \in DOMAIN s
  BY <1>1
<1> QED
  BY <1>1, <1>2, <1>3, <1>4, <1>5 DEF Front, Last

\* The steps of the contexts between their calls.
LEMMA DryTypes ==
    ASSUME TypeOK, NEW c \in Ctx, Nested(c),
           EnterDryRun(c) \/ LeaveDryRun(c) \/ \E d \in Ctx : Spawn(c, d)
    PROVE  TypeOK'
<1>0. /\ Main \subseteq started /\ started \subseteq Ctx /\ opened \in 0..MaxBlocks
      /\ buffer \in [Ctx -> 0..MaxBlocks] /\ inherited \in [Ctx -> 0..MaxBlocks]
      /\ tokens \in [Ctx -> Seq(0..MaxBlocks)] /\ blocks \in [Ctx -> Seq(1..MaxBlocks)]
      /\ \A d \in Ctx :
            /\ buffer[d] <= opened /\ inherited[d] <= opened
            /\ Len(tokens[d]) = Len(blocks[d])
            /\ \A k \in DOMAIN blocks[d] : blocks[d][k] <= opened
  BY DEF TypeOK, DryOK
<1>1. /\ UNCHANGED <<clock, ledger, recorded, call, calls, pastVars>>
      /\ opened' \in Nat /\ opened <= opened' /\ opened' \in 0..MaxBlocks
  BY <1>0, Constants DEF EnterDryRun, LeaveDryRun, Spawn
<1>2. LedgersOK' /\ RecordsOK'
  BY <1>1 DEF TypeOK, LedgersOK, RecordsOK, pastVars, callPast, chargePast
<1>3. CallsOK'
  <2>1. ASSUME NEW d \in Ctx  PROVE call[d].dry <= opened'
    <3>1. call[d].dry \in Nat /\ call[d].dry <= opened
      BY CallFacts DEF TypeOK, CallsOK, CallState
    <3> QED
      BY <1>0, <1>1, <3>1, Constants
  <2> QED
    BY <1>1, <2>1 DEF TypeOK, CallsOK
<1>4. DryOK'
  <2>1. CASE EnterDryRun(c)
    <3>1. PICK n : n = opened + 1
      OBVIOUS
    <3>2. n \in 1..MaxBlocks /\ opened' = n /\ UNCHANGED <<started, inherited>>
      BY <1>0, <2>1, <3>1, Constants DEF EnterDryRun
    <3>3. PICK s, t : s = Append(blocks[c], n) /\ t = Append(tokens[c], buffer[c])
      OBVIOUS
    <3>4. /\ s \in Seq(1..MaxBlocks) /\ Len(s) = Len(blocks[c]) + 1
          /\ \A k \in 1..Len(blocks[c]) : s[k] = blocks[c][k]
          /\ s[Len(blocks[c]) + 1] = n
          /\ t \in Seq(0..MaxBlocks) /\ Len(t) = Len(tokens[c]) + 1
      BY <1>0, <3>2, <3>3, AppendProperties
    <3>5. \A k \in DOMAIN s : s[k] <= n
      <4>1. Len(blocks[c]) \in Nat /\ DOMAIN s = 1..(Len(blocks[c]) + 1)
        BY <1>0, <3>4
      <4>2. \A k \in DOMAIN s : k \in 1..Len(blocks[c]) \/ k = Len(blocks[c]) + 1
        BY <4>1
      <4>3. \A k \in 1..Len(blocks[c]) : blocks[c][k] \in Nat /\ blocks[c][k] <= opened
        BY <1>0, BlockFacts
      <4>4. \A k \in 1..Len(blocks[c]) : s[k] <= n
        <5>1. opened \in Nat /\ n = opened + 1
          BY <1>0, <3>1, Constants
        <5> QED
          BY <3>4, <4>3, <5>1
      <4> QED
        BY <3>2, <3>4, <4>2, <4>4
    <3>6. /\ tokens' = [tokens EXCEPT ![c] = t] /\ blocks' = [blocks EXCEPT ![c] = s]
          /\ buffer' = [buffer EXCEPT ![c] = n]
      BY <1>0, <2>1, <3>1, <3>3 DEF EnterDryRun
    <3>7. ASSUME NEW d \in Ctx
          PROVE  /\ buffer'[d] <= opened' /\ inherited'[d] <= opened'
                 /\ Len(tokens'[d]) = Len(blocks'[d])
                 /\ \A k \in DOMAIN blocks'[d] : blocks'[d][k] <= opened'
      <4>1. buffer[d] <= n /\ inherited[d] <= n
        BY <1>0, <3>1
      <4>2. \A k \in DOMAIN blocks[d] : blocks[d][k] <= n
        <5>1. \A k \in DOMAIN blocks[d] : blocks[d][k] \in Nat /\ blocks[d][k] <= opened
          BY <1>0, BlockFacts
        <5> QED
          BY <1>0, <3>1, <5>1, Constants
      <4> QED
        BY <1>0, <3>2, <3>4, <3>5, <3>6, <4>1, <4>2
    <3>8. /\ buffer' \in [Ctx -> 0..MaxBlocks] /\ inherited' \in [Ctx -> 0..MaxBlocks]
          /\ tokens' \in [Ctx -> Seq(0..MaxBlocks)] /\ blocks' \in [Ctx -> Seq(1..MaxBlocks)]
      BY <1>0, <3>2, <3>4, <3>6
    <3> QED
      BY <1>0, <1>1, <3>2, <3>7, <3>8 DEF DryOK
  <2>2. CASE LeaveDryRun(c)
    <3>1. PICK s, t, b : s = Front(blocks[c]) /\ t = Front(tokens[c]) /\ b = Last(tokens[c])
      OBVIOUS
    <3>2. PICK n : n = Len(tokens[c])
      OBVIOUS
    <3>3. /\ n \in Nat /\ n > 0 /\ tokens[c] \in Seq(0..MaxBlocks) /\ Len(blocks[c]) = n
          /\ blocks[c] \in Seq(1..MaxBlocks) /\ n \in DOMAIN tokens[c]
      BY <1>0, <2>2, <3>2 DEF LeaveDryRun
    <3>4. /\ s \in Seq(1..MaxBlocks) /\ Len(s) = n - 1
          /\ \A k \in DOMAIN s : k \in DOMAIN blocks[c] /\ s[k] = blocks[c][k]
          /\ t \in Seq(0..MaxBlocks) /\ Len(t) = n - 1
      <4>1. tokens[c] # <<>> /\ blocks[c] # <<>>
        BY <3>3
      <4>2. PICK S : S = 1..MaxBlocks
        OBVIOUS
      <4> QED
        BY <3>1, <3>2, <3>3, <4>1, <4>2, FrontFacts
    <3>5. b = tokens[c][n] /\ b \in 0..MaxBlocks
      <4>1. tokens[c] # <<>>
        BY <3>3
      <4>2. PICK S : S = 0..MaxBlocks
        OBVIOUS
      <4>3. tokens[c] \in Seq(S)
        BY <3>3, <4>2
      <4> QED
        BY <3>1, <3>2, <4>1, <4>2, <4>3, FrontFacts
    <3>6. b <= opened
      <4>1. b = IF n = 1 THEN inherited[c] ELSE blocks[c][n - 1]
        BY <3>3, <3>5 DEF Nested
      <4>2. n # 1 => n - 1 \in DOMAIN blocks[c]
        BY <3>3
      <4> QED
        BY <1>0, <4>1, <4>2
    <3>7. /\ tokens' = [tokens EXCEPT ![c] = t] /\ blocks' = [blocks EXCEPT ![c] = s]
          /\ buffer' = [buffer EXCEPT ![c] = b] /\ UNCHANGED <<opened, started, inherited>>
      BY <1>0, <2>2, <3>1 DEF LeaveDryRun
    <3>8. ASSUME NEW d \in Ctx
          PROVE  /\ buffer'[d] <= opened' /\ inherited'[d] <= opened'
                 /\ Len(tokens'[d]) = Len(blocks'[d])
                 /\ \A k \in DOMAIN blocks'[d] : blocks'[d][k] <= opened'
      BY <1>0, <3>4, <3>6, <3>7
    <3>9. /\ buffer' \in [Ctx -> 0..MaxBlocks] /\ inherited' \in [Ctx -> 0..MaxBlocks]
          /\ tokens' \in [Ctx -> Seq(0..MaxBlocks)] /\ blocks' \in [Ctx -> Seq(1..MaxBlocks)]
      BY <1>0, <3>4, <3>5, <3>7
    <3> QED
      BY <1>0, <1>1, <3>7, <3>8, <3>9 DEF DryOK
  <2>3. CASE \E d \in Ctx : Spawn(c, d)
    BY <1>0, <2>3 DEF Spawn, DryOK
  <2> QED
    BY <2>1, <2>2, <2>3
<1> QED
  BY <1>2, <1>3, <1>4 DEF TypeOK

\* A call is begun.
LEMMA BeginTypes ==
    ASSUME TypeOK, NEW c \in Ctx, NEW r \in Request, Begin(c, r)
    PROVE  /\ TypeOK' /\ call'[c].pc = "check" /\ call'[c].id = calls + 1
           /\ call'[c].dry = buffer[c] /\ call'[c].phase = "pre" /\ call'[c].g = 1
           /\ call'[c].i = 1 /\ call' = [call EXCEPT ![c] = call'[c]]
           /\ call'[c].agent \in Agent
<1>0. /\ calls \in 0..MaxCalls /\ calls < MaxCalls /\ call \in [Ctx -> CallState]
      /\ buffer[c] \in Nat /\ buffer[c] <= opened /\ r.agent \in Agent
  BY Constants DEF TypeOK, CallsOK, DryOK, Begin
<1> DEFINE o == [Idle EXCEPT !.pc = "check", !.agent = r.agent, !.tool = r.tool,
                             !.id = calls + 1, !.dry = buffer[c]]
<1>1. Unknown \in Outcome
  BY DEF Unknown, Outcome
<1>2. /\ o \in CallState /\ o.pc = "check" /\ o.id = calls + 1 /\ o.dry = buffer[c]
      /\ o.phase = "pre" /\ o.g = 1 /\ o.i = 1 /\ o.agent = r.agent
  <2>1. /\ Idle \in CallState /\ Idle.phase = "pre" /\ Idle.g = 1 /\ Idle.i = 1
    BY <1>1 DEF Idle, CallState, Ended
  <2>2. PICK id, dry, tool : id = calls + 1 /\ dry = buffer[c] /\ tool = r.tool
    OBVIOUS
  <2>3. /\ id \in Nat /\ dry \in Nat /\ tool \in {q.tool : q \in Request} \cup {NoTool}
        /\ r.agent \in Agent \cup {"none"}
    BY <1>0, <2>2, Constants
  <2>4. o = [Idle EXCEPT !.pc = "check", !.agent = r.agent, !.tool = tool,
                         !.id = id, !.dry = dry]
    BY <2>2
  <2> HIDE DEF o, Idle
  <2> QED
    BY <2>1, <2>2, <2>3, <2>4 DEF CallState
<1>3. call' = [call EXCEPT ![c] = o] /\ calls' = calls + 1 /\ UNCHANGED <<clock, ledger, recorded>>
      /\ UNCHANGED dryVars /\ UNCHANGED chargePast
      /\ passed' = [passed EXCEPT ![c] = {}] /\ found' = [found EXCEPT ![c] = 0]
      /\ told' = [told EXCEPT ![c] = 0]
  BY DEF Begin
<1> HIDE DEF o
<1>4. PlaceOK(o)
  <2>1. 1 \in DOMAIN Groups[o.agent] /\ 1 \in DOMAIN Groups[o.agent][1].policies
    BY <1>0, <1>2, GroupFacts, PolicyFacts
  <2> QED
    BY <1>0, <1>2, <2>1 DEF PlaceOK, Group, Metering
<1>5. call'[c] = o /\ \A d \in Ctx \ {c} : call'[d] = call[d]
  BY <1>0, <1>3
<1>6. CallsOK'
  <2>1. ASSUME NEW d \in Ctx
        PROVE  /\ PlaceOK(call'[d]) /\ call'[d].id <= calls' /\ call'[d].dry <= opened
               /\ call'[d].pc # "idle" => call'[d].id > 0
    <3>1. CASE d = c
      BY <1>0, <1>2, <1>3, <1>4, <1>5, <3>1, Constants
    <3>2. CASE d # c
      <4>1. /\ call[d] \in CallState /\ PlaceOK(call[d]) /\ call[d].id <= calls
            /\ call[d].dry <= opened /\ (call[d].pc # "idle" => call[d].id > 0)
            /\ call[d].id \in Nat /\ calls \in Nat
        BY CallFacts DEF TypeOK, CallsOK
      <4> QED
        BY <1>3, <1>5, <3>2, <4>1
    <3> QED
      BY <3>1, <3>2
  <2>2. calls' \in 0..MaxCalls /\ call' \in [Ctx -> CallState] /\ opened' = opened
    BY <1>0, <1>2, <1>3, Constants DEF dryVars
  <2> QED
    BY <2>1, <2>2 DEF CallsOK
<1>7. DryOK' /\ LedgersOK'
  BY <1>3 DEF TypeOK, DryOK, LedgersOK, dryVars, chargePast
<1>8. RecordsOK'
  <2>1. ASSUME NEW b \in 1..MaxBlocks, NEW k \in DOMAIN recorded[b]
        PROVE  recorded[b][k] <= calls'
    <3>1. recorded[b] \in Seq(1..MaxCalls) /\ recorded[b][k] <= calls
      BY DEF TypeOK, RecordsOK
    <3>2. PICK S, s : S = 1..MaxCalls /\ s = recorded[b]
      OBVIOUS
    <3>3. s[k] \in S
      <4>1. s \in Seq(S) /\ k \in DOMAIN s
        BY <3>1, <3>2
      <4> QED
        BY <4>1
    <3>4. recorded[b][k] \in Int
      BY <3>2, <3>3, Constants
    <3> QED
      BY <1>0, <1>3, <3>1, <3>4
  <2> QED
    BY <1>3, <2>1 DEF TypeOK, RecordsOK
<1> QED
  BY <1>0, <1>2, <1>3, <1>5, <1>6, <1>7, <1>8 DEF TypeOK

------------------------------------------------------------------------------
(* The invariant                                                           *)

\* Every step keeps the types.
LEMMA TypesKept ==
    ASSUME TypeOK, \A c \in Ctx : Nested(c), [Next]_vars
    PROVE  TypeOK'
<1>1. ASSUME NEW c \in Ctx, EnterDryRun(c) \/ LeaveDryRun(c) \/ \E d \in Ctx : Spawn(c, d)
      PROVE  TypeOK'
  BY <1>1, DryTypes
<1>2. ASSUME NEW c \in Ctx, NEW r \in Request, Begin(c, r)
      PROVE  TypeOK'
  BY <1>2, BeginTypes
<1>3. ASSUME NEW c \in Ctx, CallStep(c)
      PROVE  TypeOK'
  <2>1. Works(c)
    BY <1>3, CallWorks
  <2> QED
    BY <1>3, <2>1, WorkTypes, LedgerTypes DEF TypeOK
<1>4. CASE Tick
  <2>1. clock' \in 0..MaxTime
    BY <1>4, Constants DEF Tick, TypeOK, LedgersOK
  <2>2. UNCHANGED <<ledger, dryVars, recorded, call, calls, pastVars>>
    BY <1>4 DEF Tick
  <2> QED
    BY <2>1, <2>2 DEF TypeOK, CallsOK, DryOK, LedgersOK, RecordsOK, dryVars, pastVars, callPast,
                      chargePast
<1>5. CASE UNCHANGED vars
  BY <1>5 DEF vars, TypeOK, CallsOK, DryOK, LedgersOK, RecordsOK, dryVars, pastVars, callPast,
              chargePast
<1> QED
  BY <1>1, <1>2, <1>3, <1>4, <1>5 DEF Next

\* Who is disturbed shares the deque with the call that goes on.
Disturbs(c) ==
    \A d \in Ctx \ {c} :
       call'[d].pc = "sum" /\ call'[d].disturbed => call[d].disturbed \/ Uses(c, LedgerOf(d))

\* A deque is emptied only by who uses it.
Drains(c) == \A l \in Ledger : ledger'[l] = <<>> => ledger[l] = <<>> \/ Uses(c, l)

\* What a step of a call does to the others.
LEMMA Effects ==
    ASSUME TypeOK, NEW c \in Ctx, CallStep(c)
    PROVE  Disturbs(c) /\ Drains(c)
<1>0. /\ call \in [Ctx -> CallState] /\ ledger \in [Ledger -> Seq(Entry)]
  BY DEF TypeOK, CallsOK, LedgersOK
<1>1. ASSUME NEW o, Step(c, o), UNCHANGED ledger
      PROVE  Disturbs(c) /\ Drains(c)
  BY <1>0, <1>1 DEF Step, Disturbs, Drains
<1>2. ASSUME NEW o, NEW l, l = LedgerOf(c), call' = Disturbing(c, l, o), call[c].pc \in Metering
      PROVE  Disturbs(c)
  BY <1>0, <1>2 DEF Disturbs, Disturbing, Uses
<1>3. CASE BeginMeter(c)
  <2>1. UNCHANGED ledger
    BY <1>3 DEF BeginMeter
  <2>2. \A d \in Ctx \ {c} : call'[d].disturbed = call[d].disturbed
    BY <1>3, BeginWorks
  <2> QED
    BY <2>1, <2>2 DEF Disturbs, Drains
<1>4. CASE PopOldest(c)
  <2>0. call[c].pc \in Metering /\ LedgerOf(c) \in Ledger
    BY <1>4, MeterFacts DEF PopOldest, Metering
  <2>1. CASE ledger[LedgerOf(c)] = <<>>
    BY <1>1, <1>4, <2>1 DEF PopOldest
  <2>2. CASE ledger[LedgerOf(c)] # <<>>
    <3>1. /\ call' = Disturbing(c, LedgerOf(c), Goes(call[c], "trim"))
          /\ ledger' = [ledger EXCEPT ![LedgerOf(c)] = Tail(@)]
      BY <1>4, <2>2 DEF PopOldest
    <3>2. Disturbs(c)
      BY <1>2, <2>0, <3>1
    <3>3. Drains(c)
      BY <1>0, <2>0, <3>1 DEF Drains, Uses
    <3> QED
      BY <3>2, <3>3
  <2> QED
    BY <2>1, <2>2
<1>5. CASE Charge(c)
  <2>0. call[c].pc \in Metering /\ LedgerOf(c) \in Ledger
    BY <1>5, MeterFacts DEF Charge, Metering
  <2>1. call' = Disturbing(c, LedgerOf(c), Accepts(call[c]))
    BY <1>5 DEF Charge, LedgerOf
  <2>2. PICK e : ledger' = [ledger EXCEPT ![LedgerOf(c)] = Append(@, e)]
    BY <1>5 DEF Charge, LedgerOf
  <2>3. Disturbs(c)
    BY <1>2, <2>0, <2>1
  <2>4. Drains(c)
    BY <1>0, <2>0, <2>2 DEF Drains, Uses
  <2> QED
    BY <2>3, <2>4
<1>6. CASE \/ CheckNothing(c) \/ AgentRaises(c) \/ TestEmpty(c) \/ TestOldest(c) \/ BeginSum(c)
           \/ RecordViolation(c) \/ \E r \in Result : AgentReturns(c, r)
  BY <1>1, <1>6 DEF CheckNothing, AgentRaises, AgentReturns, TestEmpty, TestOldest, BeginSum, RecordViolation
<1>7. CASE CheckAtOnce(c) \/ EndSum(c)
  BY <1>1, <1>7 DEF CheckAtOnce, EndSum, Fails, Passes
<1>8. CASE Escalate(c)
  BY <1>1, <1>8 DEF Escalate
<1> QED
  BY <1>3, <1>4, <1>5, <1>6, <1>7, <1>8 DEF CallStep

\* Who enters the check of a deque, and who is in one, know of each other.
Meets(c) ==
    call'[c].pc \in Metering =>
       /\ SamePlace(call[c], call'[c])
       /\ \A d \in Ctx \ {c} : Uses(d, LedgerOf(c)) => call'[c].raced /\ call'[d].raced

\* The crash of a check, and what it does next.
Crashes(c) ==
    /\ call'[c].pc = "crashed" => call'[c].raced
    /\ call'[c].pc = "sum" => ~call'[c].disturbed
    /\ call'[c].pc \in {"look", "pop"} => ledger[LedgerOf(c)] # <<>> /\ UNCHANGED ledger

\* What a step of a call does to its check.
LEMMA Meetings ==
    ASSUME TypeOK, \A d \in Ctx : Nested(d) /\ Raced(d), NEW c \in Ctx, CallStep(c)
    PROVE  Meets(c) /\ Crashes(c)
<1>1. ASSUME Works(c), Stays(call[c], call'[c]), call[c].pc \in Metering,
             call'[c].raced <=> call[c].raced
      PROVE  Meets(c)
  <2>1. ASSUME NEW d \in Ctx \ {c}, Uses(d, LedgerOf(c))
        PROVE  call'[c].raced /\ call'[d].raced
    <3>1. call[c].raced /\ call[d].raced
      BY <1>1, <2>1 DEF Raced, Uses
    <3> QED
      BY <1>1, <2>1, <3>1 DEF Works, CallMoves, Almost
  <2> QED
    BY <1>1, <2>1 DEF Meets, Stays
<1>2. ASSUME Unmetered(c)
      PROVE  Meets(c) /\ Crashes(c)
  BY <1>2 DEF Unmetered, Meets, Crashes, Metering
<1>3. CASE \/ CheckNothing(c) \/ CheckAtOnce(c) \/ AgentRaises(c) \/ Charge(c)
           \/ RecordViolation(c) \/ Escalate(c) \/ \E r \in Result : AgentReturns(c, r)
  BY <1>2, <1>3, NothingWorks, CheckWorks, AgentWorks, ChargeWorks, NoteWorks, EscalateWorks
<1>4. CASE BeginMeter(c)
  <2>1. Meets(c)
    BY <1>4, BeginWorks DEF Meets
  <2>2. Crashes(c)
    BY <1>4, BeginWorks DEF Crashes, Metering
  <2> QED
    BY <2>1, <2>2
<1>5. CASE Trims(c)
  <2>1. call[c].pc \in Metering /\ UNCHANGED ledger
    BY <1>5 DEF Trims, TestEmpty, TestOldest, BeginSum, Metering
  <2>2. /\ Works(c) /\ Stays(call[c], call'[c]) /\ (call'[c].raced <=> call[c].raced)
        /\ call'[c].pc \in Metering
        /\ call'[c].pc = "sum" => ~call'[c].disturbed
        /\ call'[c].pc \in {"look", "pop"} => ledger[LedgerOf(c)] # <<>>
    BY <1>5, TrimWorks
  <2> QED
    BY <1>1, <2>1, <2>2 DEF Crashes, Metering
<1>6. CASE PopOldest(c)
  <2>1. call[c].pc \in Metering /\ call[c].pc = "pop"
    BY <1>6 DEF PopOldest, Metering
  <2>2. CASE ledger[LedgerOf(c)] = <<>>
    <3>1. call'[c].pc = "crashed" /\ call'[c].raced
      BY <1>6, <2>1, <2>2, PopWorks DEF Raced
    <3> QED
      BY <3>1 DEF Meets, Crashes, Metering
  <2>3. CASE ledger[LedgerOf(c)] # <<>>
    <3>1. /\ Works(c) /\ call'[c].pc = "trim" /\ Stays(call[c], call'[c])
          /\ (call'[c].raced <=> call[c].raced)
      BY <1>6, <2>3, PopWorks
    <3> QED
      BY <1>1, <2>1, <3>1 DEF Crashes
  <2> QED
    BY <2>2, <2>3
<1>7. CASE EndSum(c)
  <2>1. call[c].pc \in Metering /\ call[c].pc = "sum"
    BY <1>7 DEF EndSum, Metering
  <2>2. /\ Works(c)
        /\ call'[c].pc = "crashed" => call[c].disturbed /\ (call'[c].raced <=> call[c].raced)
        /\ call'[c].pc \in Metering =>
                 /\ call'[c].pc = "meter" /\ Stays(call[c], call'[c])
                 /\ call'[c].raced <=> call[c].raced
    BY <1>7, SumWorks
  <2>3. CASE call'[c].pc \in Metering
    BY <1>1, <2>1, <2>2, <2>3 DEF Crashes, Metering
  <2>4. CASE call'[c].pc = "crashed"
    BY <2>1, <2>2, <2>4 DEF Raced, Meets, Crashes, Metering
  <2>5. CASE call'[c].pc \notin Metering \cup {"crashed"}
    BY <1>2, <2>5 DEF Unmetered
  <2> QED
    BY <2>3, <2>4, <2>5
<1>8. CASE TestOldest(c) /\ ledger[LedgerOf(c)] = <<>>
  <2>1. call[c].pc = "look" /\ call'[c].pc = "crashed" /\ (call'[c].raced <=> call[c].raced)
    BY <1>8, LookWorks
  <2> QED
    BY <1>8, <2>1 DEF Raced, Meets, Crashes, Metering
<1> QED
  BY <1>3, <1>4, <1>5, <1>6, <1>7, <1>8 DEF CallStep, Trims

\* Checks of one deque go on knowing of each other.
LEMMA RacedKept ==
    ASSUME TypeOK, \A d \in Ctx : Nested(d) /\ Raced(d), NEW c \in Ctx, CallStep(c)
    PROVE  \A d \in Ctx : Raced(d)'
<1>1. Works(c) /\ Disturbs(c) /\ Drains(c) /\ Meets(c) /\ Crashes(c)
  BY CallWorks, Effects, Meetings
<1>2. \A d \in Ctx \ {c} : Almost(call[d], call'[d])
  BY <1>1 DEF Works, CallMoves
<1>3. ASSUME NEW d \in Ctx, call'[d].pc \in Metering
      PROVE  LedgerOf(d)' = LedgerOf(d)
  <2>1. SamePlace(call[d], call'[d])
    BY <1>1, <1>2, <1>3 DEF Meets, Almost
  <2>2. Policy(call'[d]) = Policy(call[d])
    BY <2>1 DEF SamePlace, SameCall, Policy, Group
  <2> QED
    BY <2>2 DEF LedgerOf
<1>4. ASSUME NEW d \in Ctx, NEW e \in Ctx \ {d}, call'[d].pc \in Metering,
             Uses(e, LedgerOf(d))'
      PROVE  call'[d].raced
  <2>1. call'[e].pc \in Metering /\ LedgerOf(e) = LedgerOf(d)
    BY <1>3, <1>4 DEF Uses
  <2>2. CASE d = c
    <3>1. Uses(e, LedgerOf(c))
      BY <1>2, <2>1, <2>2 DEF Uses, Almost
    <3> QED
      BY <1>1, <1>4, <2>2, <3>1 DEF Meets
  <2>3. CASE e = c
    <3>1. Uses(d, LedgerOf(c))
      BY <1>2, <1>4, <2>1, <2>3 DEF Uses, Almost
    <3> QED
      BY <1>1, <1>4, <2>1, <2>3, <3>1 DEF Meets
  <2>4. CASE d # c /\ e # c
    <3>1. call[d].pc \in Metering /\ Uses(e, LedgerOf(d)) /\ (call[d].raced => call'[d].raced)
      BY <1>2, <1>4, <2>1, <2>4 DEF Uses, Almost
    <3> QED
      BY <3>1 DEF Raced
  <2> QED
    BY <2>2, <2>3, <2>4
<1>5. ASSUME NEW d \in Ctx, call'[d].pc = "sum", call'[d].disturbed
      PROVE  call'[d].raced
  <2>1. d # c
    BY <1>1, <1>5 DEF Crashes
  <2>2. call[d].pc = "sum" /\ call[d].pc \in Metering /\ (call[d].raced => call'[d].raced)
    BY <1>2, <1>5, <2>1 DEF Almost, Metering
  <2>3. call[d].disturbed \/ Uses(c, LedgerOf(d))
    BY <1>1, <1>5, <2>1 DEF Disturbs
  <2> QED
    BY <2>1, <2>2, <2>3 DEF Raced
<1>6. ASSUME NEW d \in Ctx, call'[d].pc \in {"look", "pop"}, ledger'[LedgerOf(d)] = <<>>
      PROVE  call'[d].raced
  <2>1. d # c
    BY <1>1, <1>6 DEF Crashes
  <2>2. /\ call[d].pc \in {"look", "pop"} /\ call[d].pc \in Metering /\ (call[d].raced => call'[d].raced)
    BY <1>2, <1>6, <2>1 DEF Almost, Metering
  <2>3. LedgerOf(d) \in Ledger
    BY <2>2, MeterFacts
  <2>4. ledger[LedgerOf(d)] = <<>> \/ Uses(c, LedgerOf(d))
    BY <1>1, <1>6, <2>3 DEF Drains
  <2> QED
    BY <2>1, <2>2, <2>4 DEF Raced
<1>7. ASSUME NEW d \in Ctx, call'[d].pc = "crashed"
      PROVE  call'[d].raced
  <2>1. CASE d = c
    BY <1>1, <1>7, <2>1 DEF Crashes
  <2>2. CASE d # c
    <3>1. call'[d] = call[d]
      BY <1>2, <1>7, <2>2 DEF Almost, Metering
    <3> QED
      BY <1>7, <3>1 DEF Raced
  <2> QED
    BY <2>1, <2>2
<1>8. ASSUME NEW d \in Ctx, call'[d].pc \in {"look", "pop"}, (ledger[LedgerOf(d)])' = <<>>
      PROVE  call'[d].raced
  <2>1. LedgerOf(d)' = LedgerOf(d)
    BY <1>3, <1>8 DEF Metering
  <2> QED
    BY <1>6, <1>8, <2>1
<1> QED
  BY <1>4, <1>5, <1>7, <1>8 DEF Raced

\* The others keep what they have been asked.
LEMMA AlmostSame ==
    ASSUME NEW k, NEW o, Almost(k, o), NEW P, Enforced(k, P), Cleaned(k)
    PROVE  Enforced(o, P) /\ Cleaned(o)
<1>1. /\ o.pc = k.pc /\ o.agent = k.agent /\ o.dry = k.dry /\ o.phase = k.phase /\ o.g = k.g
      /\ o.i = k.i /\ o.result = k.result /\ o.current = k.current /\ (o.replaced <=> k.replaced)
  BY DEF Almost, SamePlace, SameCall
<1>2. Group(o) = Group(k)
  BY <1>1 DEF Group
<1> HIDE DEF Lets, Redactor, AllLet
<1>3. Enforced(o, P)
  BY <1>1, <1>2 DEF Enforced
<1>4. Cleaned(o)
  BY <1>1, <1>2 DEF Cleaned
<1> QED
  BY <1>3, <1>4

\* How often a sequence holds a value.
Among(s, y) == Cardinality({i \in DOMAIN s : s[i] = y})

\* One more element.
LEMMA AmongMore ==
    ASSUME NEW S, NEW s \in Seq(S), NEW x \in S, NEW y
    PROVE  /\ Among(s, y) \in Nat
           /\ x = y => Among(Append(s, x), y) = Among(s, y) + 1
           /\ x # y => Among(Append(s, x), y) = Among(s, y)
<1>1. PICK n, t : n = Len(s) /\ t = Append(s, x)
  OBVIOUS
<1>0. n \in Nat
  BY <1>1
<1>2. /\ t \in Seq(S) /\ Len(t) = n + 1 /\ t[n + 1] = x
      /\ \A i \in 1..n : t[i] = s[i]
  BY <1>0, <1>1, AppendProperties
<1>3. DOMAIN s = 1..n /\ DOMAIN t = 1..(n + 1)
  BY <1>0, <1>1, <1>2
<1>4. PICK A, B : A = {i \in DOMAIN s : s[i] = y} /\ B = {i \in DOMAIN t : t[i] = y}
  OBVIOUS
<1>5. Among(s, y) = Cardinality(A) /\ Among(Append(s, x), y) = Cardinality(B)
  BY <1>1, <1>4 DEF Among
<1>6. IsFiniteSet(1..n) /\ A \subseteq 1..n
  BY <1>0, <1>3, <1>4, FS_Interval
<1>7. IsFiniteSet(A) /\ Cardinality(A) \in Nat /\ n + 1 \notin A
  <2>1. IsFiniteSet(A)
    BY <1>6, FS_Subset
  <2>2. n + 1 \notin 1..n
    BY <1>0
  <2> QED
    BY <1>6, <2>1, <2>2, FS_CardinalityType
<1>8. \A i : i \in 1..(n + 1) <=> (i \in 1..n \/ i = n + 1)
  BY <1>0
<1>9. ASSUME x = y  PROVE Among(Append(s, x), y) = Among(s, y) + 1
  <2>1. B = A \cup {n + 1}
    BY <1>2, <1>3, <1>4, <1>8, <1>9
  <2>2. Cardinality(A \cup {n + 1}) = Cardinality(A) + 1
    BY <1>7, FS_AddElement
  <2> QED
    BY <1>5, <2>1, <2>2
<1>10. ASSUME x # y  PROVE Among(Append(s, x), y) = Among(s, y)
  <2>1. B = A
    BY <1>2, <1>3, <1>4, <1>8, <1>10
  <2> QED
    BY <1>5, <2>1
<1> QED
  BY <1>5, <1>7, <1>9, <1>10

\* A violation of the call x was noted in the buffer b.
NotedIn(b, x) == recorded' = [recorded EXCEPT ![b] = Append(@, x)]

\* What that does to the buffers.
LEMMA OccurrencesKept ==
    ASSUME TypeOK, NEW b \in 1..MaxBlocks, NEW x \in 1..MaxCalls, NEW y, NotedIn(b, x)
    PROVE  /\ x = y => Occurrences(b, y)' = Occurrences(b, y) + 1
           /\ x # y => Occurrences(b, y)' = Occurrences(b, y)
           /\ \A a \in 1..MaxBlocks : a # b => Occurrences(a, y)' = Occurrences(a, y)
<1>0. recorded \in [1..MaxBlocks -> Seq(1..MaxCalls)]
  BY DEF TypeOK, RecordsOK
<1>1. PICK S, s, t : S = 1..MaxCalls /\ s = recorded[b] /\ t = Append(s, x)
  OBVIOUS
<1>2. s \in Seq(S) /\ x \in S /\ recorded'[b] = t
  BY <1>0, <1>1 DEF NotedIn
<1>3. /\ x = y => Among(t, y) = Among(s, y) + 1
      /\ x # y => Among(t, y) = Among(s, y)
  <2>1. /\ x = y => Among(Append(s, x), y) = Among(s, y) + 1
        /\ x # y => Among(Append(s, x), y) = Among(s, y)
    BY <1>2, AmongMore
  <2> QED
    BY <1>1, <2>1
<1>4. Occurrences(b, y) = Among(s, y) /\ Occurrences(b, y)' = Among(t, y)
  BY <1>1, <1>2 DEF Occurrences, Among
<1>5. ASSUME NEW a \in 1..MaxBlocks, a # b  PROVE Occurrences(a, y)' = Occurrences(a, y)
  <2>1. recorded'[a] = recorded[a]
    BY <1>0, <1>5 DEF NotedIn
  <2> QED
    BY <2>1 DEF Occurrences
<1> QED
  BY <1>3, <1>4, <1>5

\* The violations of a call are all accounted for.
LEMMA AccountsKept ==
    ASSUME TypeOK, \A d \in Ctx : Nested(d) /\ Accounts(d), NEW c \in Ctx, Works(c)
    PROVE  \A d \in Ctx : Accounts(d)'
<1>1. /\ call[c].pc \notin Ended /\ call'[c].id = call[c].id /\ call'[c].dry = call[c].dry
      /\ \A d \in Ctx \ {c} : /\ call'[d].id = call[d].id /\ call'[d].dry = call[d].dry
                              /\ call'[d].pc = call[d].pc
  BY DEF Works, CallMoves, SameCall, Almost, SamePlace
<1>2. found \in [Ctx -> Nat] /\ told \in [Ctx -> Nat]
  BY DEF TypeOK, RecordsOK
<1>3. call[c].id # 0 /\ call[c].id \in 1..MaxCalls
  BY <1>1, CallFacts, Constants DEF TypeOK, CallsOK, Ended
<1>4. call[c].pc = "violated" => buffer[c] = call[c].dry
  BY DEF Nested, Ended
<1>5. PICK x : x = call[c].id
  OBVIOUS
<1>6. ASSUME NEW d \in Ctx  PROVE \A e \in Ctx \ {d} : call'[d].id # 0 => call'[e].id # call'[d].id
  <2>1. \A e \in Ctx : call'[e].id = call[e].id
    BY <1>1
  <2> QED
    BY <2>1 DEF Accounts
<1>7. CASE recorded' = recorded
  <2>1. ASSUME NEW b, NEW y  PROVE Occurrences(b, y)' = Occurrences(b, y)
    BY <1>7 DEF Occurrences
  <2>2. ASSUME NEW d \in Ctx \ {c}  PROVE Accounts(d)'
    <3>1. found'[d] = found[d] /\ told'[d] = told[d]
      BY <1>2, <2>2 DEF Works, Tallies
    <3>2. Settled(d)' = Settled(d)
      BY <1>1, <3>1 DEF Settled
    <3>3. \A b \in 1..MaxBlocks :
             Occurrences(b, call[d].id)' = IF b = call[d].dry THEN Settled(d) ELSE 0
      <4>1. PICK y : y = call[d].id
        OBVIOUS
      <4>2. call'[d].id = y
        BY <1>1, <4>1
      <4> QED
        BY <2>1, <4>1, <4>2 DEF Accounts
    <3> QED
      BY <1>1, <1>6, <3>1, <3>2, <3>3 DEF Accounts
  <2>3. Accounts(c)'
    <3>0. PICK n, m : n = found[c] /\ m = told[c]
      OBVIOUS
    <3>1. /\ n \in Nat /\ m \in Nat
          /\ call[c].pc = "violated" => n > 0
          /\ \A b \in 1..MaxBlocks : Occurrences(b, x) = IF b = call[c].dry THEN Settled(c) ELSE 0
          /\ m = IF call[c].dry = 0 THEN Settled(c) ELSE 0
          /\ call[c].dry = 0 => ~(Settled(c) > 0)
      BY <1>1, <1>2, <1>5, <3>0 DEF Accounts, Ended
    <3>2. \A b \in 1..MaxBlocks : Occurrences(b, call[c].id)' = Occurrences(b, x)
      BY <1>1, <1>5, <1>7 DEF Occurrences
    <3>3. CASE /\ call[c].pc # "violated" /\ call'[c].pc \notin {"violated", "violation"}
               /\ UNCHANGED <<found, told>>
      <4>1. Settled(c)' = Settled(c) /\ found'[c] = n /\ told'[c] = m
        BY <3>0, <3>1, <3>3 DEF Settled
      <4> QED
        BY <1>1, <1>3, <1>6, <3>1, <3>2, <3>3, <4>1 DEF Accounts
    <3>4. CASE /\ call[c].pc # "violated" /\ call'[c].pc = "violated"
               /\ found' = [found EXCEPT ![c] = found[c] + 1] /\ UNCHANGED told
      <4>1. Settled(c)' = Settled(c) /\ found'[c] = n + 1 /\ told'[c] = m /\ n + 1 > 0
        <5>1. found'[c] = n + 1 /\ told'[c] = m
          BY <1>2, <3>0, <3>4
        <5>3. Settled(c) = n
          BY <3>0, <3>1, <3>4 DEF Settled
        <5>2. Settled(c)' = found'[c] - 1
          BY <3>4 DEF Settled
        <5> QED
          BY <3>1, <5>1, <5>2, <5>3
      <4> QED
        BY <1>1, <1>3, <1>6, <3>1, <3>2, <3>4, <4>1 DEF Accounts
    <3>5. CASE /\ call[c].pc = "violated" /\ call'[c].pc \in {"error", "violation"}
               /\ buffer[c] = 0
               /\ told' = [told EXCEPT ![c] = told[c] + 1] /\ UNCHANGED found
      <4>1. call[c].dry = 0
        BY <1>4, <3>5
      <4>2. Settled(c) = 0 /\ n = 1 /\ m = 0
        BY <3>0, <3>1, <3>5, <4>1 DEF Settled
      <4>3. Settled(c)' = 1 /\ found'[c] = 1 /\ told'[c] = 1
        BY <1>2, <3>0, <3>5, <4>2 DEF Settled
      <4>4. \A b \in 1..MaxBlocks : b # 0 /\ Occurrences(b, call[c].id)' = 0
        BY <3>1, <3>2, <4>1
      <4> QED
        BY <1>1, <1>3, <1>6, <3>5, <4>1, <4>3, <4>4 DEF Accounts
    <3>6. ~(/\ call[c].pc = "violated" /\ buffer[c] # 0
            /\ recorded' = [recorded EXCEPT ![buffer[c]] = Append(@, call[c].id)])
      <4> SUFFICES ASSUME call[c].pc = "violated", buffer[c] # 0,
                          recorded' = [recorded EXCEPT ![buffer[c]] = Append(@, call[c].id)]
                   PROVE  FALSE
        OBVIOUS
      <4>1. PICK b \in 1..MaxBlocks : b = buffer[c]
        BY Constants DEF TypeOK, DryOK
      <4>2. x \in 1..MaxCalls /\ NotedIn(b, x)
        BY <1>3, <1>5, <4>1 DEF NotedIn
      <4>3. Occurrences(b, x)' = Occurrences(b, x) + 1
        BY <4>2, OccurrencesKept
      <4>4. Occurrences(b, x) \in Int
        BY <3>0, <3>1 DEF Settled
      <4> QED
        BY <2>1, <4>3, <4>4
    <3> QED
      BY <3>3, <3>4, <3>5, <3>6 DEF Works, Tallies
  <2> QED
    BY <2>2, <2>3
<1>8. CASE /\ call[c].pc = "violated" /\ call'[c].pc \notin {"violated", "violation"}
           /\ buffer[c] # 0
           /\ recorded' = [recorded EXCEPT ![buffer[c]] = Append(@, call[c].id)]
           /\ UNCHANGED <<found, told>>
  <2>1. PICK b \in 1..MaxBlocks : b = buffer[c]
    BY <1>8, Constants DEF TypeOK, DryOK
  <2>2. x \in 1..MaxCalls /\ NotedIn(b, x) /\ b = call[c].dry /\ b # 0
    BY <1>3, <1>4, <1>5, <1>8, <2>1 DEF NotedIn
  <2>3. ASSUME NEW d \in Ctx \ {c}  PROVE Accounts(d)'
    <3>1. found'[d] = found[d] /\ told'[d] = told[d] /\ Settled(d)' = Settled(d)
      BY <1>1, <1>8, <2>3 DEF Settled
    <3>2. PICK y : y = call[d].id
      OBVIOUS
    <3>3. y # x /\ call'[d].id = y
      BY <1>1, <1>3, <1>5, <2>3, <3>2 DEF Accounts
    <3>4. \A a \in 1..MaxBlocks : Occurrences(a, y) \in Int
      BY <1>2, <3>2 DEF Accounts, Settled
    <3>5. \A a \in 1..MaxBlocks : Occurrences(a, y)' = Occurrences(a, y)
      BY <2>2, <3>3, <3>4, OccurrencesKept
    <3>6. \A a \in 1..MaxBlocks : Occurrences(a, call[d].id)' = Occurrences(a, y)'
      BY <3>3 DEF Occurrences
    <3> QED
      BY <1>1, <1>6, <3>1, <3>2, <3>5, <3>6 DEF Accounts
  <2>4. Accounts(c)'
    <3>0. PICK n : n = found[c]
      OBVIOUS
    <3>1. /\ n \in Nat /\ Settled(c) = n - 1 /\ Settled(c)' = n /\ found'[c] = n
          /\ told'[c] = 0 /\ call[c].dry # 0
      BY <1>2, <1>8, <2>2, <3>0 DEF Settled, Accounts
    <3>2. \A a \in 1..MaxBlocks : Occurrences(a, x) = IF a = b THEN n - 1 ELSE 0
      BY <1>5, <2>2, <3>1 DEF Accounts
    <3>3. Occurrences(b, x)' = n
      BY <2>2, <3>1, <3>2, OccurrencesKept
    <3>4. \A a \in 1..MaxBlocks : a # b => Occurrences(a, x)' = 0
      BY <2>2, <3>2, OccurrencesKept
    <3>5. \A a \in 1..MaxBlocks : Occurrences(a, call[c].id)' = Occurrences(a, x)'
      BY <1>1, <1>5 DEF Occurrences
    <3> QED
      BY <1>1, <1>3, <1>6, <1>8, <2>2, <3>1, <3>3, <3>4, <3>5 DEF Accounts
  <2> QED
    BY <2>3, <2>4
<1> QED
  BY <1>7, <1>8 DEF Works, Tallies

\* A step of a call keeps the invariant.
LEMMA CallKeeps ==
    ASSUME TypeOK, Inv, NEW c \in Ctx, CallStep(c)
    PROVE  Inv'
<1>0. \A d \in Ctx : Nested(d) /\ Raced(d) /\ Enforced(call[d], passed[d]) /\ Cleaned(call[d])
                     /\ Accounts(d)
  BY DEF Inv
<1>1. Works(c)
  BY <1>0, CallWorks
<1>2. /\ call[c].pc \notin Ended /\ SameCall(call[c], call'[c]) /\ UNCHANGED dryVars
      /\ \A d \in Ctx \ {c} : Almost(call[d], call'[d])
      /\ passed' = [passed EXCEPT ![c] = passed'[c]]
      /\ Turn(call[c], call'[c], passed[c], passed'[c])
  BY <1>1 DEF Works, CallMoves
<1>3. Asleep'
  <2>1. ASSUME NEW d \in Ctx \ started  PROVE call'[d] = Idle
    <3>1. call[d] = Idle /\ Idle.pc = "idle"
      BY <2>1 DEF Inv, Asleep, Idle
    <3> HIDE DEF Idle
    <3>2. d # c
      BY <1>2, <3>1 DEF Ended
    <3> QED
      BY <1>2, <2>1, <3>1, <3>2 DEF Almost, Metering
  <2> QED
    BY <1>2, <2>1 DEF Inv, Asleep, dryVars
<1>4. ASSUME NEW d \in Ctx  PROVE Nested(d)'
  <2>1. /\ UNCHANGED <<buffer, tokens, blocks, inherited>>
        /\ call[d].pc \notin Ended => buffer[d] = call[d].dry
        /\ call'[d].dry = call[d].dry
        /\ call'[d].pc \notin Ended => call[d].pc \notin Ended
    BY <1>0, <1>2 DEF dryVars, Nested, SameCall, Almost, SamePlace
  <2> QED
    BY <1>0, <2>1 DEF Nested
<1>5. \A d \in Ctx : Raced(d)'
  BY <1>0, RacedKept
<1>6. ASSUME NEW d \in Ctx  PROVE Enforced(call'[d], passed'[d]) /\ Cleaned(call'[d])
  <2>1. CASE d = c
    <3>1. call[c] \in CallState /\ PlaceOK(call[c])
      BY CallFacts
    <3>2. Enforced(call'[c], passed'[c])
      BY <1>0, <1>2, <3>1, TurnEnforced
    <3>3. Cleaned(call'[c])
      BY <1>0, <1>2, <3>1, TurnCleaned
    <3> QED
      BY <2>1, <3>2, <3>3
  <2>2. CASE d # c
    <3>1. passed'[d] = passed[d]
      BY <1>2, <2>2 DEF TypeOK, RecordsOK
    <3>2. Almost(call[d], call'[d]) /\ Enforced(call[d], passed[d]) /\ Cleaned(call[d])
      BY <1>0, <1>2, <2>2
    <3> QED
      BY <3>1, <3>2, AlmostSame
  <2> QED
    BY <2>1, <2>2
<1>7. \A d \in Ctx : Accounts(d)'
  BY <1>0, <1>1, AccountsKept
<1> QED
  BY <1>3, <1>4, <1>5, <1>6, <1>7 DEF Inv

\* A step that no call takes keeps what holds of the calls.
LEMMA CallsAtRest ==
    ASSUME Inv, UNCHANGED <<call, ledger, recorded, pastVars>>, NEW d \in Ctx
    PROVE  /\ Raced(d)' /\ Enforced(call[d], passed[d])' /\ Cleaned(call[d])' /\ Accounts(d)'
<1>1. UNCHANGED <<call, ledger, recorded, passed, found, told>>
  BY DEF pastVars, callPast
<1>2. Raced(d) /\ Enforced(call[d], passed[d]) /\ Cleaned(call[d]) /\ Accounts(d)
  BY DEF Inv
<1>3. Raced(d)'
  BY <1>1, <1>2 DEF Raced, Uses, LedgerOf
<1>4. Enforced(call[d], passed[d])' /\ Cleaned(call[d])'
  BY <1>1, <1>2 DEF Enforced, Cleaned, Lets, AllLet, Redactor
<1>5. Accounts(d)'
  BY <1>1, <1>2 DEF Accounts, Settled, Occurrences
<1> QED
  BY <1>3, <1>4, <1>5

\* The steps of the contexts between their calls.
LEMMA DryKeeps ==
    ASSUME TypeOK, Inv, NEW c \in Ctx,
           EnterDryRun(c) \/ LeaveDryRun(c) \/ \E d \in Ctx : Spawn(c, d)
    PROVE  Inv'
<1>1. UNCHANGED <<call, ledger, recorded, pastVars>> /\ call[c].pc \in Ended /\ c \in started
  BY DEF EnterDryRun, LeaveDryRun, Spawn, Free
<1>2. /\ buffer \in [Ctx -> 0..MaxBlocks] /\ inherited \in [Ctx -> 0..MaxBlocks]
      /\ tokens \in [Ctx -> Seq(0..MaxBlocks)] /\ blocks \in [Ctx -> Seq(1..MaxBlocks)]
      /\ \A d \in Ctx : Len(tokens[d]) = Len(blocks[d])
      /\ started \subseteq Ctx /\ opened \in Nat
  BY Constants DEF TypeOK, DryOK
<1>3. \A d \in Ctx : Nested(d)
  BY DEF Inv
<1>4. CASE EnterDryRun(c)
  <2>1. PICK s, t, n : /\ s = Append(blocks[c], opened + 1) /\ t = Append(tokens[c], buffer[c])
                       /\ n = Len(blocks[c])
    OBVIOUS
  <2>2. /\ tokens' = [tokens EXCEPT ![c] = t] /\ blocks' = [blocks EXCEPT ![c] = s]
        /\ buffer' = [buffer EXCEPT ![c] = opened + 1] /\ UNCHANGED <<started, inherited>>
    BY <1>2, <1>4, <2>1 DEF EnterDryRun
  <2>3. /\ Len(s) = n + 1 /\ n \in Nat /\ s # <<>> /\ Last(s) = opened + 1 /\ DOMAIN t = 1..(n + 1)
        /\ \A k \in 1..n : s[k] = blocks[c][k] /\ t[k] = tokens[c][k]
        /\ t[n + 1] = buffer[c] /\ DOMAIN tokens[c] = 1..n
    <3>1. PICK S, T : S = Nat /\ T = 0..MaxBlocks
      OBVIOUS
    <3>2. /\ blocks[c] \in Seq(S) /\ opened + 1 \in S /\ tokens[c] \in Seq(T) /\ buffer[c] \in T
      BY <1>2, <3>1, Constants
    <3>3. /\ s \in Seq(S) /\ t \in Seq(T) /\ Len(s) = n + 1 /\ n \in Nat /\ Len(t) = Len(tokens[c]) + 1
          /\ \A k \in 1..n : s[k] = blocks[c][k]
          /\ \A k \in 1..Len(tokens[c]) : t[k] = tokens[c][k]
          /\ s[n + 1] = opened + 1 /\ t[Len(tokens[c]) + 1] = buffer[c]
      BY <2>1, <3>2, AppendProperties
    <3>4. Len(tokens[c]) = n
      BY <1>2, <2>1
    <3> QED
      BY <3>2, <3>3, <3>4 DEF Last
  <2>4. \A k \in DOMAIN t : t[k] = IF k = 1 THEN inherited[c] ELSE s[k - 1]
    <3>1. ASSUME NEW k \in 1..n  PROVE t[k] = IF k = 1 THEN inherited[c] ELSE s[k - 1]
      <4>1. tokens[c][k] = IF k = 1 THEN inherited[c] ELSE blocks[c][k - 1]
        BY <1>3, <2>3, <3>1 DEF Nested
      <4>2. k # 1 => k - 1 \in 1..n
        BY <2>3, <3>1
      <4> QED
        BY <2>3, <3>1, <4>1, <4>2
    <3>2. t[n + 1] = IF n + 1 = 1 THEN inherited[c] ELSE s[n]
      <4>1. buffer[c] = IF blocks[c] # <<>> THEN blocks[c][n] ELSE inherited[c]
        BY <1>3, <2>1 DEF Nested, Last
      <4>2. blocks[c] # <<>> <=> n # 0
        BY <1>2, <2>1
      <4>3. n # 0 => s[n] = blocks[c][n]
        BY <2>3
      <4> QED
        BY <2>3, <4>1, <4>2, <4>3
    <3>3. \A k \in DOMAIN t : k \in 1..n \/ k = n + 1
      BY <2>3
    <3> QED
      BY <2>3, <3>1, <3>2, <3>3
  <2>5. ASSUME NEW d \in Ctx  PROVE Nested(d)'
    <3>1. CASE d = c
      BY <1>1, <1>2, <2>2, <2>3, <2>4, <3>1 DEF Nested
    <3>2. CASE d # c
      BY <1>1, <1>2, <1>3, <2>2, <3>2 DEF Nested
    <3> QED
      BY <3>1, <3>2
  <2>6. Asleep'
    BY <1>1, <2>2 DEF Inv, Asleep
  <2> QED
    BY <1>1, <2>5, <2>6, CallsAtRest DEF Inv
<1>5. CASE LeaveDryRun(c)
  <2>1. PICK s, t, n, b : /\ s = Front(blocks[c]) /\ t = Front(tokens[c])
                          /\ n = Len(blocks[c]) /\ b = Last(tokens[c])
    OBVIOUS
  <2>2. /\ tokens' = [tokens EXCEPT ![c] = t] /\ blocks' = [blocks EXCEPT ![c] = s]
        /\ buffer' = [buffer EXCEPT ![c] = b] /\ UNCHANGED <<started, inherited>>
        /\ tokens[c] # <<>>
    BY <1>2, <1>5, <2>1 DEF LeaveDryRun
  <2>3. /\ n \in Nat /\ n > 0 /\ n \in DOMAIN tokens[c] /\ Len(s) = n - 1
        /\ s \in Seq(1..MaxBlocks)
        /\ \A k \in DOMAIN s : k \in 1..(n - 1) /\ s[k] = blocks[c][k]
        /\ \A k \in DOMAIN t : k \in 1..(n - 1) /\ k \in DOMAIN tokens[c] /\ t[k] = tokens[c][k]
        /\ b = tokens[c][n]
    <3>1. PICK S, T : S = 1..MaxBlocks /\ T = 0..MaxBlocks
      OBVIOUS
    <3>2. blocks[c] \in Seq(S) /\ tokens[c] \in Seq(T) /\ Len(tokens[c]) = n
      BY <1>2, <2>1, <3>1
    <3>3. blocks[c] # <<>>
      BY <2>1, <2>2, <3>2
    <3>4. /\ n \in Nat /\ n > 0 /\ s \in Seq(S) /\ Len(s) = n - 1
          /\ \A k \in DOMAIN s : k \in 1..(n - 1) /\ s[k] = blocks[c][k]
      BY <2>1, <3>2, <3>3, FrontFacts
    <3>5. /\ n \in DOMAIN tokens[c] /\ b = tokens[c][n]
          /\ \A k \in DOMAIN t : k \in 1..(n - 1) /\ k \in DOMAIN tokens[c] /\ t[k] = tokens[c][k]
      BY <2>1, <2>2, <3>2, FrontFacts
    <3> QED
      BY <3>1, <3>4, <3>5
  <2>4. \A k \in DOMAIN t : t[k] = IF k = 1 THEN inherited[c] ELSE s[k - 1]
    <3> SUFFICES ASSUME NEW k \in DOMAIN t
                 PROVE  t[k] = IF k = 1 THEN inherited[c] ELSE s[k - 1]
      OBVIOUS
    <3>1. tokens[c][k] = IF k = 1 THEN inherited[c] ELSE blocks[c][k - 1]
      BY <1>3, <2>3 DEF Nested
    <3>2. k # 1 => k - 1 \in DOMAIN s
      <4>1. DOMAIN s = 1..(n - 1)
        BY <2>3
      <4> QED
        BY <2>3, <4>1
    <3> QED
      BY <2>3, <3>1, <3>2
  <2>5. b = IF s # <<>> THEN Last(s) ELSE inherited[c]
    <3>1. b = IF n = 1 THEN inherited[c] ELSE blocks[c][n - 1]
      BY <1>3, <2>3 DEF Nested
    <3>2. s # <<>> <=> n # 1
      BY <2>3
    <3>3. n # 1 => Last(s) = s[n - 1] /\ n - 1 \in DOMAIN s
      <4>1. DOMAIN s = 1..(n - 1)
        BY <2>3
      <4> QED
        BY <2>3, <4>1 DEF Last
    <3> QED
      BY <2>3, <3>1, <3>2, <3>3
  <2>6. ASSUME NEW d \in Ctx  PROVE Nested(d)'
    <3>1. CASE d = c
      BY <1>1, <1>2, <2>2, <2>4, <2>5, <3>1 DEF Nested
    <3>2. CASE d # c
      BY <1>1, <1>2, <1>3, <2>2, <3>2 DEF Nested
    <3> QED
      BY <3>1, <3>2
  <2>7. Asleep'
    BY <1>1, <2>2 DEF Inv, Asleep
  <2> QED
    BY <1>1, <2>6, <2>7, CallsAtRest DEF Inv
<1>6. ASSUME NEW e \in Ctx, Spawn(c, e)  PROVE Inv'
  <2>1. /\ e \notin started /\ started' = started \cup {e} /\ UNCHANGED <<tokens, blocks>>
        /\ buffer' = [buffer EXCEPT ![e] = buffer[c]]
        /\ inherited' = [inherited EXCEPT ![e] = buffer[c]]
    BY <1>6 DEF Spawn
  <2>2. call[e].pc \in Ended /\ tokens[e] = <<>> /\ blocks[e] = <<>>
    BY <2>1 DEF Inv, Asleep, Idle, Ended
  <2>3. ASSUME NEW d \in Ctx  PROVE Nested(d)'
    <3>1. CASE d = e
      BY <1>1, <1>2, <2>1, <2>2, <3>1 DEF Nested
    <3>2. CASE d # e
      BY <1>1, <1>2, <1>3, <2>1, <3>2 DEF Nested
    <3> QED
      BY <3>1, <3>2
  <2>4. Asleep'
    BY <1>1, <2>1 DEF Inv, Asleep
  <2> QED
    BY <1>1, <2>3, <2>4, CallsAtRest DEF Inv
<1> QED
  BY <1>4, <1>5, <1>6

\* No violation of a call that has not begun was noted.
LEMMA NoneYet ==
    ASSUME TypeOK, NEW b \in 1..MaxBlocks, NEW y \in Nat, y > calls \/ y = 0
    PROVE  Occurrences(b, y) = 0
<1>1. recorded[b] \in Seq(1..MaxCalls) /\ \A k \in DOMAIN recorded[b] : recorded[b][k] <= calls
  BY DEF TypeOK, RecordsOK
<1>2. PICK S, s : S = 1..MaxCalls /\ s = recorded[b]
  OBVIOUS
<1>3. \A k \in DOMAIN s : s[k] \in S
  <2>1. s \in Seq(S)
    BY <1>1, <1>2
  <2> QED
    BY <2>1
<1>4. \A k \in DOMAIN s : s[k] # y
  <2>1. \A k \in DOMAIN s : s[k] \in Nat /\ s[k] > 0 /\ s[k] <= calls
    BY <1>1, <1>2, <1>3, Constants
  <2>2. calls \in Nat
    BY Constants DEF TypeOK, CallsOK
  <2> QED
    BY <2>1, <2>2
<1>5. {i \in DOMAIN recorded[b] : recorded[b][i] = y} = {}
  BY <1>2, <1>4
<1> QED
  BY <1>5, FS_EmptySet DEF Occurrences

\* A call that begins keeps the invariant.
LEMMA BeginKeeps ==
    ASSUME TypeOK, Inv, NEW c \in Ctx, NEW r \in Request, Begin(c, r)
    PROVE  Inv'
<1>1. PICK o : o = call'[c]
  OBVIOUS
<1>2. /\ TypeOK' /\ o.pc = "check" /\ o.id = calls + 1 /\ o.dry = buffer[c] /\ o.phase = "pre"
      /\ o.g = 1 /\ o.i = 1 /\ call' = [call EXCEPT ![c] = o] /\ o.agent \in Agent
  BY <1>1, BeginTypes
<1>3. /\ call[c].pc \in Ended /\ c \in started /\ UNCHANGED <<ledger, recorded>> /\ UNCHANGED dryVars
      /\ passed' = [passed EXCEPT ![c] = {}] /\ found' = [found EXCEPT ![c] = 0]
      /\ told' = [told EXCEPT ![c] = 0]
  BY DEF Begin, Free
<1>4. /\ call \in [Ctx -> CallState] /\ found \in [Ctx -> Nat] /\ told \in [Ctx -> Nat]
      /\ passed \in [Ctx -> SUBSET ({"pre", "post"} \X Nat \X Nat)] /\ calls \in Nat
  BY CallFacts, Constants DEF TypeOK, CallsOK, RecordsOK
<1>5. call'[c] = o /\ \A d \in Ctx \ {c} : call'[d] = call[d]
  BY <1>2, <1>4
<1>6. \A d \in Ctx : Nested(d) /\ Raced(d) /\ Enforced(call[d], passed[d]) /\ Cleaned(call[d])
                     /\ Accounts(d)
  BY DEF Inv
<1>7. Asleep'
  BY <1>3, <1>5 DEF Inv, Asleep, dryVars
<1>8. ASSUME NEW d \in Ctx  PROVE Nested(d)'
  BY <1>2, <1>3, <1>5, <1>6 DEF Nested, dryVars
<1>9. ASSUME NEW d \in Ctx  PROVE Raced(d)'
  <2>1. CASE d = c
    BY <1>2, <1>5, <2>1 DEF Raced, Metering
  <2>2. CASE d # c
    <3>1. call'[d] = call[d] /\ LedgerOf(d)' = LedgerOf(d) /\ ledger' = ledger
      BY <1>3, <1>5, <2>2 DEF LedgerOf
    <3>2. \A e \in Ctx : Uses(e, LedgerOf(d))' => Uses(e, LedgerOf(d))
      <4>1. ASSUME NEW e \in Ctx, Uses(e, LedgerOf(d))'  PROVE Uses(e, LedgerOf(d))
        <5>1. e # c
          BY <1>2, <1>5, <4>1 DEF Uses, Metering
        <5>2. call'[e] = call[e]
          BY <1>5, <5>1
        <5> QED
          BY <3>1, <4>1, <5>2 DEF Uses, LedgerOf
      <4> QED
        BY <4>1
    <3> QED
      BY <1>6, <3>1, <3>2 DEF Raced
  <2> QED
    BY <2>1, <2>2
<1>10. ASSUME NEW d \in Ctx  PROVE Enforced(call'[d], passed'[d]) /\ Cleaned(call'[d])
  <2>1. CASE d = c
    <3>1. o \in CallState /\ PlaceOK(o) /\ o.pc \in Asking
      BY <1>2, <1>5 DEF TypeOK, CallsOK, Asking
    <3>2. /\ \A g \in DOMAIN Groups[o.agent] : ~(g < 1)
          /\ \A j \in DOMAIN Group(o).policies : ~(j < 1)
      BY <3>1, Place
    <3> HIDE DEF Lets, Redactor
    <3>3. Enforced(o, passed'[c])
      BY <1>2, <3>2 DEF Enforced, Asking, Metering
    <3>4. Cleaned(o)
      BY <1>2, <3>2 DEF Cleaned, Asking, Metering
    <3> QED
      BY <1>5, <2>1, <3>3, <3>4
  <2>2. CASE d # c
    BY <1>3, <1>4, <1>5, <1>6, <2>2
  <2> QED
    BY <2>1, <2>2
<1>11. ASSUME NEW d \in Ctx  PROVE Accounts(d)'
  <2>0. \A b, y : Occurrences(b, y)' = Occurrences(b, y)
    BY <1>3 DEF Occurrences
  <2>1. \A e \in Ctx : call[e].id \in Nat /\ call[e].id <= calls
    BY CallFacts
  <2>2. CASE d = c
    <3>1. found'[c] = 0 /\ told'[c] = 0 /\ Settled(c)' = 0
      BY <1>2, <1>3, <1>4, <1>5 DEF Settled
    <3>3. \A e \in Ctx \ {c} : call'[e].id # call'[c].id
      BY <1>2, <1>4, <1>5, <2>1
    <3>4. call'[c].id # 0 /\ call'[c].pc = "check"
      BY <1>2, <1>4, <1>5
    <3>5. \A b \in 1..MaxBlocks : Occurrences(b, call[c].id)' = 0
      <4>1. PICK y : y = calls + 1
        OBVIOUS
      <4>2. \A b \in 1..MaxBlocks : Occurrences(b, y) = 0
        BY <1>4, <4>1, NoneYet
      <4>3. call'[c].id = y
        BY <1>2, <1>5, <4>1
      <4>4. \A b \in 1..MaxBlocks : Occurrences(b, y)' = 0
        BY <1>3, <4>2 DEF Occurrences
      <4> QED
        BY <4>3, <4>4 DEF Occurrences
    <3> QED
      BY <2>2, <3>1, <3>3, <3>4, <3>5 DEF Accounts
  <2>3. CASE d # c
    <3>1. found'[d] = found[d] /\ told'[d] = told[d] /\ call'[d] = call[d] /\ Settled(d)' = Settled(d)
      BY <1>3, <1>4, <1>5, <2>3 DEF Settled
    <3>2. \A e \in Ctx \ {d} : call[d].id # 0 => call'[e].id # call[d].id
      BY <1>2, <1>4, <1>5, <1>6, <2>1, <2>3 DEF Accounts
    <3>3. \A b \in 1..MaxBlocks : Occurrences(b, call[d].id)' = Occurrences(b, call[d].id)
      BY <1>3, <3>1 DEF Occurrences
    <3> QED
      BY <1>6, <3>1, <3>2, <3>3 DEF Accounts
  <2> QED
    BY <2>2, <2>3
<1> QED
  BY <1>7, <1>8, <1>9, <1>10, <1>11 DEF Inv

\* At the start nothing has been asked.
LEMMA InvAtStart ==
    ASSUME Init  PROVE Inv
<1>1. TypeOK
  BY TypesAtStart
<1>2. \A d \in Ctx : /\ call[d] = Idle /\ tokens[d] = <<>> /\ blocks[d] = <<>> /\ buffer[d] = 0
                     /\ inherited[d] = 0 /\ found[d] = 0 /\ told[d] = 0
  BY DEF Init
<1>3. Idle.pc = "idle" /\ Idle.id = 0 /\ Idle.dry = 0
  BY DEF Idle
<1> HIDE DEF Idle
<1>4. ASSUME NEW d \in Ctx
      PROVE  Nested(d) /\ Raced(d) /\ Enforced(call[d], passed[d]) /\ Cleaned(call[d])
  BY <1>2, <1>3 DEF Nested, Raced, Enforced, Cleaned, Ended, Metering, Asking
<1>5. ASSUME NEW d \in Ctx  PROVE Accounts(d)
  <2>1. \A b \in 1..MaxBlocks : Occurrences(b, call[d].id) = 0
    BY <1>1, <1>2, <1>3, NoneYet
  <2>2. Settled(d) = 0
    BY <1>2, <1>3 DEF Settled
  <2> QED
    BY <1>2, <1>3, <2>1, <2>2 DEF Accounts
<1> QED
  BY <1>2, <1>4, <1>5 DEF Inv, Asleep

\* Every step keeps the invariant.
LEMMA InvKept ==
    ASSUME TypeOK, Inv, [Next]_vars
    PROVE  Inv'
<1>1. ASSUME UNCHANGED <<call, ledger, recorded, pastVars, dryVars>>  PROVE Inv'
  <2>1. \A d \in Ctx : Nested(d)'
    BY <1>1 DEF Inv, Nested, dryVars
  <2>2. Asleep'
    BY <1>1 DEF Inv, Asleep, dryVars
  <2>3. UNCHANGED <<call, ledger, recorded, pastVars>>
    BY <1>1
  <2> QED
    BY <2>1, <2>2, <2>3, CallsAtRest DEF Inv
<1>2. CASE Tick
  BY <1>1, <1>2 DEF Tick
<1>3. CASE UNCHANGED vars
  BY <1>1, <1>3 DEF vars
<1>4. ASSUME NEW c \in Ctx, EnterDryRun(c) \/ LeaveDryRun(c) \/ \E d \in Ctx : Spawn(c, d)
      PROVE  Inv'
  BY <1>4, DryKeeps
<1>5. ASSUME NEW c \in Ctx, NEW r \in Request, Begin(c, r)  PROVE Inv'
  BY <1>5, BeginKeeps
<1>6. ASSUME NEW c \in Ctx, CallStep(c)  PROVE Inv'
  BY <1>6, CallKeeps
<1> QED
  BY <1>2, <1>3, <1>4, <1>5, <1>6 DEF Next

------------------------------------------------------------------------------
(* Sums over a deque                                                       *)

\* Induction over the natural numbers, for a set.
LEMMA Induction ==
    ASSUME NEW S, 0 \in S, \A n \in Nat : n \in S => n + 1 \in S
    PROVE  \A n \in Nat : n \in S
<1> DEFINE T == {n \in Nat : n \notin S}
<1> SUFFICES ASSUME T # {}  PROVE FALSE
  OBVIOUS
<1>1. T \subseteq Nat
  OBVIOUS
<1>2. PICK x \in T : \A y \in T : x <= y
  <2> HIDE DEF T
  <2> QED  BY <1>1, MinFacts
<1>3. x \in Nat /\ x # 0 /\ x \notin S
  OBVIOUS
<1>4. x - 1 \in Nat /\ x - 1 \notin T
  BY <1>2, <1>3
<1> QED
  BY <1>3, <1>4

\* The running sums up to the m-th entry.
Adds(f, m, entries, chosen) ==
    /\ f \in [0..m -> Nat] /\ f[0] = 0
    /\ \A n \in 1..m : f[n] = f[n - 1] + IF n \in chosen THEN entries[n].amount ELSE 0

\* There are such sums ...
LEMMA SumsExist ==
    ASSUME NEW entries \in Seq(Entry), NEW chosen
    PROVE  \E f : Adds(f, Len(entries), entries, chosen)
<1> DEFINE S == {m \in Nat : m <= Len(entries) => \E f : Adds(f, m, entries, chosen)}
<1>1. 0 \in S
  <2>1. Adds([n \in 0..0 |-> 0], 0, entries, chosen)
    BY DEF Adds
  <2> QED
    BY <2>1
<1>2. ASSUME NEW m \in Nat, m \in S  PROVE m + 1 \in S
  <2> SUFFICES ASSUME m + 1 <= Len(entries)  PROVE \E f : Adds(f, m + 1, entries, chosen)
    OBVIOUS
  <2>1. PICK f : Adds(f, m, entries, chosen)
    BY <1>2
  <2>2. entries[m + 1].amount \in Nat
    <3>1. entries[m + 1] \in Entry
      OBVIOUS
    <3> QED
      BY <3>1 DEF Entry
  <2> DEFINE a == IF m + 1 \in chosen THEN entries[m + 1].amount ELSE 0
             g == [n \in 0..(m + 1) |-> IF n = m + 1 THEN f[m] + a ELSE f[n]]
  <2>3. a \in Nat /\ f[m] \in Nat /\ \A n \in 0..m : f[n] \in Nat
    BY <2>1, <2>2 DEF Adds
  <2> HIDE DEF a
  <2>4. g \in [0..(m + 1) -> Nat] /\ g[0] = 0 /\ g[m + 1] = g[m] + a
    BY <2>1, <2>3 DEF Adds
  <2>5. \A n \in 1..m : g[n] = f[n] /\ g[n - 1] = f[n - 1]
    OBVIOUS
  <2> HIDE DEF g
  <2>6. ASSUME NEW n \in 1..(m + 1)
        PROVE  g[n] = g[n - 1] + IF n \in chosen THEN entries[n].amount ELSE 0
    <3>1. CASE n = m + 1
      BY <2>4, <3>1 DEF a
    <3>2. CASE n # m + 1
      <4>1. n \in 1..m
        BY <3>2
      <4> QED
        BY <2>1, <2>5, <4>1 DEF Adds
    <3> QED
      BY <3>1, <3>2
  <2>7. Adds(g, m + 1, entries, chosen)
    BY <2>4, <2>6 DEF Adds
  <2> QED
    BY <2>7
<1> HIDE DEF S
<1>3. Len(entries) \in S
  BY <1>1, <1>2, Induction
<1> QED
  BY <1>3 DEF S

\* ... and SumOf is the last of them.
LEMMA SumIs ==
    ASSUME NEW entries \in Seq(Entry), NEW chosen
    PROVE  \E f : /\ Adds(f, Len(entries), entries, chosen)
                  /\ SumOf(entries, chosen) = f[Len(entries)]
<1> DEFINE Unfold(g) ==
              [n \in 0..Len(entries) |->
                 IF n = 0 THEN 0
                 ELSE g[n - 1] + IF n \in chosen THEN entries[n].amount ELSE 0]
           sum == CHOOSE g : g = Unfold(g)
<1>1. PICK f : Adds(f, Len(entries), entries, chosen)
  BY SumsExist
<1>2. f = Unfold(f)
  BY <1>1 DEF Adds
<1>3. sum = Unfold(sum)
  BY <1>2
<1>4. SumOf(entries, chosen) = sum[Len(entries)]
  BY DEF SumOf
<1> HIDE DEF sum
<1> DEFINE S == {m \in Nat : m <= Len(entries) => sum[m] = f[m]}
<1>5. 0 \in S
  BY <1>1, <1>3 DEF Adds
<1>6. ASSUME NEW m \in Nat, m \in S  PROVE m + 1 \in S
  <2> SUFFICES ASSUME m + 1 <= Len(entries)  PROVE sum[m + 1] = f[m + 1]
    OBVIOUS
  <2>1. sum[m] = f[m]
    BY <1>6
  <2>2. sum[m + 1] = sum[m] + IF m + 1 \in chosen THEN entries[m + 1].amount ELSE 0
    BY <1>3
  <2>3. f[m + 1] = f[m] + IF m + 1 \in chosen THEN entries[m + 1].amount ELSE 0
    BY <1>1 DEF Adds
  <2> QED
    BY <2>1, <2>2, <2>3
<1> HIDE DEF S
<1>7. Len(entries) \in S
  BY <1>5, <1>6, Induction
<1>8. sum[Len(entries)] = f[Len(entries)]
  BY <1>7 DEF S
<1> QED
  BY <1>1, <1>4, <1>8

\* A sum is a natural number.
LEMMA SumType ==
    ASSUME NEW entries \in Seq(Entry), NEW chosen
    PROVE  SumOf(entries, chosen) \in Nat
<1>1. PICK f : /\ Adds(f, Len(entries), entries, chosen)
               /\ SumOf(entries, chosen) = f[Len(entries)]
  BY SumIs
<1> QED
  BY <1>1 DEF Adds

\* Nothing chosen sums up to nothing.
LEMMA SumOfNone ==
    ASSUME NEW entries \in Seq(Entry), NEW chosen, \A n \in 1..Len(entries) : n \notin chosen
    PROVE  SumOf(entries, chosen) = 0
<1>1. PICK f : /\ Adds(f, Len(entries), entries, chosen)
               /\ SumOf(entries, chosen) = f[Len(entries)]
  BY SumIs
<1> DEFINE S == {m \in Nat : m <= Len(entries) => f[m] = 0}
<1>2. 0 \in S
  BY <1>1 DEF Adds
<1>3. ASSUME NEW m \in Nat, m \in S  PROVE m + 1 \in S
  <2> SUFFICES ASSUME m + 1 <= Len(entries)  PROVE f[m + 1] = 0
    OBVIOUS
  <2>1. f[m] = 0 /\ m + 1 \in 1..Len(entries)
    BY <1>3
  <2> QED
    BY <1>1, <2>1 DEF Adds
<1> HIDE DEF S
<1>4. Len(entries) \in S
  BY <1>2, <1>3, Induction
<1> QED
  BY <1>1, <1>4 DEF S

\* One more entry.
LEMMA SumAppend ==
    ASSUME NEW entries \in Seq(Entry), NEW e \in Entry, NEW chosen, NEW more,
           \A n \in 1..Len(entries) : n \in chosen <=> n \in more
    PROVE  SumOf(Append(entries, e), more) =
           SumOf(entries, chosen) + IF Len(entries) + 1 \in more THEN e.amount ELSE 0
<1> DEFINE l == Len(entries)
           t == Append(entries, e)
<1>1. t \in Seq(Entry) /\ Len(t) = l + 1 /\ t[l + 1] = e /\ \A n \in 1..l : t[n] = entries[n]
  OBVIOUS
<1>2. PICK f : Adds(f, l, entries, chosen) /\ SumOf(entries, chosen) = f[l]
  BY SumIs
<1> HIDE DEF t
<1>3. PICK g : Adds(g, l + 1, t, more) /\ SumOf(t, more) = g[l + 1]
  BY <1>1, SumIs
<1>0. l \in Nat
  OBVIOUS
<1> HIDE DEF l
<1> DEFINE S == {m \in Nat : m <= l => g[m] = f[m]}
<1>4. 0 \in S
  BY <1>2, <1>3 DEF Adds
<1>5. ASSUME NEW m \in Nat, m \in S  PROVE m + 1 \in S
  <2> SUFFICES ASSUME m + 1 <= l  PROVE g[m + 1] = f[m + 1]
    OBVIOUS
  <2>1. g[m] = f[m] /\ m + 1 \in 1..l /\ m + 1 \in 1..(l + 1) /\ (m + 1) - 1 = m
    BY <1>0, <1>5
  <2>2. t[m + 1] = entries[m + 1] /\ (m + 1 \in chosen <=> m + 1 \in more)
    BY <1>1, <2>1 DEF l
  <2>3. g[m + 1] = g[m] + IF m + 1 \in more THEN t[m + 1].amount ELSE 0
    BY <1>3, <2>1 DEF Adds
  <2>4. f[m + 1] = f[m] + IF m + 1 \in chosen THEN entries[m + 1].amount ELSE 0
    BY <1>2, <2>1 DEF Adds
  <2> QED
    BY <2>1, <2>2, <2>3, <2>4
<1> HIDE DEF S
<1>6. l \in S
  BY <1>0, <1>4, <1>5, Induction
<1>7. g[l] = f[l]
  BY <1>0, <1>6 DEF S
<1>8. l + 1 \in 1..(l + 1) /\ (l + 1) - 1 = l
  BY <1>0
<1>9. g[l + 1] = g[l] + IF l + 1 \in more THEN t[l + 1].amount ELSE 0
  BY <1>3, <1>8 DEF Adds
<1> QED
  BY <1>1, <1>2, <1>3, <1>7, <1>9 DEF l, t

\* At most one entry is chosen in addition.
LEMMA SumWith ==
    ASSUME NEW entries \in Seq(Entry), NEW chosen, NEW more, NEW j \in 1..Len(entries),
           \A n \in 1..Len(entries) : n \in more => n \in chosen \/ n = j
    PROVE  SumOf(entries, more) <=
           SumOf(entries, chosen) + IF j \in more THEN entries[j].amount ELSE 0
<1> DEFINE l == Len(entries)
           a == IF j \in more THEN entries[j].amount ELSE 0
<1>1. \A n \in 1..l : entries[n].amount \in Nat
  <2>1. \A n \in 1..l : entries[n] \in Entry
    OBVIOUS
  <2> QED
    BY <2>1 DEF Entry
<1>2. PICK f : Adds(f, l, entries, chosen) /\ SumOf(entries, chosen) = f[l]
  BY SumIs
<1>3. PICK g : Adds(g, l, entries, more) /\ SumOf(entries, more) = g[l]
  BY SumIs
<1>4. l \in Nat /\ a \in Nat
  BY <1>1
<1>5. \A n \in 1..l : n \in more => n \in chosen \/ (n = j /\ a = entries[n].amount)
  OBVIOUS
<1> HIDE DEF l, a
<1> DEFINE S == {m \in Nat : m <= l => g[m] <= f[m] + IF m < j THEN 0 ELSE a}
<1>6. 0 \in S
  BY <1>2, <1>3, <1>4 DEF Adds
<1>7. ASSUME NEW m \in Nat, m \in S  PROVE m + 1 \in S
  <2> SUFFICES ASSUME m + 1 <= l  PROVE g[m + 1] <= f[m + 1] + IF m + 1 < j THEN 0 ELSE a
    OBVIOUS
  <2> DEFINE x == entries[m + 1].amount
  <2>1. /\ m + 1 \in 1..l /\ (m + 1) - 1 = m /\ x \in Nat /\ f[m] \in Nat /\ g[m] \in Nat
        /\ f[m + 1] \in Nat /\ g[m + 1] \in Nat
    BY <1>1, <1>2, <1>3, <1>4 DEF Adds
  <2>2. g[m] <= f[m] + IF m < j THEN 0 ELSE a
    BY <1>4, <1>7
  <2>3. g[m + 1] = g[m] + IF m + 1 \in more THEN x ELSE 0
    BY <1>3, <2>1 DEF Adds
  <2>4. f[m + 1] = f[m] + IF m + 1 \in chosen THEN x ELSE 0
    BY <1>2, <2>1 DEF Adds
  <2>5. m + 1 \in more => m + 1 \in chosen \/ (m + 1 = j /\ a = x)
    BY <1>5, <2>1
  <2> HIDE DEF x
  <2>6. CASE m + 1 \in more /\ m + 1 \notin chosen
    <3>1. g[m + 1] = g[m] + x /\ f[m + 1] = f[m] /\ m + 1 = j /\ a = x
      BY <2>1, <2>3, <2>4, <2>5, <2>6
    <3> QED
      BY <1>4, <2>1, <2>2, <3>1
  <2>7. CASE ~(m + 1 \in more /\ m + 1 \notin chosen)
    <3>1. \/ g[m + 1] = g[m] + x /\ f[m + 1] = f[m] + x
          \/ g[m + 1] = g[m] /\ f[m + 1] = f[m] + x
          \/ g[m + 1] = g[m] /\ f[m + 1] = f[m]
      BY <2>1, <2>3, <2>4, <2>7
    <3> QED
      BY <1>4, <2>1, <2>2, <3>1
  <2> QED
    BY <2>6, <2>7
<1> HIDE DEF S
<1>8. l \in S
  BY <1>4, <1>6, <1>7, Induction
<1>9. g[l] <= f[l] + a
  <2>1. g[l] <= f[l] + IF l < j THEN 0 ELSE a
    BY <1>4, <1>8 DEF S
  <2>2. j <= l /\ j \in Nat
    BY DEF l
  <2> QED
    BY <1>4, <2>1, <2>2
<1> QED
  BY <1>2, <1>3, <1>9 DEF a

\* What is chosen of a history is found in its first part, or among what is left.
LEMMA SumCovered ==
    ASSUME NEW entries \in Seq(Entry), NEW rest \in Seq(Entry), NEW g \in Nat,
           Len(entries) = g + Len(rest), \A n \in 1..Len(rest) : rest[n] = entries[g + n],
           NEW chosen, NEW before, NEW left,
           \A n \in 1..Len(entries) : n \in chosen /\ n <= g => n \in before,
           \A n \in 1..Len(rest) : g + n \in chosen => n \in left
    PROVE  SumOf(entries, chosen) <= SumOf(entries, before) + SumOf(rest, left)
<1> DEFINE l == Len(entries)
           r == Len(rest)
<1>1. \A n \in 1..l : entries[n].amount \in Nat
  <2>1. \A n \in 1..l : entries[n] \in Entry
    OBVIOUS
  <2> QED
    BY <2>1 DEF Entry
<1>2. PICK f : Adds(f, l, entries, chosen) /\ SumOf(entries, chosen) = f[l]
  BY SumIs
<1>3. PICK b : Adds(b, l, entries, before) /\ SumOf(entries, before) = b[l]
  BY SumIs
<1>4. PICK c : Adds(c, r, rest, left) /\ SumOf(rest, left) = c[r]
  BY SumIs
<1>5. l \in Nat /\ r \in Nat /\ l = g + r
  OBVIOUS
<1>6. /\ \A n \in 1..l : n \in chosen /\ n <= g => n \in before
      /\ \A n \in 1..r : g + n \in chosen => n \in left
      /\ \A n \in 1..r : rest[n] = entries[g + n]
  OBVIOUS
<1> HIDE DEF l, r
<1> DEFINE S == {m \in Nat : m <= l => f[m] <= b[m] + IF m <= g THEN 0 ELSE c[m - g]}
<1>7. 0 \in S
  BY <1>2, <1>3 DEF Adds
<1>8. ASSUME NEW m \in Nat, m \in S  PROVE m + 1 \in S
  <2> SUFFICES ASSUME m + 1 <= l
               PROVE  f[m + 1] <= b[m + 1] + IF m + 1 <= g THEN 0 ELSE c[(m + 1) - g]
    OBVIOUS
  <2> DEFINE x == entries[m + 1].amount
  <2>1. /\ m + 1 \in 1..l /\ (m + 1) - 1 = m /\ x \in Nat /\ f[m] \in Nat /\ b[m] \in Nat
        /\ f[m + 1] \in Nat /\ b[m + 1] \in Nat
    BY <1>1, <1>2, <1>3, <1>5 DEF Adds
  <2>2. f[m] <= b[m] + IF m <= g THEN 0 ELSE c[m - g]
    BY <1>5, <1>8
  <2>3. f[m + 1] = f[m] + IF m + 1 \in chosen THEN x ELSE 0
    BY <1>2, <2>1 DEF Adds
  <2>4. b[m + 1] = b[m] + IF m + 1 \in before THEN x ELSE 0
    BY <1>3, <2>1 DEF Adds
  <2>5. CASE m + 1 <= g
    <3>1. f[m] <= b[m] /\ (m + 1 \in chosen => m + 1 \in before)
      BY <1>6, <2>1, <2>2, <2>5
    <3> HIDE DEF x
    <3> QED
      BY <2>1, <2>3, <2>4, <2>5, <3>1
  <2>6. CASE ~(m + 1 <= g)
    <3> DEFINE k == (m + 1) - g
               y == c[k - 1]
               z == c[k]
    <3>1. k \in 1..r /\ k \in 0..r /\ g + k = m + 1 /\ k - 1 \in 0..r /\ m - g = k - 1
      BY <1>5, <2>1, <2>6
    <3> HIDE DEF k
    <3>2. y \in Nat /\ z \in Nat
      <4>1. c \in [0..r -> Nat]
        BY <1>4 DEF Adds
      <4> QED
        BY <3>1, <4>1
    <3>3. rest[k] = entries[m + 1]
      BY <1>6, <3>1
    <3>4. z = y + IF k \in left THEN x ELSE 0
      BY <1>4, <3>1, <3>3 DEF Adds
    <3>5. m + 1 \in chosen => k \in left
      BY <1>6, <3>1
    <3>6. f[m] <= b[m] + y
      <4>1. CASE m <= g
        BY <2>1, <2>2, <3>2, <4>1
      <4>2. CASE ~(m <= g)
        BY <2>2, <3>1, <4>2
      <4> QED
        BY <4>1, <4>2
    <3>7. f[m + 1] <= b[m + 1] + z
      <4> DEFINE f0 == f[m]
                 f1 == f[m + 1]
                 b0 == b[m]
                 b1 == b[m + 1]
      <4>1. /\ f0 \in Int /\ f1 \in Int /\ b0 \in Int /\ b1 \in Int /\ x \in Nat
            /\ y \in Int /\ z \in Int
        BY <2>1, <3>2
      <4>2. f0 <= b0 + y
        BY <3>6
      <4>3. \/ f1 = f0 + x /\ z = y + x
            \/ f1 = f0 /\ (z = y + x \/ z = y)
        BY <2>1, <2>3, <3>2, <3>4, <3>5
      <4>4. b1 = b0 + x \/ b1 = b0
        BY <2>1, <2>4
      <4>5. f1 <= b1 + z
        <5> HIDE DEF x, y, z, f0, f1, b0, b1
        <5> QED  BY <4>1, <4>2, <4>3, <4>4
      <4> QED
        BY <4>5
    <3> QED
      BY <2>6, <3>7 DEF k
  <2> QED
    BY <2>5, <2>6
<1> HIDE DEF S
<1>9. l \in S
  BY <1>5, <1>7, <1>8, Induction
<1>10. f[l] <= b[l] + c[r]
  <2>1. f[l] <= b[l] + IF l <= g THEN 0 ELSE c[l - g]
    BY <1>5, <1>9 DEF S
  <2>2. f[l] \in Nat /\ b[l] \in Nat /\ c[r] \in Nat
    BY <1>2, <1>3, <1>4, <1>5 DEF Adds
  <2>3. ~(l <= g) => l - g = r
    BY <1>5
  <2> QED
    BY <2>1, <2>2, <2>3
<1> QED
  BY <1>2, <1>3, <1>4, <1>10 DEF l, r

------------------------------------------------------------------------------
(* The limiters: what a step does to one deque                             *)

\* Contexts are finitely many, and there is one at least.
LEMMA ContextFacts ==
    /\ IsFiniteSet(Ctx) /\ Cardinality(Ctx) \in Nat
    /\ \A c \in Ctx : Cardinality(Ctx) >= 1
<1>1. IsFiniteSet(Ctx) /\ Cardinality(Ctx) \in Nat
  BY LimiterAssumption, FS_CardinalityType DEF LimiterAssumption
<1>2. ASSUME NEW c \in Ctx  PROVE Cardinality(Ctx) >= 1
  <2>1. Cardinality(Ctx) # 0
    BY <1>1, FS_EmptySet
  <2> QED
    BY <1>1, <2>1
<1> QED
  BY <1>1, <1>2

\* What a limiter is.
LEMMA LimiterFacts ==
    ASSUME NEW p \in Limiters
    PROVE  /\ PolicyOK(p) /\ p.ledger \in Ledger /\ p.windows \in Seq(Window)
           /\ p.kind \in {"rate", "cap"} /\ (p.kind = "cap" => p.perCall \in Nat)
           /\ \A j \in DOMAIN p.windows : p.windows[j].span \in Nat /\ p.windows[j].limit \in Nat
<1>1. PICK a \in Agent : \E group \in Range(Groups[a]) : p \in Range(group.policies)
  BY DEF Limiters, Policies
<1>2. PICK g \in DOMAIN Groups[a] : p \in Range(Groups[a][g].policies)
  BY <1>1 DEF Range
<1>3. PolicyOK(p)
  BY <1>2, GroupFacts, PolicyFacts DEF Range
<1>4. /\ p.ledger \in Ledger /\ p.windows \in Seq(Window)
      /\ p.kind \in {"rate", "cap"} /\ (p.kind = "cap" => p.perCall \in Nat)
  BY <1>3 DEF PolicyOK, Limiters
<1>5. \A j \in DOMAIN p.windows : p.windows[j] \in Window
  BY <1>4
<1> QED
  BY <1>3, <1>4, <1>5 DEF Window

\* Who checks a deque is at a limiter, the one that has made the deque.
LEMMA AtLimiter ==
    ASSUME NEW k \in CallState, PlaceOK(k), k.pc \in Metering
    PROVE  /\ Policy(k) \in Limiters
           /\ \A p \in Limiters : Policy(k).ledger = p.ledger => Policy(k) = p
<1>1. k.pc \in Asking /\ Meters(k, Policy(k))
  BY DEF Asking, PlaceOK
<1>2. /\ k.agent \in Agent /\ k.g \in DOMAIN Groups[k.agent]
      /\ Group(k) = Groups[k.agent][k.g] /\ k.i \in DOMAIN Group(k).policies
      /\ Policy(k) = Group(k).policies[k.i]
  BY <1>1, Place
<1>3. Group(k) \in Range(Groups[k.agent]) /\ Policy(k) \in Range(Group(k).policies)
  BY <1>2 DEF Range
<1>4. Policy(k) \in Limiters
  BY <1>1, <1>2, <1>3 DEF Limiters, Policies, Meters
<1> QED
  BY <1>4, LimiterAssumption DEF LimiterAssumption

\* The call checks this deque.
In(k, l) == k.pc \in Metering /\ Policy(k).ledger = l

\* The check goes on with the same values.
Holds(k, o) ==
    Policy(o) = Policy(k) /\ o.now = k.now /\ o.w = k.w /\ o.current = k.current

Untouched(l) == ledger'[l] = ledger[l] /\ charged'[l] = charged[l] /\ lost'[l] = lost[l]
Alike(l) == l \in overlapped' <=> l \in overlapped

\* A step of another call.
Follows(k, o, l) == (In(o, l) <=> In(k, l)) /\ (In(k, l) => Holds(k, o) /\ o.pc = k.pc)

\* A step that changes nothing for the deque, or leaves its check.
Rests(k, o, l) ==
    In(o, l) =>
       /\ In(k, l) /\ Holds(k, o)
       /\ o.pc = "pop" => ledger[l] # <<>> /\ Old(k, Policy(k), Head(ledger[l]))
       /\ o.pc = "charge" => k.w > Len(Policy(k).windows)

Begins(k, o, l) ==
    /\ ~In(k, l) /\ In(o, l) /\ o.pc \in {"meter", "trim"} /\ o.now = clock /\ o.w = 1
    /\ Policy(o).kind = "cap" => o.current.cost <= Policy(o).perCall

Pops(k, o, l) == In(k, l) /\ In(o, l) /\ Holds(k, o) /\ k.pc = "pop" /\ o.pc = "trim"

Counts(k, o, l) ==
    /\ In(k, l) /\ In(o, l) /\ k.pc = "sum" /\ o.pc = "meter" /\ ~Full(k, Policy(k))
    /\ Policy(o) = Policy(k) /\ o.now = k.now /\ o.w = k.w + 1 /\ o.current = k.current

Charges(k, o, l) == In(k, l) /\ ~In(o, l) /\ k.pc = "charge"

EntryOf(k) == [at |-> k.now, amount |-> Amount(k, Policy(k))]

\* What a step of the call c is to the deque l.
StepOn(c, l) ==
    \/ Rests(call[c], call'[c], l) /\ Untouched(l) /\ Alike(l)
    \/ /\ Begins(call[c], call'[c], l) /\ Untouched(l)
       /\ l \in overlapped' <=> l \in overlapped \/ \E d \in Ctx \ {c} : In(call[d], l)
    \/ /\ Pops(call[c], call'[c], l) /\ Alike(l) /\ charged'[l] = charged[l]
       /\ ledger[l] # <<>> /\ ledger'[l] = Tail(ledger[l])
       /\ lost'[l] = IF Needed(l, Head(ledger[l])) THEN lost[l] + Head(ledger[l]).amount
                     ELSE lost[l]
    \/ Counts(call[c], call'[c], l) /\ Untouched(l) /\ Alike(l)
    \/ /\ Charges(call[c], call'[c], l) /\ Alike(l) /\ lost'[l] = lost[l]
       /\ ledger'[l] = Append(ledger[l], EntryOf(call[c]))
       /\ charged'[l] = Append(charged[l], EntryOf(call[c]))

\* The others go on with the same values.
LEMMA OthersFollow ==
    ASSUME TypeOK, NEW c \in Ctx, Works(c), NEW d \in Ctx \ {c}, NEW l
    PROVE  Follows(call[d], call'[d], l)
<1>1. Almost(call[d], call'[d])
  BY DEF Works, CallMoves
<1>2. Policy(call'[d]) = Policy(call[d])
  BY <1>1 DEF Almost, SamePlace, SameCall, Policy, Group
<1> QED
  BY <1>1, <1>2 DEF Follows, In, Holds, Almost, SamePlace

\* A check goes on at its place, in the same window or the next.
LEMMA GoesOn ==
    ASSUME NEW k \in CallState, NEW o
    PROVE  /\ \A pc : o = Goes(k, pc) => Holds(k, o) /\ o.pc = pc
           /\ o = [k EXCEPT !.pc = "sum", !.disturbed = FALSE] => Holds(k, o) /\ o.pc = "sum"
<1>1. ASSUME NEW pc, o = Goes(k, pc)  PROVE Holds(k, o) /\ o.pc = pc
  BY <1>1 DEF Goes, CallState, Holds, Policy, Group
<1>2. ASSUME o = [k EXCEPT !.pc = "sum", !.disturbed = FALSE]
      PROVE  Holds(k, o) /\ o.pc = "sum"
  BY <1>2 DEF CallState, Holds, Policy, Group
<1> QED
  BY <1>1, <1>2

\* The deque is tested, or the next window begun.
LEMMA TrimOn ==
    ASSUME TypeOK, NEW c \in Ctx, TestEmpty(c) \/ TestOldest(c) \/ BeginSum(c), NEW l \in Ledger
    PROVE  StepOn(c, l)
<1>0. PICK k : k = call[c]
  OBVIOUS
<1>1. /\ k \in CallState /\ k.pc \in Metering /\ Policy(k).windows \in Seq(Window)
      /\ k.w \in Nat
  <2>1. k.pc \in Metering
    BY <1>0 DEF TestEmpty, TestOldest, BeginSum, Metering
  <2> QED
    BY <1>0, <2>1, MeterFacts
<1>2. Untouched(l) /\ Alike(l)
  BY DEF TestEmpty, TestOldest, BeginSum, pastVars, chargePast, Untouched, Alike
<1>3. ASSUME NEW o, Step(c, o), Holds(k, o), o.pc \in Metering,
             o.pc = "pop" => ledger[Policy(k).ledger] # <<>>
                             /\ Old(k, Policy(k), Head(ledger[Policy(k).ledger])),
             o.pc = "charge" => k.w > Len(Policy(k).windows)
      PROVE  StepOn(c, l)
  <2>2. call'[c] = o
    BY <1>3 DEF Step, TypeOK, CallsOK
  <2>3. Rests(k, o, l)
    BY <1>1, <1>3 DEF Rests, In, Holds
  <2> QED
    BY <1>0, <1>2, <2>2, <2>3 DEF StepOn
<1>7. CASE TestEmpty(c)
  <2> DEFINE pc == IF ledger[Policy(k).ledger] = <<>> THEN "meter" ELSE "look"
  <2>1. Step(c, Goes(k, pc))
    BY <1>0, <1>7 DEF TestEmpty, LedgerOf
  <2>2. pc \in Metering /\ pc \notin {"pop", "charge"}
    BY DEF Metering
  <2> HIDE DEF pc
  <2>3. PICK o : o = Goes(k, pc)
    OBVIOUS
  <2>4. Holds(k, o) /\ o.pc = pc
    BY <1>1, <2>3, GoesOn
  <2> QED
    BY <1>3, <2>1, <2>2, <2>3, <2>4
<1>8. CASE TestOldest(c) /\ ledger[Policy(k).ledger] = <<>>
  <2>1. call'[c].pc = "crashed"
    BY <1>0, <1>8, LookWorks DEF LedgerOf
  <2>2. Rests(k, call'[c], l)
    BY <2>1 DEF Rests, In, Metering
  <2> QED
    BY <1>0, <1>2, <2>2 DEF StepOn
<1>4. CASE TestOldest(c) /\ ledger[Policy(k).ledger] # <<>>
  <2> DEFINE pc == IF Old(k, Policy(k), Head(ledger[Policy(k).ledger])) THEN "pop" ELSE "meter"
  <2>1. Step(c, Goes(k, pc))
    BY <1>0, <1>4 DEF TestOldest
  <2>2. /\ pc \in Metering /\ pc # "charge"
        /\ pc = "pop" => ledger[Policy(k).ledger] # <<>>
                         /\ Old(k, Policy(k), Head(ledger[Policy(k).ledger]))
    BY <1>4 DEF Metering
  <2> HIDE DEF pc
  <2>3. PICK o : o = Goes(k, pc)
    OBVIOUS
  <2>4. Holds(k, o) /\ o.pc = pc
    BY <1>1, <2>3, GoesOn
  <2> QED
    BY <1>3, <2>1, <2>2, <2>3, <2>4
<1>5. CASE BeginSum(c) /\ k.w > Len(Policy(k).windows)
  <2>1. Step(c, Goes(k, "charge"))
    BY <1>0, <1>5 DEF BeginSum
  <2>2. "charge" \in Metering /\ "charge" # "pop"
    BY DEF Metering
  <2>3. PICK o : o = Goes(k, "charge")
    OBVIOUS
  <2>4. Holds(k, o) /\ o.pc = "charge"
    BY <1>1, <2>3, GoesOn
  <2> QED
    BY <1>3, <1>5, <2>1, <2>2, <2>3, <2>4
<1>6. CASE BeginSum(c) /\ ~(k.w > Len(Policy(k).windows))
  <2>1. Step(c, [k EXCEPT !.pc = "sum", !.disturbed = FALSE])
    BY <1>0, <1>6 DEF BeginSum
  <2>2. "sum" \in Metering /\ "sum" # "pop" /\ "sum" # "charge"
    BY DEF Metering
  <2>3. PICK o : o = [k EXCEPT !.pc = "sum", !.disturbed = FALSE]
    OBVIOUS
  <2>4. Holds(k, o) /\ o.pc = "sum"
    BY <1>1, <2>3, GoesOn
  <2> QED
    BY <1>3, <2>1, <2>2, <2>3, <2>4
<1> QED
  BY <1>4, <1>5, <1>6, <1>7, <1>8

\* The time is read.
LEMMA BeginOn ==
    ASSUME TypeOK, NEW c \in Ctx, BeginMeter(c), NEW l \in Ledger
    PROVE  StepOn(c, l)
<1>0. PICK k : k = call[c]
  OBVIOUS
<1>1. /\ k \in CallState /\ k.pc = "check" /\ ~Rejected(k, Policy(k))
      /\ Meters(k, Policy(k)) /\ k.pc \notin Metering
  BY <1>0, CallFacts DEF BeginMeter, Checking, Metering
<1>2. Untouched(l)
  BY DEF BeginMeter, callPast, Untouched
<1> DEFINE pc == IF Policy(k).windows = <<>> THEN "meter" ELSE "trim"
           others == {d \in Ctx \ {c} : Uses(d, Policy(k).ledger)}
           raced == others # {}
           o == [k EXCEPT !.pc = pc, !.now = clock, !.w = 1, !.raced = raced]
<1>3. call'[c] = o
  BY <1>0 DEF BeginMeter
<1>4. pc \in {"meter", "trim"} /\ pc \in Metering
  BY DEF Metering
<1>5. overlapped' = IF others = {} THEN overlapped ELSE overlapped \cup {Policy(k).ledger}
  BY <1>0 DEF BeginMeter
<1>6. others = {d \in Ctx \ {c} : In(call[d], Policy(k).ledger)}
  BY DEF Uses, LedgerOf, In
<1> HIDE DEF pc, others, raced
<1>7. /\ o.pc = pc /\ o.now = clock /\ o.w = 1 /\ o.current = k.current
      /\ Policy(o) = Policy(k)
  BY <1>1 DEF CallState, Policy, Group
<1> HIDE DEF o
<1>8. CASE l # Policy(k).ledger
  <2>1. Rests(k, o, l)
    BY <1>7, <1>8 DEF Rests, In
  <2>2. Alike(l)
    BY <1>5, <1>8 DEF Alike
  <2> QED
    BY <1>0, <1>2, <1>3, <2>1, <2>2 DEF StepOn
<1>9. CASE l = Policy(k).ledger
  <2>1. Policy(k).kind = "cap" => k.current.cost <= Policy(k).perCall
    <3> SUFFICES ASSUME Policy(k).kind = "cap"  PROVE k.current.cost <= Policy(k).perCall
      OBVIOUS
    <3>1. ~(k.current.cost > Policy(k).perCall)
      BY <1>1 DEF Rejected, TooDear
    <3>2. k.current.cost \in Int
      BY <1>1 DEF CallState, Outcome, NoCost
    <3>3. Policy(k).perCall \in Nat
      <4>1. PlaceOK(k) /\ k.pc \in Asking
        BY <1>0, <1>1, CallFacts DEF Asking
      <4> QED
        BY <1>1, <4>1, Place DEF PolicyOK
    <3> QED
      BY <3>1, <3>2, <3>3
  <2>2. Begins(k, o, l)
    BY <1>1, <1>4, <1>7, <1>9, <2>1 DEF Begins, In
  <2>3. l \in overlapped' <=> l \in overlapped \/ \E d \in Ctx \ {c} : In(call[d], l)
    BY <1>5, <1>6, <1>9
  <2> QED
    BY <1>0, <1>2, <1>3, <2>2, <2>3 DEF StepOn
<1> QED
  BY <1>8, <1>9

\* The oldest charge is thrown away.
LEMMA PopOn ==
    ASSUME TypeOK, NEW c \in Ctx, PopOldest(c), NEW l \in Ledger
    PROVE  StepOn(c, l)
<1>0. PICK k : k = call[c]
  OBVIOUS
<1>1. k.pc = "pop" /\ k.pc \in Metering
  BY <1>0 DEF PopOldest, Metering
<1>2. k \in CallState /\ Policy(k).ledger \in Ledger
  BY <1>0, <1>1, MeterFacts DEF LedgerOf
<1>3. UNCHANGED <<charged, overlapped>>
  BY DEF PopOldest
<1>4. CASE ledger[Policy(k).ledger] = <<>>
  <2>1. Step(c, Ends(k, "crashed")) /\ UNCHANGED <<ledger, lost>>
    BY <1>0, <1>4 DEF PopOldest, LedgerOf
  <2>2. call'[c].pc = "crashed"
    BY <1>0, <1>1, <2>1, PopWorks, <1>4 DEF LedgerOf
  <2>3. Rests(k, call'[c], l)
    BY <2>2 DEF Rests, In, Metering
  <2> QED
    BY <1>0, <1>3, <2>1, <2>3 DEF StepOn, Untouched, Alike
<1>5. CASE ledger[Policy(k).ledger] # <<>>
  <2>1. PICK o : o = Goes(k, "trim")
    OBVIOUS
  <2>2. /\ call' = Disturbing(c, Policy(k).ledger, o)
        /\ ledger' = [ledger EXCEPT ![Policy(k).ledger] = Tail(@)]
        /\ lost' = [lost EXCEPT ![Policy(k).ledger] =
                      IF Needed(Policy(k).ledger, Head(ledger[Policy(k).ledger]))
                      THEN @ + Head(ledger[Policy(k).ledger]).amount ELSE @]
    BY <1>0, <1>5, <2>1 DEF PopOldest, LedgerOf
  <2>3. Holds(k, o) /\ o.pc = "trim" /\ o.pc \in Metering
    BY <1>2, <2>1, GoesOn DEF Metering
  <2>4. call'[c] = o
    BY <2>2 DEF Disturbing
  <2>5. ledger \in [Ledger -> Seq(Entry)] /\ lost \in [Ledger -> Nat]
    BY DEF TypeOK, LedgersOK
  <2>6. CASE l # Policy(k).ledger
    <3>1. Untouched(l) /\ Alike(l)
      BY <1>3, <2>2, <2>5, <2>6 DEF Untouched, Alike
    <3>2. Rests(k, o, l)
      BY <2>3, <2>6 DEF Rests, In, Holds
    <3> QED
      BY <1>0, <2>4, <3>1, <3>2 DEF StepOn
  <2>7. CASE l = Policy(k).ledger
    <3>1. Pops(k, o, l)
      BY <1>1, <2>3, <2>7 DEF Pops, In, Holds
    <3>2. /\ ledger[l] # <<>> /\ ledger'[l] = Tail(ledger[l])
          /\ lost'[l] = IF Needed(l, Head(ledger[l])) THEN lost[l] + Head(ledger[l]).amount
                        ELSE lost[l]
      BY <1>5, <2>2, <2>5, <2>7
    <3>3. Alike(l) /\ charged'[l] = charged[l]
      BY <1>3 DEF Alike
    <3> QED
      BY <1>0, <2>4, <3>1, <3>2, <3>3 DEF StepOn
  <2> QED
    BY <2>6, <2>7
<1> QED
  BY <1>4, <1>5

\* A window is counted.
LEMMA SumOn ==
    ASSUME TypeOK, NEW c \in Ctx, EndSum(c), NEW l \in Ledger
    PROVE  StepOn(c, l)
<1>0. PICK k : k = call[c]
  OBVIOUS
<1>1. k.pc = "sum" /\ k.pc \in Metering /\ Untouched(l) /\ Alike(l)
  BY <1>0 DEF EndSum, Metering, chargePast, Untouched, Alike
<1>2. k \in CallState /\ k.w \in Nat
  BY <1>0, <1>1, MeterFacts
<1>3. CASE call'[c].pc \notin Metering
  <2>1. Rests(k, call'[c], l)
    BY <1>3 DEF Rests, In
  <2> QED
    BY <1>0, <1>1, <2>1 DEF StepOn
<1>4. CASE call'[c].pc \in Metering
  <2>1. ~Full(k, Policy(k)) /\ Step(c, [k EXCEPT !.pc = "meter", !.w = @ + 1])
    <3>1. CASE k.disturbed /\ Step(c, Ends(k, "crashed"))
      <4>1. call'[c].pc = "crashed"
        BY <1>0, <1>1, <3>1, MeterFacts, EndsFields DEF Ended, EndsOK, Step, TypeOK, CallsOK
      <4> QED
        BY <1>4, <4>1 DEF Metering
    <3>2. CASE Fails(c, k)
      <4>1. call'[c] = Rejects(k)
        BY <3>2 DEF Fails, Step, TypeOK, CallsOK
      <4>2. PlaceOK(k) /\ k.pc \in Asking
        BY <1>0, <1>1, MeterFacts
      <4>3. RejectsOK(k, Rejects(k))
        BY <1>2, <4>2, RejectsFields
      <4> QED
        BY <1>4, <4>1, <4>3 DEF RejectsOK, Further, Metering
    <3>3. \/ k.disturbed /\ Step(c, Ends(k, "crashed"))
          \/ Fails(c, k)
          \/ ~Full(k, Policy(k)) /\ Step(c, [k EXCEPT !.pc = "meter", !.w = @ + 1])
      BY <1>0 DEF EndSum
    <3> QED
      BY <3>1, <3>2, <3>3
  <2>2. PICK o : o = [k EXCEPT !.pc = "meter", !.w = @ + 1]
    OBVIOUS
  <2>3. call'[c] = o
    BY <2>1, <2>2 DEF Step, TypeOK, CallsOK
  <2>4. /\ o.pc = "meter" /\ o.w = k.w + 1 /\ o.now = k.now /\ o.current = k.current
        /\ Policy(o) = Policy(k)
    BY <1>2, <2>2 DEF CallState, Policy, Group
  <2>5. CASE l = Policy(k).ledger
    <3>1. Counts(k, o, l)
      BY <1>1, <2>1, <2>4, <2>5 DEF Counts, In, Metering
    <3> QED
      BY <1>0, <1>1, <2>3, <3>1 DEF StepOn
  <2>6. CASE l # Policy(k).ledger
    <3>1. Rests(k, o, l)
      BY <2>4, <2>6 DEF Rests, In
    <3> QED
      BY <1>0, <1>1, <2>3, <3>1 DEF StepOn
  <2> QED
    BY <2>5, <2>6
<1> QED
  BY <1>3, <1>4

\* The call is charged.
LEMMA ChargeOn ==
    ASSUME TypeOK, NEW c \in Ctx, Charge(c), NEW l \in Ledger
    PROVE  StepOn(c, l)
<1>0. PICK k : k = call[c]
  OBVIOUS
<1>1. k.pc = "charge" /\ k.pc \in Metering /\ call'[c].pc \notin Metering
  BY <1>0, ChargeWorks DEF Charge, Metering, Unmetered
<1>2. Policy(k).ledger \in Ledger
  BY <1>0, <1>1, MeterFacts DEF LedgerOf
<1>3. /\ ledger' = [ledger EXCEPT ![Policy(k).ledger] = Append(@, EntryOf(k))]
      /\ charged' = [charged EXCEPT ![Policy(k).ledger] = Append(@, EntryOf(k))]
      /\ UNCHANGED <<lost, overlapped>>
  BY <1>0 DEF Charge, EntryOf
<1>4. ledger \in [Ledger -> Seq(Entry)] /\ charged \in [Ledger -> Seq(Entry)]
  BY DEF TypeOK, LedgersOK
<1> HIDE DEF EntryOf
<1>5. Alike(l) /\ lost'[l] = lost[l]
  BY <1>3 DEF Alike
<1>6. CASE l # Policy(k).ledger
  <2>1. Untouched(l)
    BY <1>3, <1>4, <1>6 DEF Untouched
  <2>2. Rests(k, call'[c], l)
    BY <1>1 DEF Rests, In
  <2> QED
    BY <1>0, <1>5, <2>1, <2>2 DEF StepOn
<1>7. CASE l = Policy(k).ledger
  <2>1. Charges(k, call'[c], l)
    BY <1>1, <1>7 DEF Charges, In
  <2>2. /\ ledger'[l] = Append(ledger[l], EntryOf(k))
        /\ charged'[l] = Append(charged[l], EntryOf(k))
    BY <1>3, <1>4, <1>7
  <2> QED
    BY <1>0, <1>5, <2>1, <2>2 DEF StepOn
<1> QED
  BY <1>6, <1>7

\* Every step of a call is one of these for each deque.
LEMMA CallOn ==
    ASSUME TypeOK, NEW c \in Ctx, Nested(c), CallStep(c), NEW l \in Ledger
    PROVE  StepOn(c, l)
<1>1. ASSUME Unmetered(c), UNCHANGED <<ledger, chargePast>>
      PROVE  StepOn(c, l)
  <2>1. Rests(call[c], call'[c], l)
    BY <1>1 DEF Rests, In, Unmetered
  <2> QED
    BY <1>1, <2>1 DEF StepOn, Untouched, Alike, chargePast
<1>2. CASE \/ CheckNothing(c) \/ CheckAtOnce(c) \/ AgentRaises(c) \/ RecordViolation(c)
           \/ \E r \in Result : AgentReturns(c, r)
  <2>1. UNCHANGED <<ledger, chargePast>>
    BY <1>2 DEF CheckNothing, CheckAtOnce, AgentRaises, AgentReturns, RecordViolation, pastVars
  <2> QED
    BY <1>1, <1>2, <2>1, NothingWorks, CheckWorks, AgentWorks, NoteWorks
<1>3. CASE Escalate(c)
  <2>1. UNCHANGED <<ledger, chargePast>>
    BY <1>3 DEF Escalate
  <2> QED
    BY <1>1, <1>3, <2>1, EscalateWorks
<1> QED
  BY <1>2, <1>3, TrimOn, BeginOn, PopOn, SumOn, ChargeOn DEF CallStep

------------------------------------------------------------------------------
(* The limiters: what holds                                                *)

\* Two checks of a deque at once are known of.
Alone(l) ==
    l \notin overlapped => \A d, e \in Ctx : In(call[d], l) /\ In(call[e], l) => d = e

\* A check has read the clock, and charges after the last window only.
Timely(p) ==
    \A d \in Ctx : In(call[d], p.ledger) =>
       /\ call[d].now <= clock
       /\ call[d].pc = "charge" => call[d].w > Len(p.windows)

\* The deque holds what was charged last.
Gone(l) == Len(charged[l]) - Len(ledger[l])
Suffix(l) ==
    /\ Gone(l) \in Nat
    /\ \A i \in 1..Len(ledger[l]) : ledger[l][i] = charged[l][Gone(l) + i]

\* What was thrown away of the time since then.
Forgotten(l, from) == SumOf(charged[l], {i \in 1..Gone(l) : charged[l][i].at >= from})

\* What a check that is under way, or could begin now, has to count and does not
\* find, is known to be lost.
Times(l) == {clock} \cup {call[d].now : d \in {e \in Ctx : In(call[e], l)}}
Remembers(p) ==
    p.windows # <<>> =>
       \A t \in Times(p.ledger) : Forgotten(p.ledger, t - Longest(p)) <= lost[p.ledger]

\* As long as checks do not overlap, only old charges are thrown away.
Trimmed(p) ==
    p.ledger \notin overlapped =>
       /\ lost[p.ledger] = 0
       /\ \A d \in Ctx : In(call[d], p.ledger) /\ call[d].pc = "pop" =>
             /\ ledger[p.ledger] # <<>>
             /\ Old(call[d], p, Head(ledger[p.ledger]))

\* What a call would charge is within the limits it was checked against.
Cheap(p) ==
    \A d \in Ctx : In(call[d], p.ledger) =>
       /\ p.kind = "cap" => Amount(call[d], p) <= p.perCall
       /\ \A j \in DOMAIN p.windows : call[d].w > j => Amount(call[d], p) <= p.windows[j].limit

\* The calls that have counted the j-th window, and will be charged within the
\* window that begins at s.
Pending(p, j, s) ==
    {d \in Ctx : /\ In(call[d], p.ledger) /\ call[d].w > j
                 /\ call[d].now \in s..(s + p.windows[j].span)}

Slack(p, j) ==
    IF p.ledger \in overlapped
    THEN (Cardinality(Ctx) - 1) * Largest(p, p.windows[j]) + lost[p.ledger] ELSE 0

\* There is room for what was spent and for the calls of P; the last of them to
\* count, whose amount is known, has seen all but the others.
Room(spent, P, amount, largest, bound) ==
    \/ spent + largest * Cardinality(P) <= bound
    \/ \E d \in P : spent + amount[d] + largest * (Cardinality(P) - 1) <= bound

Bounded(p, j, s) ==
    Room(SpentIn(charged[p.ledger], s, p.windows[j].span), Pending(p, j, s),
         [d \in Ctx |-> Amount(call[d], p)], Largest(p, p.windows[j]),
         p.windows[j].limit + Slack(p, j))

Kept(p) ==
    /\ Alone(p.ledger) /\ Timely(p) /\ Suffix(p.ledger) /\ Remembers(p)
    /\ Trimmed(p) /\ Cheap(p)

Limits == \A p \in Limiters : Kept(p) /\ \A j \in DOMAIN p.windows, s \in Int : Bounded(p, j, s)

\* What a step leaves to show for one limiter.
Onward(c, p) ==
    /\ StepOn(c, p.ledger) /\ clock' = clock
    /\ \A d \in Ctx \ {c} : Follows(call[d], call'[d], p.ledger)

\* Products with a number that is one less.
LEMMA Products ==
    ASSUME NEW m \in Nat, NEW n \in Int
    PROVE  m * n \in Int /\ m * (n - 1) = m * n - m /\ (n >= 0 => m * n >= 0)
<1>1. m * n \in Int /\ m * (n - 1) = m * n - m
  OBVIOUS
<1>2. n >= 0 => m * n >= 0
  OBVIOUS
<1> QED
  BY <1>1, <1>2

\* More contexts make for a larger product.
LEMMA ProductsGrow ==
    ASSUME NEW m \in Nat, NEW n \in Int, NEW k \in Int, n <= k
    PROVE  m * n <= m * k
<1> DEFINE d == k - n
<1>1. d \in Nat /\ k = n + d
  OBVIOUS
<1> HIDE DEF d
<1>2. m * d >= 0 /\ m * d \in Int
  BY <1>1, Products
<1>3. m * (n + d) = m * n + m * d
  BY <1>1
<1>4. m * n \in Int
  OBVIOUS
<1> QED
  BY <1>1, <1>2, <1>3, <1>4

\* The longest window is one that is at least as long as each.
LEMMA LongestFacts ==
    ASSUME NEW p \in Limiters, p.windows # <<>>
    PROVE  /\ Longest(p) \in Nat
           /\ \A j \in DOMAIN p.windows : p.windows[j].span <= Longest(p)
<1> DEFINE ws == p.windows
<1>1. /\ ws \in Seq(Window) /\ ws # <<>>
      /\ \A j \in 1..Len(ws) : ws[j].span \in Nat
  BY LimiterFacts
<1> HIDE DEF ws
<1> DEFINE S == {m \in Nat : m <= Len(ws) => \E u \in Nat : \A j \in 1..m : ws[j].span <= u}
<1>2. 0 \in S
  OBVIOUS
<1>3. ASSUME NEW m \in Nat, m \in S  PROVE m + 1 \in S
  <2> SUFFICES ASSUME m + 1 <= Len(ws)
               PROVE  \E u \in Nat : \A j \in 1..(m + 1) : ws[j].span <= u
    OBVIOUS
  <2>1. PICK u \in Nat : \A j \in 1..m : ws[j].span <= u
    BY <1>3
  <2>2. m + 1 \in 1..Len(ws)
    OBVIOUS
  <2> DEFINE x == ws[m + 1].span
             v == IF x <= u THEN u ELSE x
  <2>3. x \in Nat
    BY <1>1, <2>2
  <2>4. v \in Nat /\ u <= v /\ x <= v
    <3> HIDE DEF x
    <3> QED  BY <2>3
  <2> HIDE DEF v
  <2>5. ASSUME NEW j \in 1..(m + 1)  PROVE ws[j].span <= v
    <3>1. CASE j = m + 1
      BY <2>4, <3>1
    <3>2. CASE j # m + 1
      <4>1. j \in 1..m /\ j \in 1..Len(ws)
        BY <3>2
      <4>2. ws[j].span <= u /\ ws[j].span \in Nat
        BY <1>1, <2>1, <4>1
      <4> QED
        BY <2>4, <4>2
    <3> QED
      BY <3>1, <3>2
  <2> QED
    BY <2>4, <2>5
<1> HIDE DEF S
<1>4. Len(ws) \in S
  BY <1>1, <1>2, <1>3, Induction
<1> DEFINE U == {u \in Nat : \A j \in 1..Len(ws) : ws[j].span <= u}
<1>5. U # {}
  <2>1. Len(ws) \in Nat /\ Len(ws) <= Len(ws)
    BY <1>1
  <2>2. PICK u \in Nat : \A j \in 1..Len(ws) : ws[j].span <= u
    BY <1>4, <2>1 DEF S
  <2> QED
    BY <2>2
<1>6. U \subseteq Nat
  OBVIOUS
<1>7. Min(U) \in U /\ \A u \in U : Min(U) <= u
  <2> HIDE DEF U
  <2> QED  BY <1>5, <1>6, MinFacts
<1>8. PICK top : top = Min(U)
  OBVIOUS
<1>9. top \in Nat /\ \A j \in 1..Len(ws) : ws[j].span <= top
  BY <1>7, <1>8
<1>10. \E j \in 1..Len(ws) : ws[j].span = top
  <2> SUFFICES ASSUME \A j \in 1..Len(ws) : ws[j].span # top  PROVE FALSE
    OBVIOUS
  <2>1. 1 \in 1..Len(ws)
    BY <1>1
  <2>2. ws[1].span \in Nat /\ ws[1].span <= top /\ ws[1].span # top
    BY <1>1, <1>9, <2>1
  <2>3. top - 1 \in Nat
    BY <1>9, <2>2
  <2>4. ASSUME NEW j \in 1..Len(ws)  PROVE ws[j].span <= top - 1
    BY <1>1, <1>9
  <2>5. top - 1 \in U
    BY <2>3, <2>4
  <2>6. top <= top - 1
    BY <1>7, <1>8, <2>5
  <2> QED
    BY <1>9, <2>6
<1> HIDE DEF U
<1> DEFINE spans == {w.span : w \in Range(ws)}
<1>11. top \in spans
  BY <1>1, <1>10 DEF Range
<1>12. \A x \in spans : x \in Nat /\ x <= top
  BY <1>1, <1>9 DEF Range
<1>13. Longest(p) = Max(spans)
  BY DEF Longest, ws
<1> HIDE DEF spans
<1>14. \A x \in spans : top >= x
  BY <1>9, <1>12
<1>15. Max(spans) \in spans /\ \A x \in spans : Max(spans) >= x
  BY <1>11, <1>14 DEF Max
<1>16. Max(spans) = top
  <2>1. Max(spans) \in Nat /\ Max(spans) <= top /\ Max(spans) >= top
    BY <1>11, <1>12, <1>15
  <2> QED
    BY <1>9, <2>1
<1> QED
  BY <1>9, <1>13, <1>16 DEF ws

\* What a call would charge.
LEMMA AmountFacts ==
    ASSUME TypeOK, NEW p \in Limiters, NEW d \in Ctx, In(call[d], p.ledger)
    PROVE  /\ call[d] \in CallState /\ PlaceOK(call[d]) /\ Policy(call[d]) = p
           /\ Uses(d, p.ledger) /\ Amount(call[d], p) \in Nat /\ call[d].now \in Nat
           /\ call[d].w \in Nat /\ call[d].w > 0 /\ call[d].pc \in Metering
<1>1. /\ call[d] \in CallState /\ PlaceOK(call[d]) /\ call[d].pc \in Metering
      /\ Meters(call[d], Policy(call[d])) /\ call[d].w \in Nat /\ call[d].w > 0
  BY MeterFacts DEF In
<1>2. Policy(call[d]) = p
  BY <1>1, AtLimiter DEF In
<1>3. Uses(d, p.ledger)
  BY <1>1, <1>2 DEF Uses, LedgerOf
<1>4. call[d].current \in Outcome /\ call[d].now \in Nat
  BY <1>1 DEF CallState
<1>5. Amount(call[d], p) \in Nat
  BY <1>1, <1>2, <1>4, LimiterFacts DEF Amount, Meters, Outcome
<1> QED
  BY <1>1, <1>2, <1>3, <1>4, <1>5

\* The deque and its history are lists of charges.
LEMMA DequeFacts ==
    ASSUME TypeOK, NEW l \in Ledger
    PROVE  /\ ledger[l] \in Seq(Entry) /\ charged[l] \in Seq(Entry) /\ lost[l] \in Nat
           /\ Len(ledger[l]) \in Nat /\ Len(charged[l]) \in Nat /\ clock \in Nat
           /\ \A i \in 1..Len(ledger[l]) : ledger[l][i].at \in Int /\ ledger[l][i].amount \in Nat
           /\ \A i \in 1..Len(charged[l]) : charged[l][i].at \in Int /\ charged[l][i].amount \in Nat
<1>1. /\ ledger[l] \in Seq(Entry) /\ charged[l] \in Seq(Entry) /\ lost[l] \in Nat
      /\ clock \in Nat
  BY Constants DEF TypeOK, LedgersOK
<1>2. /\ \A i \in 1..Len(ledger[l]) : ledger[l][i] \in Entry
      /\ \A i \in 1..Len(charged[l]) : charged[l][i] \in Entry
  BY <1>1
<1> QED
  BY <1>1, <1>2 DEF Entry

\* What is charged is an entry.
LEMMA EntryFacts ==
    ASSUME TypeOK, NEW p \in Limiters, NEW c \in Ctx, In(call[c], p.ledger)
    PROVE  /\ EntryOf(call[c]) \in Entry /\ EntryOf(call[c]).at = call[c].now
           /\ EntryOf(call[c]).amount = Amount(call[c], p)
<1>1. Policy(call[c]) = p /\ Amount(call[c], p) \in Nat /\ call[c].now \in Nat
  BY AmountFacts
<1> QED
  BY <1>1 DEF EntryOf, Entry

\* The times at which a sum begins become fewer, and what was lost more.
LEMMA TimesKept ==
    ASSUME TypeOK, TypeOK', NEW c \in Ctx, NEW p \in Limiters, Onward(c, p)
    PROVE  /\ Times(p.ledger)' \subseteq Times(p.ledger)
           /\ lost[p.ledger] <= lost'[p.ledger] /\ lost[p.ledger] \in Nat
           /\ lost'[p.ledger] \in Nat
           /\ p.ledger \in overlapped => p.ledger \in overlapped'
<1> PICK l \in Ledger : l = p.ledger
  BY LimiterFacts
<1>1. ASSUME NEW d \in Ctx, In(call'[d], l)
      PROVE  call'[d].now \in Times(l)
  <2>1. CASE d = c
    BY <1>1, <2>1 DEF Onward, StepOn, Rests, Begins, Pops, Counts, Charges, Holds, Times
  <2>2. CASE d # c
    BY <1>1, <2>2 DEF Onward, Follows, Holds, Times
  <2> QED
    BY <2>1, <2>2
<1>2. Times(l)' = {clock'} \cup {call'[d].now : d \in {e \in Ctx : In(call'[e], l)}}
  BY DEF Times
<1>3. Times(l)' \subseteq Times(l)
  BY <1>1, <1>2 DEF Onward, Times
<1>4. lost[l] \in Nat /\ lost'[l] \in Nat
  BY DEF TypeOK, LedgersOK
<1>5. lost[l] <= lost'[l]
  <2>1. CASE lost'[l] = lost[l]
    BY <1>4, <2>1
  <2>2. CASE ledger[l] # <<>> /\ lost'[l] = lost[l] + Head(ledger[l]).amount
    <3>1. Head(ledger[l]) = ledger[l][1] /\ 1 \in 1..Len(ledger[l])
      BY <2>2, DequeFacts
    <3>2. Head(ledger[l]).amount \in Nat
      BY <3>1, DequeFacts
    <3> DEFINE x == Head(ledger[l]).amount
    <3> HIDE DEF x
    <3>3. x \in Nat /\ lost'[l] = lost[l] + x
      BY <2>2, <3>2 DEF x
    <3> QED
      BY <1>4, <3>3
  <2> QED
    BY <2>1, <2>2 DEF Onward, StepOn, Untouched
<1>6. l \in overlapped => l \in overlapped'
  BY DEF Onward, StepOn, Alike
<1> QED
  BY <1>3, <1>4, <1>5, <1>6

\* Checks of one deque are alone or known not to be.
LEMMA AloneKept ==
    ASSUME NEW c \in Ctx, NEW p \in Limiters, Onward(c, p), Alone(p.ledger)
    PROVE  Alone(p.ledger)'
<1> PICK l : l = p.ledger
  OBVIOUS
<1> SUFFICES ASSUME l \notin overlapped', NEW d \in Ctx, NEW e \in Ctx,
                    In(call'[d], l), In(call'[e], l)
             PROVE  d = e
  BY DEF Alone, In
<1>1. l \notin overlapped
  BY DEF Onward, StepOn, Alike
<1>2. \A b \in Ctx \ {c} : In(call'[b], l) => In(call[b], l)
  BY DEF Onward, Follows
<1>3. CASE In(call'[c], l) => In(call[c], l)
  BY <1>1, <1>2, <1>3 DEF Alone
<1>4. CASE Begins(call[c], call'[c], l) /\ ~ \E b \in Ctx \ {c} : In(call[b], l)
  BY <1>2, <1>4
<1> QED
  BY <1>3, <1>4 DEF Onward, StepOn, Rests, Pops, Counts, Charges

\* A check goes on with the time it has read.
LEMMA TimelyKept ==
    ASSUME TypeOK, NEW c \in Ctx, NEW p \in Limiters, Onward(c, p), Timely(p)
    PROVE  Timely(p)'
<1> PICK l : l = p.ledger
  OBVIOUS
<1> SUFFICES ASSUME NEW d \in Ctx, In(call'[d], l)
             PROVE  /\ call'[d].now <= clock
                    /\ call'[d].pc = "charge" => call'[d].w > Len(p.windows)
  BY DEF Timely, Onward, In
<1>1. CASE d # c
  <2>1. Follows(call[d], call'[d], l)
    BY <1>1 DEF Onward
  <2> QED
    BY <2>1 DEF Follows, Holds, Timely
<1>2. CASE d = c /\ In(call[c], l)
  <2>1. Policy(call[c]) = p /\ call[c].now <= clock
    BY <1>2, AmountFacts DEF Timely
  <2> QED
    BY <1>2, <2>1 DEF Onward, StepOn, Rests, Begins, Pops, Counts, Charges, Holds
<1>3. CASE d = c /\ ~In(call[c], l)
  <2>1. clock <= clock
    BY Constants DEF TypeOK, LedgersOK
  <2> QED
    BY <1>3, <2>1 DEF Onward, StepOn, Rests, Begins, Pops, Counts, Charges
<1> QED
  BY <1>1, <1>2, <1>3

\* The deque stays what was charged last.
LEMMA SuffixKept ==
    ASSUME TypeOK, TypeOK', NEW c \in Ctx, NEW p \in Limiters, Onward(c, p), Suffix(p.ledger)
    PROVE  Suffix(p.ledger)'
<1> PICK l \in Ledger : l = p.ledger
  BY LimiterFacts
<1> DEFINE a == ledger[l]
           b == charged[l]
           x == ledger'[l]
           y == charged'[l]
           e == EntryOf(call[c])
<1>1. a \in Seq(Entry) /\ b \in Seq(Entry) /\ x \in Seq(Entry) /\ y \in Seq(Entry)
  BY DEF TypeOK, LedgersOK
<1>2. Len(b) - Len(a) \in Nat /\ \A i \in 1..Len(a) : a[i] = b[(Len(b) - Len(a)) + i]
  BY DEF Suffix, Gone
<1>3. SUFFICES /\ Len(y) - Len(x) \in Nat
               /\ \A i \in 1..Len(x) : x[i] = y[(Len(y) - Len(x)) + i]
  BY DEF Suffix, Gone
<1>4. \/ x = a /\ y = b
      \/ a # <<>> /\ x = Tail(a) /\ y = b
      \/ x = Append(a, e) /\ y = Append(b, e)
  BY DEF Onward, StepOn, Untouched
<1> HIDE DEF a, b, x, y, e
<1>5. CASE a # <<>> /\ x = Tail(a) /\ y = b
  <2>1. Len(x) = Len(a) - 1 /\ Len(y) = Len(b) /\ \A i \in 1..Len(x) : x[i] = a[i + 1]
    BY <1>1, <1>5
  <2>2. Len(a) \in Nat /\ Len(b) \in Nat
    BY <1>1
  <2> QED
    BY <1>2, <1>5, <2>1, <2>2
<1>6. CASE x = Append(a, e) /\ y = Append(b, e)
  <2>1. /\ Len(x) = Len(a) + 1 /\ Len(y) = Len(b) + 1
        /\ \A i \in 1..Len(a) : x[i] = a[i]
        /\ \A i \in 1..Len(b) : y[i] = b[i]
        /\ x[Len(a) + 1] = e /\ y[Len(b) + 1] = e
    BY <1>1, <1>6
  <2>2. Len(a) \in Nat /\ Len(b) \in Nat
    BY <1>1
  <2>3. ASSUME NEW i \in 1..Len(x)  PROVE x[i] = y[(Len(y) - Len(x)) + i]
    <3>1. Len(y) - Len(x) = Len(b) - Len(a)
      BY <2>1, <2>2
    <3>2. CASE i = Len(a) + 1
      <4>1. (Len(b) - Len(a)) + i = Len(b) + 1
        BY <2>2, <3>2
      <4> QED
        BY <2>1, <3>1, <3>2, <4>1
    <3>3. CASE i # Len(a) + 1
      <4>1. i \in 1..Len(a) /\ (Len(b) - Len(a)) + i \in 1..Len(b)
        BY <1>2, <2>1, <2>2, <3>3
      <4> QED
        BY <1>2, <2>1, <3>1, <4>1
    <3> QED
      BY <3>2, <3>3
  <2>4. Len(y) - Len(x) \in Nat
    <3>1. Len(y) - Len(x) = Len(b) - Len(a)
      BY <2>1, <2>2
    <3> QED
      BY <1>2, <3>1
  <2> QED
    BY <2>3, <2>4
<1> QED
  BY <1>2, <1>4, <1>5, <1>6

\* What is lost of what a check has to count stays known.
LEMMA RemembersKept ==
    ASSUME TypeOK, TypeOK', NEW c \in Ctx, NEW p \in Limiters, Onward(c, p),
           Suffix(p.ledger), Timely(p), Remembers(p)
    PROVE  Remembers(p)'
<1> PICK l \in Ledger : l = p.ledger
  BY LimiterFacts
<1> SUFFICES ASSUME p.windows # <<>>, NEW t \in Times(l)'
             PROVE  Forgotten(l, t - Longest(p))' <= lost'[l]
  BY DEF Remembers
<1>1. t \in Times(l) /\ lost[l] <= lost'[l] /\ lost[l] \in Nat /\ lost'[l] \in Nat
  BY TimesKept
<1>2. PICK top : top = Longest(p)
  OBVIOUS
<1>3. top \in Nat
  BY <1>2, LongestFacts
<1>4. clock \in Nat /\ t \in Nat
  BY <1>1, DequeFacts, AmountFacts DEF Times
<1> DEFINE from == t - top
<1>5. from \in Int
  BY <1>3, <1>4
<1> DEFINE a == ledger[l]
           b == charged[l]
           x == ledger'[l]
           y == charged'[l]
           g == Len(b) - Len(a)
           h == Len(y) - Len(x)
           chosen == {i \in 1..g : b[i].at >= from}
           more == {i \in 1..h : y[i].at >= from}
<1>6. SumOf(b, chosen) <= lost[l]
  BY <1>1, <1>2 DEF Remembers, Forgotten, Gone
<1>7. SUFFICES SumOf(y, more) <= lost'[l]
  BY <1>2 DEF Forgotten, Gone
<1>8. a \in Seq(Entry) /\ b \in Seq(Entry) /\ x \in Seq(Entry) /\ y \in Seq(Entry)
  BY DEF TypeOK, LedgersOK
<1>9. g \in Nat /\ \A i \in 1..Len(a) : a[i] = b[g + i]
  BY DEF Suffix, Gone
<1>10. SumOf(b, chosen) \in Nat /\ SumOf(y, more) \in Nat
  <2> HIDE DEF b, y, chosen, more
  <2> QED  BY <1>8, SumType
<1>11. CASE x = a /\ y = b
  <2>1. SumOf(y, more) = SumOf(b, chosen)
    <3>1. h = g
      BY <1>11
    <3> QED
      BY <1>11, <3>1
  <2> HIDE DEF b, y, chosen, more
  <2> QED
    BY <1>1, <1>6, <1>10, <2>1
<1>12. CASE /\ Pops(call[c], call'[c], l) /\ a # <<>> /\ x = Tail(a) /\ y = b
            /\ lost'[l] = IF Needed(l, Head(a)) THEN lost[l] + Head(a).amount ELSE lost[l]
  <2> DEFINE j == g + 1
             extra == IF j \in more THEN b[j].amount ELSE 0
  <2>1. Len(a) \in Nat /\ Len(b) \in Nat /\ Len(a) >= 1 /\ Len(x) = Len(a) - 1 /\ Head(a) = a[1]
    <3> HIDE DEF a, b, x
    <3> QED  BY <1>8, <1>12
  <2>2. h = g + 1 /\ j \in 1..Len(b) /\ a[1] = b[j] /\ 1 \in 1..Len(a)
    <3>1. h = g + 1 /\ j \in 1..Len(b) /\ 1 \in 1..Len(a)
      <4>1. g \in Nat /\ y = b
        BY <1>9, <1>12
      <4> HIDE DEF a, b, x, y
      <4> QED
        BY <2>1, <4>1
    <3> QED
      BY <1>9, <3>1
  <2>3. ASSUME NEW n \in 1..Len(b), n \in more  PROVE n \in chosen \/ n = j
    <3>1. y = b /\ g \in Nat
      BY <1>9, <1>12
    <3> HIDE DEF b, y
    <3>2. n \in 1..h /\ b[n].at >= from
      BY <2>3, <3>1
    <3> HIDE DEF h
    <3>3. n \in 1..(g + 1)
      BY <2>2, <3>2
    <3> HIDE DEF g
    <3>4. n \in 1..g \/ n = j
      BY <3>1, <3>3
    <3> QED
      BY <3>2, <3>4
  <2>4. SumOf(b, more) <= SumOf(b, chosen) + extra
    <3> HIDE DEF b, more, chosen, j
    <3> QED  BY <1>8, <2>2, <2>3, SumWith
  <2>5. b[j].amount \in Nat /\ b[j].at \in Int
    BY <2>2, DequeFacts
  <2>6. j \in more => Needed(l, Head(a))
    <3> SUFFICES ASSUME j \in more  PROVE Needed(l, Head(a))
      OBVIOUS
    <3>1. b[j].at >= from
      BY <1>12
    <3>2. ASSUME NEW d \in Ctx, In(call[d], l), call[d].now <= t
          PROVE  Needed(l, Head(a))
      <4>1. Policy(call[d]) = p /\ Uses(d, l) /\ call[d].now \in Nat
        BY <3>2, AmountFacts
      <4> DEFINE u == call[d].now
                 v == b[j].at
      <4>2. u \in Nat /\ v \in Int /\ u <= t /\ v >= t - top
        BY <2>5, <3>1, <3>2, <4>1
      <4>3. ~(v < u - top)
        <5> HIDE DEF u, v
        <5> QED  BY <1>3, <1>4, <4>2
      <4>4. ~Old(call[d], Policy(call[d]), Head(a))
        BY <1>2, <2>1, <2>2, <4>1, <4>3 DEF Old
      <4> QED
        BY <4>1, <4>4 DEF Needed
    <3>3. CASE t = clock
      <4>1. In(call[c], l) /\ call[c].now <= clock
        BY <1>12 DEF Pops, Timely
      <4> QED
        BY <3>2, <3>3, <4>1
    <3>4. CASE t # clock
      <4>1. PICK d \in Ctx : In(call[d], l) /\ t = call[d].now
        BY <1>1, <3>4 DEF Times
      <4>2. call[d].now <= t
        BY <1>4, <4>1
      <4> QED
        BY <3>2, <4>1, <4>2
    <3> QED
      BY <3>3, <3>4
  <2>7. extra \in Nat /\ lost[l] + extra <= lost'[l]
    <3>1. CASE j \in more
      <4>1. extra = b[j].amount /\ lost'[l] = lost[l] + b[j].amount
        BY <1>12, <2>1, <2>2, <2>6, <3>1
      <4>2. extra \in Nat /\ lost'[l] = lost[l] + extra
        BY <2>5, <4>1
      <4> HIDE DEF extra
      <4> QED
        BY <1>1, <4>2
    <3>2. CASE j \notin more
      <4>1. extra = 0
        BY <3>2
      <4> HIDE DEF extra
      <4> QED
        BY <1>1, <4>1
    <3> QED
      BY <3>1, <3>2
  <2>8. SumOf(b, more) = SumOf(y, more)
    BY <1>12
  <2> HIDE DEF b, y, more, chosen, extra
  <2> QED
    BY <1>1, <1>6, <1>10, <2>4, <2>7, <2>8
<1>13. CASE /\ x = Append(a, EntryOf(call[c])) /\ y = Append(b, EntryOf(call[c]))
            /\ lost'[l] = lost[l] /\ EntryOf(call[c]) \in Entry
  <2> DEFINE e == EntryOf(call[c])
  <2> HIDE DEF e
  <2>1. /\ Len(x) = Len(a) + 1 /\ Len(y) = Len(b) + 1 /\ Len(a) \in Nat /\ Len(b) \in Nat
        /\ \A n \in 1..Len(b) : y[n] = b[n]
    <3> HIDE DEF a, b, x, y
    <3> QED  BY <1>8, <1>13 DEF e
  <2>2. h = g
    BY <2>1
  <2>3. /\ \A n \in 1..Len(b) : n \in chosen <=> n \in more
        /\ Len(b) + 1 \notin more
    <3>1. g \in Nat /\ g <= Len(b) /\ 1..h = 1..g
      <4>1. g \in Nat
        BY <1>9
      <4> HIDE DEF a, b, x, y
      <4> QED
        BY <2>1, <2>2, <4>1
    <3> HIDE DEF g, h
    <3>2. \A n \in 1..Len(b) : n \in chosen <=> n \in more
      BY <2>1, <3>1
    <3>3. Len(b) + 1 \notin 1..g
      <4> HIDE DEF b
      <4> QED  BY <2>1, <3>1
    <3> QED
      BY <3>1, <3>2, <3>3
  <2>4. SumOf(Append(b, e), more) =
          SumOf(b, chosen) + IF Len(b) + 1 \in more THEN e.amount ELSE 0
    <3>1. e \in Entry
      BY <1>13 DEF e
    <3> HIDE DEF b, chosen, more
    <3> QED
      BY <1>8, <2>3, <3>1, SumAppend
  <2>5. y = Append(b, e)
    BY <1>13 DEF e
  <2> HIDE DEF b, y, chosen, more
  <2> QED
    BY <1>6, <1>10, <1>13, <2>3, <2>4, <2>5
<1>14. CASE Charges(call[c], call'[c], l)
  <2>1. EntryOf(call[c]) \in Entry
    BY <1>14, EntryFacts DEF Charges
  <2>2. \/ In(call'[c], l)
        \/ Untouched(l)
        \/ /\ x = Append(a, EntryOf(call[c])) /\ y = Append(b, EntryOf(call[c]))
           /\ lost'[l] = lost[l]
    BY DEF Onward, StepOn, Pops
  <2> QED
    BY <1>11, <1>13, <1>14, <2>1, <2>2 DEF Charges, Untouched
<1>15. CASE ~Charges(call[c], call'[c], l)
  BY <1>11, <1>12, <1>15 DEF Onward, StepOn, Untouched
<1> QED
  BY <1>14, <1>15

\* As long as checks do not overlap, only old charges are thrown away.
LEMMA TrimmedKept ==
    ASSUME TypeOK, NEW c \in Ctx, NEW p \in Limiters, Onward(c, p),
           Alone(p.ledger), Trimmed(p)
    PROVE  Trimmed(p)'
<1> PICK l : l = p.ledger
  OBVIOUS
<1> SUFFICES ASSUME l \notin overlapped'
             PROVE  /\ lost'[l] = 0
                    /\ \A d \in Ctx : In(call'[d], l) /\ call'[d].pc = "pop" =>
                          ledger'[l] # <<>> /\ Old(call'[d], p, Head(ledger'[l]))
  BY DEF Trimmed, In, Old
<1>1. /\ l \notin overlapped /\ lost[l] = 0
      /\ \A d, e \in Ctx : In(call[d], l) /\ In(call[e], l) => d = e
      /\ \A d \in Ctx : In(call[d], l) /\ call[d].pc = "pop" =>
            ledger[l] # <<>> /\ Old(call[d], p, Head(ledger[l]))
  BY DEF Alone, Trimmed, Onward, StepOn, Alike
<1>2. ASSUME NEW d \in Ctx \ {c}, In(call'[d], l)
      PROVE  In(call[d], l) /\ call'[d].pc = call[d].pc /\ call'[d].now = call[d].now
  BY <1>2 DEF Onward, Follows, Holds
<1>3. CASE Untouched(l)
  <2>1. lost'[l] = 0 /\ ledger'[l] = ledger[l]
    BY <1>1, <1>3 DEF Untouched
  <2>2. ASSUME NEW d \in Ctx, In(call'[d], l), call'[d].pc = "pop"
        PROVE  ledger[l] # <<>> /\ Old(call'[d], p, Head(ledger[l]))
    <3>1. CASE d # c
      BY <1>1, <1>2, <2>2, <3>1 DEF Old
    <3>2. CASE d = c
      <4>1. In(call[c], l) /\ call'[c].now = call[c].now /\ Rests(call[c], call'[c], l)
        BY <2>2, <3>2 DEF Onward, StepOn, Rests, Begins, Pops, Counts, Charges, Holds
      <4>2. Policy(call[c]) = p
        BY <4>1, AmountFacts
      <4> QED
        BY <2>2, <3>2, <4>1, <4>2 DEF Rests, Old
    <3> QED
      BY <3>1, <3>2
  <2> QED
    BY <2>1, <2>2
<1>4. CASE /\ Pops(call[c], call'[c], l)
           /\ lost'[l] = IF Needed(l, Head(ledger[l])) THEN lost[l] + Head(ledger[l]).amount
                         ELSE lost[l]
  <2>1. In(call[c], l) /\ Policy(call[c]) = p /\ Old(call[c], p, Head(ledger[l]))
    BY <1>1, <1>4, AmountFacts DEF Pops
  <2>2. ~Needed(l, Head(ledger[l]))
    <3> SUFFICES ASSUME NEW d \in Ctx, Uses(d, l), ~Old(call[d], Policy(call[d]), Head(ledger[l]))
                 PROVE  FALSE
      BY DEF Needed
    <3>1. In(call[d], l)
      BY DEF Uses, LedgerOf, In
    <3>2. d = c
      BY <1>1, <2>1, <3>1
    <3> QED
      BY <2>1, <3>2
  <2>3. \A d \in Ctx : In(call'[d], l) => d = c
    BY <1>1, <1>2, <2>1
  <2>4. call'[c].pc # "pop"
    BY <1>4 DEF Pops
  <2> QED
    BY <1>1, <1>4, <2>2, <2>3, <2>4
<1>5. CASE Charges(call[c], call'[c], l) /\ lost'[l] = lost[l]
  <2>1. \A d \in Ctx : ~In(call'[d], l)
    BY <1>1, <1>2, <1>5 DEF Charges
  <2> QED
    BY <1>1, <1>5, <2>1
<1> QED
  BY <1>3, <1>4, <1>5 DEF Onward, StepOn

\* What a call would charge stays within the limits it was checked against.
LEMMA CheapKept ==
    ASSUME TypeOK, TypeOK', NEW c \in Ctx, NEW p \in Limiters, Onward(c, p), Cheap(p)
    PROVE  Cheap(p)'
<1> PICK l \in Ledger : l = p.ledger
  BY LimiterFacts
<1> SUFFICES ASSUME NEW d \in Ctx, In(call'[d], l)
             PROVE  /\ p.kind = "cap" => Amount(call'[d], p) <= p.perCall
                    /\ \A j \in DOMAIN p.windows :
                          call'[d].w > j => Amount(call'[d], p) <= p.windows[j].limit
  BY DEF Cheap, In, Amount
<1>1. ASSUME In(call[d], l), call'[d].w = call[d].w, call'[d].current = call[d].current
      PROVE  /\ p.kind = "cap" => Amount(call'[d], p) <= p.perCall
             /\ \A j \in DOMAIN p.windows :
                   call'[d].w > j => Amount(call'[d], p) <= p.windows[j].limit
  <2>1. Amount(call'[d], p) = Amount(call[d], p)
    BY <1>1 DEF Amount
  <2> QED
    BY <1>1, <2>1 DEF Cheap
<1>2. CASE d # c
  BY <1>1, <1>2 DEF Onward, Follows, Holds
<1>3. CASE d = c /\ (Rests(call[c], call'[c], l) \/ Pops(call[c], call'[c], l))
  BY <1>1, <1>3 DEF Rests, Pops, Holds
<1>4. CASE d = c /\ Begins(call[c], call'[c], l)
  <2>1. call'[c] \in CallState /\ PlaceOK(call'[c]) /\ Policy(call'[c]).ledger = p.ledger
        /\ call'[c].pc \in Metering
    BY <1>4 DEF TypeOK, CallsOK, Begins, In
  <2>2. Policy(call'[c]) = p
    BY <2>1, AtLimiter
  <2>3. \A j \in DOMAIN p.windows : ~(call'[c].w > j)
    <3>1. call'[c].w = 1 /\ DOMAIN p.windows = 1..Len(p.windows)
      BY <1>4, LimiterFacts DEF Begins
    <3> QED
      BY <3>1
  <2> QED
    BY <1>4, <2>2, <2>3 DEF Begins, Amount
<1>5. CASE d = c /\ Counts(call[c], call'[c], l)
  <2> PICK k : k = call[c]
    OBVIOUS
  <2> PICK m : m = Amount(k, p)
    OBVIOUS
  <2>1. /\ k \in CallState /\ PlaceOK(k) /\ Policy(k) = p /\ m \in Nat /\ k.w \in Nat
        /\ k.pc = "sum" /\ ~Full(k, p)
    BY <1>5, AmountFacts DEF Counts
  <2>2. call'[c].w = k.w + 1 /\ Amount(call'[c], p) = m
    BY <1>5 DEF Counts, Amount
  <2>3. k.w \in DOMAIN p.windows
    BY <2>1 DEF PlaceOK
  <2>4. m <= p.windows[k.w].limit
    <3> DEFINE spent == Spent(k, p)
               limit == p.windows[k.w].limit
    <3>1. spent \in Nat
      BY DequeFacts, SumType DEF Spent
    <3>2. limit \in Nat
      BY <2>3, LimiterFacts
    <3>3. ~(spent + m > limit)
      BY <2>1 DEF Full
    <3> HIDE DEF spent, limit
    <3>4. m <= limit
      BY <2>1, <3>1, <3>2, <3>3
    <3> QED
      BY <3>4 DEF limit
  <2>5. ASSUME NEW j \in DOMAIN p.windows, call'[c].w > j  PROVE m <= p.windows[j].limit
    <3>1. j \in Nat
      BY LimiterFacts
    <3>2. CASE j = k.w
      BY <2>4, <3>2
    <3>3. CASE j # k.w
      <4>1. k.w > j
        BY <2>1, <2>2, <2>5, <3>1, <3>3
      <4> QED
        BY <1>5, <4>1 DEF Cheap, Counts
    <3> QED
      BY <3>2, <3>3
  <2>6. p.kind = "cap" => m <= p.perCall
    BY <1>5 DEF Cheap, Counts
  <2> QED
    BY <1>5, <2>2, <2>5, <2>6
<1>6. CASE d = c /\ Charges(call[c], call'[c], l)
  BY <1>6 DEF Charges
<1> QED
  BY <1>2, <1>3, <1>4, <1>5, <1>6 DEF Onward, StepOn

\* One that was pending is no longer, and may have been charged.
LEMMA RoomLeft ==
    ASSUME NEW W \in Nat, NEW V \in Nat, NEW L \in Nat, NEW B \in Int, NEW C \in Int,
           NEW P, IsFiniteSet(P), NEW Q, NEW c, Q = P \/ (c \in P /\ Q = P \ {c}),
           NEW A, \A d \in P : A[d] \in Nat /\ A[d] <= L, NEW D, \A d \in Q : D[d] = A[d],
           V = W \/ (c \in P /\ c \notin Q /\ V = W + A[c]),
           B <= C, Room(W, P, A, L, B)
    PROVE  Room(V, Q, D, L, C)
<1>0. V = W \/ (c \in P /\ c \notin Q /\ V = W + A[c])
  OBVIOUS
<1>1. Cardinality(P) \in Nat
  BY FS_CardinalityType
<1> DEFINE n == Cardinality(P)
           low == L * (n - 1)
<1>2. L * n \in Int /\ low \in Int /\ low = L * n - L
  BY <1>1, Products
<1>3. CASE Q = P
  <2>1. V = W
    BY <1>0, <1>3
  <2>2. CASE W + L * n <= B
    <3>1. V + L * Cardinality(Q) <= C
      <4> DEFINE x == L * n
      <4>1. x \in Int /\ W + x <= B
        BY <1>2, <2>2
      <4> HIDE DEF x
      <4>2. V + x <= C
        BY <2>1, <4>1
      <4> QED
        BY <1>3, <4>2 DEF x
    <3> QED
      BY <3>1 DEF Room
  <2>3. ASSUME NEW d \in P, W + A[d] + low <= B  PROVE Room(V, Q, D, L, C)
    <3>1. A[d] \in Nat /\ D[d] = A[d]
      BY <1>3
    <3> HIDE DEF low
    <3>2. V + D[d] + low <= C
      BY <1>2, <2>1, <2>3, <3>1
    <3> QED
      BY <1>3, <3>2 DEF Room, low
  <2> QED
    BY <2>2, <2>3 DEF Room
<1>4. CASE c \in P /\ Q = P \ {c}
  <2>1. Cardinality(Q) = n - 1
    BY <1>4, FS_RemoveElement
  <2>2. A[c] \in Nat /\ A[c] <= L /\ V <= W + A[c]
    BY <1>0, <1>4
  <2>3. CASE W + L * n <= B
    <3>1. V + low <= C
      <4> DEFINE x == L * n
                 a == A[c]
      <4>1. x \in Int /\ W + x <= B /\ low = x - L /\ a \in Nat /\ a <= L /\ V <= W + a
        BY <1>2, <2>2, <2>3
      <4> HIDE DEF x, low, a
      <4> QED
        BY <1>2, <4>1
    <3> QED
      BY <2>1, <3>1 DEF Room
  <2>4. ASSUME NEW d \in P, W + A[d] + low <= B  PROVE Room(V, Q, D, L, C)
    <3>1. CASE d = c
      <4>1. V + low <= C
        <5> DEFINE a == A[c]
        <5>1. a \in Nat /\ V <= W + a /\ W + a + low <= B
          BY <2>2, <2>4, <3>1
        <5> HIDE DEF low, a
        <5> QED
          BY <1>2, <5>1
      <4> QED
        BY <2>1, <4>1 DEF Room
    <3>2. CASE d # c
      <4>1. d \in Q /\ D[d] = A[d] /\ A[d] \in Nat
        BY <1>4, <3>2
      <4> DEFINE m == n - 1
                 less == L * (m - 1)
      <4>2. m \in Int /\ less \in Int /\ less = low - L
        <5>1. m \in Int
          BY <1>1
        <5>2. less = L * m - L /\ less \in Int
          <6> HIDE DEF m
          <6>1. m - 1 \in Int
            BY <5>1
          <6> QED
            BY <5>1, <6>1, Products
        <5> QED
          BY <5>1, <5>2
      <4>3. V + D[d] + less <= C
        <5> DEFINE a == A[c]
                   b == A[d]
        <5>1. a \in Nat /\ a <= L /\ V <= W + a /\ W + b + low <= B /\ b \in Nat /\ D[d] = b
          BY <2>2, <2>4, <4>1
        <5> HIDE DEF low, less, a, b
        <5> QED
          BY <1>2, <4>2, <5>1
      <4> QED
        BY <2>1, <4>1, <4>3 DEF Room
    <3> QED
      BY <3>1, <3>2
  <2> QED
    BY <2>3, <2>4 DEF Room
<1> QED
  BY <1>3, <1>4

\* The numbers of a window.
LEMMA WindowFacts ==
    ASSUME TypeOK, NEW p \in Limiters, NEW j \in DOMAIN p.windows, NEW s \in Int
    PROVE  /\ j \in 1..Len(p.windows) /\ p.windows # <<>>
           /\ p.windows[j].span \in Nat /\ p.windows[j].limit \in Nat
           /\ Largest(p, p.windows[j]) \in Nat
           /\ SpentIn(charged[p.ledger], s, p.windows[j].span) \in Nat
           /\ Pending(p, j, s) \subseteq Ctx /\ IsFiniteSet(Pending(p, j, s))
           /\ Slack(p, j) \in Int /\ p.windows[j].limit + Slack(p, j) \in Int
<1>1. /\ j \in 1..Len(p.windows) /\ p.windows # <<>>
      /\ p.windows[j].span \in Nat /\ p.windows[j].limit \in Nat
  BY LimiterFacts
<1>2. Largest(p, p.windows[j]) \in Nat
  BY <1>1, LimiterFacts DEF Largest
<1>3. p.ledger \in Ledger
  BY LimiterFacts
<1>4. SpentIn(charged[p.ledger], s, p.windows[j].span) \in Nat
  BY <1>3, DequeFacts, SumType DEF SpentIn
<1>5. Pending(p, j, s) \subseteq Ctx
  BY DEF Pending
<1>6. IsFiniteSet(Pending(p, j, s))
  BY <1>5, ContextFacts, FS_Subset
<1>7. Slack(p, j) \in Int
  <2> DEFINE n == Cardinality(Ctx)
             L == Largest(p, p.windows[j])
             x == (n - 1) * L
  <2>1. n \in Nat /\ L \in Nat /\ lost[p.ledger] \in Nat
    BY <1>2, <1>3, ContextFacts, DequeFacts
  <2>2. x \in Int
    <3> HIDE DEF n, L
    <3> QED  BY <2>1
  <2>3. x + lost[p.ledger] \in Int
    <3> HIDE DEF x
    <3> QED  BY <2>1, <2>2
  <2> QED
    BY <2>3 DEF Slack
<1> QED
  BY <1>1, <1>2, <1>4, <1>5, <1>6, <1>7

\* The slack of a window only grows.
LEMMA SlackGrows ==
    ASSUME TypeOK, TypeOK', NEW c \in Ctx, NEW p \in Limiters, Onward(c, p),
           NEW j \in DOMAIN p.windows
    PROVE  Slack(p, j) \in Int /\ Slack(p, j)' \in Int /\ Slack(p, j) <= Slack(p, j)'
<1> PICK l \in Ledger : l = p.ledger
  BY LimiterFacts
<1> DEFINE n == Cardinality(Ctx)
           L == Largest(p, p.windows[j])
           x == (n - 1) * L
           u == lost[l]
           v == lost'[l]
<1>1. n \in Nat /\ n >= 1 /\ L \in Nat
  BY ContextFacts, LimiterFacts DEF Largest
<1>2. u \in Nat /\ v \in Nat /\ u <= v /\ (l \in overlapped => l \in overlapped')
  BY TimesKept
<1>3. x \in Nat
  <2> HIDE DEF n, L
  <2>1. L * (n - 1) >= 0 /\ L * (n - 1) \in Int
    <3>1. n - 1 \in Int /\ n - 1 >= 0
      BY <1>1
    <3> HIDE DEF n
    <3> QED
      BY <1>1, <3>1, Products
  <2>2. (n - 1) * L = L * (n - 1)
    BY <1>1
  <2> QED
    BY <2>1, <2>2
<1>4. Slack(p, j) = IF l \in overlapped THEN x + u ELSE 0
  BY DEF Slack
<1>5. Slack(p, j)' = IF l \in overlapped' THEN x + v ELSE 0
  BY DEF Slack
<1> HIDE DEF x, u, v
<1>6. x + u \in Nat /\ x + v \in Nat /\ x + u <= x + v
  BY <1>2, <1>3
<1> QED
  BY <1>2, <1>4, <1>5, <1>6

\* What lies in a window with now is not older than the window is long.
LEMMA InSpan ==
    ASSUME NEW at \in Int, NEW now \in Int, NEW s \in Int, NEW span \in Nat, NEW top \in Nat,
           at >= s, now <= s + span, span <= top
    PROVE  at >= now - top /\ at >= now - span
<1> QED  OBVIOUS

\* What was charged in a window is what a check finds, or known to be lost.
LEMMA SeenOrLost ==
    ASSUME TypeOK, NEW p \in Limiters, NEW c \in Ctx, In(call[c], p.ledger),
           Suffix(p.ledger), Remembers(p),
           NEW j \in DOMAIN p.windows, j = call[c].w, NEW s \in Int,
           call[c].now \in s..(s + p.windows[j].span)
    PROVE  SpentIn(charged[p.ledger], s, p.windows[j].span) <=
               lost[p.ledger] + Spent(call[c], p)
<1> PICK l \in Ledger : l = p.ledger
  BY LimiterFacts
<1> PICK now : now = call[c].now
  OBVIOUS
<1> PICK top : top = Longest(p)
  OBVIOUS
<1> PICK span : span = p.windows[j].span
  OBVIOUS
<1>1. top \in Nat /\ span \in Nat /\ span <= top /\ now \in Nat /\ p.windows # <<>>
  BY WindowFacts, LongestFacts, AmountFacts
<1> DEFINE a == ledger[l]
           b == charged[l]
           g == Len(b) - Len(a)
           chosen == {i \in DOMAIN b : b[i].at \in s..(s + span)}
           before == {i \in 1..g : b[i].at >= now - top}
           left == {i \in DOMAIN a : p.kind = "rate" => a[i].at >= now - span}
<1>2. /\ a \in Seq(Entry) /\ b \in Seq(Entry) /\ DOMAIN a = 1..Len(a) /\ DOMAIN b = 1..Len(b)
      /\ Len(a) \in Nat /\ Len(b) \in Nat
      /\ \A i \in 1..Len(b) : b[i].at \in Int
  BY DequeFacts
<1>3. g \in Nat /\ \A i \in 1..Len(a) : a[i] = b[g + i]
  BY DEF Suffix, Gone
<1>4. SumOf(b, before) <= lost[l]
  <2>1. now \in Times(l)
    BY DEF Times
  <2> QED
    BY <1>1, <2>1 DEF Remembers, Forgotten, Gone
<1>5. Spent(call[c], p) = SumOf(a, left)
  BY DEF Spent
<1>6. SpentIn(charged[p.ledger], s, p.windows[j].span) = SumOf(b, chosen)
  BY DEF SpentIn
<1>7. ASSUME NEW i \in 1..Len(b), i \in chosen  PROVE b[i].at >= now - top /\ b[i].at >= now - span
  <2> DEFINE at == b[i].at
  <2>1. at \in Int /\ at >= s /\ now <= s + span
    <3>1. at \in s..(s + span) /\ now \in s..(s + span)
      BY <1>7
    <3> HIDE DEF at
    <3> QED
      BY <1>1, <3>1
  <2> HIDE DEF at, b
  <2>2. now \in Int /\ span \in Nat /\ top \in Nat /\ span <= top
    BY <1>1
  <2>3. at \in Int /\ at >= s /\ now <= s + span
    BY <2>1
  <2>4. at >= now - top /\ at >= now - span
    BY <2>2, <2>3, InSpan
  <2> QED
    BY <2>4 DEF at
<1>8. \A n \in 1..Len(b) : n \in chosen /\ n <= g => n \in before
  <2> SUFFICES ASSUME NEW n \in 1..Len(b), n \in chosen, n <= g  PROVE n \in before
    OBVIOUS
  <2>1. n \in 1..g
    <3> HIDE DEF g, b
    <3> QED  BY <1>2, <1>3
  <2> QED
    BY <1>7, <2>1
<1>9. \A n \in 1..Len(a) : g + n \in chosen => n \in left
  <2> SUFFICES ASSUME NEW n \in 1..Len(a), g + n \in chosen  PROVE n \in left
    OBVIOUS
  <2>1. g + n \in 1..Len(b)
    BY <1>2
  <2>2. b[g + n].at >= now - span /\ a[n] = b[g + n]
    BY <1>3, <1>7, <2>1
  <2> QED
    BY <1>2, <2>2
<1>10. Len(b) = g + Len(a)
  <2> HIDE DEF a, b
  <2> QED  BY <1>2
<1>11. SumOf(b, chosen) <= SumOf(b, before) + SumOf(a, left)
  <2> HIDE DEF a, b, g, chosen, before, left
  <2> QED  BY <1>2, <1>3, <1>8, <1>9, <1>10, SumCovered
<1>12. /\ SumOf(b, chosen) \in Nat /\ SumOf(b, before) \in Nat /\ SumOf(a, left) \in Nat
       /\ lost[l] \in Nat
  <2>1. lost[l] \in Nat
    BY DequeFacts
  <2> HIDE DEF a, b, chosen, before, left
  <2> QED  BY <1>2, <2>1, SumType
<1>13. SumOf(b, chosen) <= lost[l] + SumOf(a, left)
  <2> DEFINE x == SumOf(b, chosen)
             y == SumOf(b, before)
             z == SumOf(a, left)
  <2>1. x \in Nat /\ y \in Nat /\ z \in Nat /\ lost[l] \in Nat /\ x <= y + z /\ y <= lost[l]
    BY <1>4, <1>11, <1>12
  <2>2. x <= lost[l] + z
    <3> HIDE DEF x, y, z
    <3> QED  BY <2>1
  <2> QED
    BY <2>2
<1> QED
  BY <1>5, <1>6, <1>13

\* What is charged adds to what was spent in the windows that it lies in.
LEMMA ChargeAdds ==
    ASSUME TypeOK, NEW p \in Limiters, NEW c \in Ctx, In(call[c], p.ledger),
           NEW s \in Int, NEW span \in Nat
    PROVE  SpentIn(Append(charged[p.ledger], EntryOf(call[c])), s, span) =
             SpentIn(charged[p.ledger], s, span) +
                 IF call[c].now \in s..(s + span) THEN Amount(call[c], p) ELSE 0
<1> PICK l \in Ledger : l = p.ledger
  BY LimiterFacts
<1> DEFINE b == charged[l]
           e == EntryOf(call[c])
           y == Append(b, e)
           chosen == {i \in DOMAIN b : b[i].at \in s..(s + span)}
           more == {i \in DOMAIN y : y[i].at \in s..(s + span)}
<1>1. b \in Seq(Entry)
  BY DequeFacts
<1>2. e \in Entry /\ e.at = call[c].now /\ e.amount = Amount(call[c], p)
  BY EntryFacts
<1> HIDE DEF b, e
<1>3. /\ DOMAIN b = 1..Len(b) /\ DOMAIN y = 1..(Len(b) + 1) /\ Len(b) \in Nat
      /\ y[Len(b) + 1] = e /\ \A n \in 1..Len(b) : y[n] = b[n]
  BY <1>1, <1>2
<1> HIDE DEF y
<1>4. \A n \in 1..Len(b) : n \in chosen <=> n \in more
  BY <1>3
<1>5. Len(b) + 1 \in more <=> e.at \in s..(s + span)
  <2>1. Len(b) + 1 \in DOMAIN y
    BY <1>3
  <2> QED
    BY <1>3, <2>1
<1> HIDE DEF chosen, more
<1>6. SumOf(Append(b, e), more) =
        SumOf(b, chosen) + IF Len(b) + 1 \in more THEN e.amount ELSE 0
  BY <1>1, <1>2, <1>4, SumAppend
<1>7. SpentIn(Append(b, e), s, span) = SumOf(Append(b, e), more)
  BY DEF SpentIn, more, y
<1>8. SpentIn(b, s, span) = SumOf(b, chosen)
  BY DEF SpentIn, chosen
<1> QED
  BY <1>2, <1>5, <1>6, <1>7, <1>8 DEF b, e

\* There is room in a window for who has just counted it, and the others.
LEMMA RoomForNext ==
    ASSUME TypeOK, TypeOK', NEW c \in Ctx, NEW p \in Limiters, Onward(c, p),
           Kept(p), Kept(p)', Counts(call[c], call'[c], p.ledger), Untouched(p.ledger),
           Alike(p.ledger), NEW j \in DOMAIN p.windows, j = call[c].w, NEW s \in Int,
           call[c].now \in s..(s + p.windows[j].span)
    PROVE  Bounded(p, j, s)'
<1> PICK l \in Ledger : l = p.ledger
  BY LimiterFacts
<1> DEFINE Q == Pending(p, j, s)'
           D == [d \in Ctx |-> Amount(call'[d], p)]
           L == Largest(p, p.windows[j])
           W == SpentIn(charged[l], s, p.windows[j].span)
           limit == p.windows[j].limit
           seen == Spent(call[c], p)
           n == Cardinality(Ctx)
           q == Cardinality(Q)
           slack == Slack(p, j)'
<1>1. In(call[c], l) /\ In(call'[c], l) /\ j \in Nat /\ call'[c].w = j + 1
      /\ call'[c].now = call[c].now /\ call'[c].current = call[c].current
      /\ ~Full(call[c], Policy(call[c]))
  BY AmountFacts DEF Counts
<1>2. Policy(call[c]) = p /\ Amount(call[c], p) \in Nat /\ D[c] = Amount(call[c], p)
  BY <1>1, AmountFacts DEF Amount
<1>3. c \in Q
  BY <1>1 DEF Pending, In
<1>4. Q \subseteq Ctx /\ IsFiniteSet(Q) /\ q \in Nat /\ n \in Nat /\ q <= n /\ n >= 1
  <2>1. Q \subseteq Ctx
    BY DEF Pending
  <2> HIDE DEF Q
  <2> QED
    BY <2>1, ContextFacts, FS_Subset, FS_CardinalityType
<1>5. W <= lost[l] + seen
  BY <1>1, SeenOrLost DEF Kept
<1>6. seen + D[c] <= limit
  <2>1. ~(seen + D[c] > limit)
    BY <1>1, <1>2 DEF Full
  <2>2. seen \in Nat
    BY DequeFacts, SumType DEF Spent
  <2>3. limit \in Nat /\ D[c] \in Nat
    BY <1>2, LimiterFacts
  <2> HIDE DEF seen, limit, D
  <2> QED
    BY <2>1, <2>2, <2>3
<1>7. L \in Nat /\ W \in Nat /\ limit \in Nat /\ lost[l] \in Nat /\ seen \in Nat
  BY WindowFacts, DequeFacts, SumType DEF Spent
<1>8. lost'[l] = lost[l] /\ charged'[l] = charged[l] /\ (l \in overlapped' <=> l \in overlapped)
  BY DEF Untouched, Alike
<1>9. W + D[c] + L * (q - 1) <= limit + slack
  <2> DEFINE x == L * (q - 1)
             y == L * (n - 1)
  <2>1. x \in Int /\ y \in Int /\ x <= y
    <3>1. q - 1 \in Int /\ n - 1 \in Int /\ q - 1 <= n - 1
      BY <1>4
    <3> HIDE DEF q, n, L
    <3> QED
      BY <1>7, <3>1, ProductsGrow
  <2>2. CASE l \in overlapped'
    <3>1. slack = y + lost[l]
      <4>1. slack = (n - 1) * L + lost[l]
        BY <1>8, <2>2 DEF Slack
      <4>2. (n - 1) * L = y
        BY <1>4, <1>7
      <4> QED
        BY <4>1, <4>2
    <3> DEFINE u == lost[l]
               v == D[c]
    <3>2. /\ u \in Nat /\ v \in Nat /\ W <= u + seen /\ seen + v <= limit /\ slack = y + u
      BY <1>2, <1>5, <1>6, <1>7, <3>1
    <3> HIDE DEF x, y, u, v, W, seen, limit, slack
    <3>3. W + v + x <= limit + slack
      BY <1>7, <2>1, <3>2
    <3> QED
      BY <3>3 DEF v, x
  <2>3. CASE l \notin overlapped'
    <3>1. Q = {c}
      <4>1. \A d \in Q : In(call'[d], l)
        BY DEF Pending, In
      <4>2. \A d \in Q : d = c
        BY <1>1, <1>4, <2>3, <4>1 DEF Kept, Alone, In
      <4> QED
        BY <1>3, <4>2
    <3>2. q = 1
      BY <3>1, FS_Singleton
    <3>3. slack = 0 /\ lost[l] = 0
      BY <1>8, <2>3 DEF Slack, Kept, Trimmed
    <3>4. x = 0
      BY <1>7, <3>2
    <3> DEFINE v == D[c]
    <3>5. v \in Nat /\ W <= seen /\ seen + v <= limit
      <4>1. v \in Nat /\ W <= 0 + seen /\ seen + v <= limit
        BY <1>2, <1>5, <1>6, <3>3
      <4> HIDE DEF seen, v
      <4> QED
        BY <1>7, <4>1
    <3> HIDE DEF v, W, seen, limit, slack, x
    <3>6. W + v + x <= limit + slack
      BY <1>7, <3>3, <3>4, <3>5
    <3> QED
      BY <3>6 DEF v, x
  <2> QED
    BY <2>2, <2>3
<1>10. Bounded(p, j, s)' = Room(W, Q, D, L, limit + slack)
  BY <1>8 DEF Bounded
<1>11. Room(W, Q, D, L, limit + slack)
  <2> HIDE DEF W, Q, D, L, limit, slack
  <2> QED  BY <1>3, <1>9 DEF Room, q
<1> QED
  BY <1>10, <1>11

\* What is left to a limit is not used up by who has not counted it.
LEMMA BoundedKept ==
    ASSUME TypeOK, TypeOK', NEW c \in Ctx, NEW p \in Limiters, Onward(c, p),
           Kept(p), Kept(p)', NEW j \in DOMAIN p.windows, NEW s \in Int, Bounded(p, j, s)
    PROVE  Bounded(p, j, s)'
<1> PICK l \in Ledger : l = p.ledger
  BY LimiterFacts
<1> PICK span : span = p.windows[j].span
  OBVIOUS
<1> DEFINE P == Pending(p, j, s)
           Q == Pending(p, j, s)'
           A == [d \in Ctx |-> Amount(call[d], p)]
           D == [d \in Ctx |-> Amount(call'[d], p)]
           L == Largest(p, p.windows[j])
           W == SpentIn(charged[l], s, p.windows[j].span)
           V == SpentIn(charged'[l], s, p.windows[j].span)
           B == p.windows[j].limit + Slack(p, j)
           C == p.windows[j].limit + Slack(p, j)'
<1>1. Room(W, P, A, L, B)
  BY DEF Bounded
<1>2. SUFFICES Room(V, Q, D, L, C)
  BY DEF Bounded
<1>3. L \in Nat /\ W \in Nat /\ P \subseteq Ctx /\ IsFiniteSet(P) /\ j \in 1..Len(p.windows)
      /\ Len(p.windows) \in Nat
  <2>1. Len(p.windows) \in Nat
    BY LimiterFacts
  <2> QED
    BY <2>1, WindowFacts
<1>4. V \in Nat
  <2>1. charged'[l] \in Seq(Entry)
    BY DEF TypeOK, LedgersOK
  <2> QED
    BY <2>1, SumType DEF SpentIn
<1>5. B \in Int /\ C \in Int /\ B <= C
  <2> DEFINE u == Slack(p, j)
             v == Slack(p, j)'
             m == p.windows[j].limit
  <2>1. u \in Int /\ v \in Int /\ u <= v /\ m \in Nat
    BY SlackGrows, LimiterFacts
  <2>2. m + u \in Int /\ m + v \in Int /\ m + u <= m + v
    <3> HIDE DEF u, v, m
    <3> QED  BY <2>1
  <2> QED
    BY <2>2
<1>6. \A d \in P : A[d] \in Nat /\ A[d] <= L
  <2> SUFFICES ASSUME NEW d \in P  PROVE A[d] \in Nat /\ A[d] <= L
    OBVIOUS
  <2>1. In(call[d], l) /\ call[d].w > j
    BY DEF Pending
  <2>2. Amount(call[d], p) \in Nat
    BY <2>1, <1>3, AmountFacts
  <2>3. /\ Amount(call[d], p) <= p.windows[j].limit
        /\ p.kind = "cap" => Amount(call[d], p) <= p.perCall
    BY <2>1, <1>3 DEF Kept, Cheap
  <2>4. p.kind = "rate" => Amount(call[d], p) <= 1
    BY DEF Amount
  <2> QED
    BY <1>3, <2>2, <2>3, <2>4, LimiterFacts DEF Largest
<1>7. Q = {d \in Ctx : /\ In(call'[d], l) /\ call'[d].w > j
                       /\ call'[d].now \in s..(s + p.windows[j].span)}
  BY DEF Pending, In
<1>8. ASSUME NEW d \in Ctx \ {c}  PROVE (d \in Q <=> d \in P) /\ (d \in Q => D[d] = A[d])
  BY <1>7 DEF Onward, Follows, Holds, Pending, Amount
<1>9. ASSUME Q = P \/ (c \in P /\ Q = P \ {c}), \A d \in Q : D[d] = A[d],
             V = W \/ (c \in P /\ c \notin Q /\ V = W + A[c])
      PROVE  Room(V, Q, D, L, C)
  <2> HIDE DEF P, Q, A, D, L, W, V, B, C
  <2> QED
    BY <1>1, <1>3, <1>4, <1>5, <1>6, <1>9, RoomLeft
<1>10. ASSUME V = W, c \in Q => c \in P /\ D[c] = A[c]
       PROVE  Room(V, Q, D, L, C)
  <2>1. \A d \in Q : D[d] = A[d]
    BY <1>7, <1>8, <1>10
  <2>2. Q = P \/ (c \in P /\ Q = P \ {c})
    <3> HIDE DEF D, A
    <3>1. Q \subseteq Ctx /\ P \subseteq Ctx
      BY <1>3, <1>7
    <3> HIDE DEF P, Q
    <3>2. \A d \in Ctx : d # c => (d \in Q <=> d \in P)
      BY <1>8
    <3> QED
      BY <1>10, <3>1, <3>2
  <2> QED
    BY <1>9, <1>10, <2>1, <2>2
<1>11. Untouched(l) \/ charged'[l] = charged[l] => V = W
  BY DEF Untouched
<1>12. CASE (Rests(call[c], call'[c], l) /\ Untouched(l)) \/ (Pops(call[c], call'[c], l) /\ charged'[l] = charged[l])
  <2>1. c \in Q => c \in P /\ D[c] = A[c]
    BY <1>7, <1>12 DEF Rests, Pops, Holds, Pending, Amount
  <2> QED
    BY <1>10, <1>11, <1>12, <2>1
<1>13. CASE Begins(call[c], call'[c], l) /\ Untouched(l)
  <2>1. c \notin Q
    BY <1>3, <1>7, <1>13 DEF Begins
  <2> QED
    BY <1>10, <1>11, <1>13, <2>1
<1>14. CASE Counts(call[c], call'[c], l) /\ Untouched(l) /\ Alike(l)
  <2>1. CASE j = call[c].w /\ call[c].now \in s..(s + p.windows[j].span)
    <3>1. Bounded(p, j, s)'
      BY <1>14, <2>1, RoomForNext
    <3> QED
      BY <3>1 DEF Bounded
  <2>2. CASE ~(j = call[c].w /\ call[c].now \in s..(s + p.windows[j].span))
    <3>1. c \in Q => c \in P /\ D[c] = A[c]
      <4> SUFFICES ASSUME c \in Q  PROVE c \in P /\ D[c] = A[c]
        OBVIOUS
      <4>1. /\ call[c].now \in s..(s + p.windows[j].span) /\ call[c].w + 1 > j
            /\ In(call[c], l) /\ D[c] = A[c]
        BY <1>7, <1>14 DEF Counts, Amount
      <4>2. call[c].w \in Nat /\ j \in Nat /\ j # call[c].w
        BY <1>3, <2>2, <4>1, AmountFacts
      <4>3. call[c].w > j
        BY <4>1, <4>2
      <4> QED
        BY <4>1, <4>3 DEF Pending
    <3> QED
      BY <1>10, <1>11, <1>14, <3>1
  <2> QED
    BY <2>1, <2>2
<1>15. CASE Charges(call[c], call'[c], l) /\ charged'[l] = Append(charged[l], EntryOf(call[c]))
  <2>1. c \notin Q /\ \A d \in Q : D[d] = A[d]
    BY <1>7, <1>8, <1>15 DEF Charges
  <2>2. In(call[c], l) /\ call[c].w > Len(p.windows) /\ call[c].w \in Nat
    BY <1>15, AmountFacts DEF Charges, Kept, Timely
  <2>3. call[c].w > j
    BY <1>3, <2>2
  <2>4. p.windows[j].span \in Nat
    BY LimiterFacts
  <2>5. V = W + IF call[c].now \in s..(s + p.windows[j].span) THEN Amount(call[c], p) ELSE 0
    BY <1>15, <2>2, <2>4, ChargeAdds
  <2>6. CASE call[c].now \in s..(s + p.windows[j].span)
    <3>1. c \in P
      BY <2>2, <2>3, <2>6 DEF Pending
    <3>2. Q = P \ {c}
      <4>1. Q \subseteq Ctx /\ P \subseteq Ctx
        BY <1>3, <1>7
      <4> HIDE DEF P, Q
      <4> QED
        BY <1>8, <2>1, <4>1
    <3>3. V = W + A[c]
      BY <2>5, <2>6
    <3> QED
      BY <1>9, <2>1, <3>1, <3>2, <3>3
  <2>7. CASE ~(call[c].now \in s..(s + p.windows[j].span))
    <3>1. V = W
      <4>1. V = W + 0
        BY <2>5, <2>7
      <4> HIDE DEF V, W
      <4> QED
        BY <1>3, <4>1
    <3> QED
      BY <1>10, <2>1, <3>1
  <2> QED
    BY <2>6, <2>7
<1> QED
  BY <1>12, <1>13, <1>14, <1>15 DEF Onward, StepOn

------------------------------------------------------------------------------
(* The limiters: every step                                                *)

\* Choosing fewer entries makes no larger sum.
LEMMA SumFewer ==
    ASSUME NEW entries \in Seq(Entry), NEW chosen, NEW more,
           \A n \in 1..Len(entries) : n \in chosen => n \in more
    PROVE  SumOf(entries, chosen) <= SumOf(entries, more)
<1> DEFINE g == Len(entries)
           rest == << >>
           x == SumOf(entries, chosen)
           y == SumOf(entries, more)
           z == SumOf(rest, {})
<1>1. g \in Nat /\ rest \in Seq(Entry) /\ Len(rest) = 0
  OBVIOUS
<1>2. \A n \in 1..Len(entries) : n \in chosen /\ n <= g => n \in more
  OBVIOUS
<1>3. \A n \in 1..Len(rest) : g + n \in chosen => n \in {}
  BY <1>1
<1>4. \A n \in 1..Len(rest) : rest[n] = entries[g + n]
  BY <1>1
<1>5. Len(entries) = g + Len(rest)
  BY <1>1
<1>6. \A n \in 1..Len(rest) : n \notin {}
  OBVIOUS
<1>7. z = 0
  <2> HIDE DEF rest
  <2> QED  BY <1>1, <1>6, SumOfNone
<1>8. x <= y + z
  <2> HIDE DEF rest, g
  <2> QED  BY <1>1, <1>2, <1>3, <1>4, <1>5, SumCovered
<1>9. x \in Nat /\ y \in Nat
  BY SumType
<1>10. x <= y
  <2> HIDE DEF x, y, z
  <2> QED  BY <1>7, <1>8, <1>9
<1> QED
  BY <1>10

\* A step of a call is one of StepOn, and the other calls follow.
LEMMA CallsGoOn ==
    ASSUME TypeOK, NEW c \in Ctx, Nested(c), CallStep(c), NEW p \in Limiters
    PROVE  Onward(c, p)
<1>1. p.ledger \in Ledger
  BY LimiterFacts
<1>2. StepOn(c, p.ledger)
  BY <1>1, CallOn
<1>3. Works(c)
  BY CallWorks
<1>4. \A d \in Ctx \ {c} : Follows(call[d], call'[d], p.ledger)
  BY <1>3, OthersFollow
<1>5. clock' = clock
  <2>1. CASE \/ BeginMeter(c) \/ TestEmpty(c) \/ TestOldest(c) \/ PopOldest(c) \/ BeginSum(c)
             \/ EndSum(c) \/ Charge(c)
    BY <2>1 DEF BeginMeter, TestEmpty, TestOldest, PopOldest, BeginSum, EndSum, Charge, Step, Fails
  <2>2. CASE \/ CheckNothing(c) \/ CheckAtOnce(c) \/ AgentRaises(c) \/ RecordViolation(c)
             \/ Escalate(c) \/ \E r \in Result : AgentReturns(c, r)
    BY <2>2 DEF CheckNothing, CheckAtOnce, AgentRaises, RecordViolation, Escalate, AgentReturns,
                Step, Fails, Passes
  <2> QED
    BY <2>1, <2>2 DEF CallStep
<1> QED
  BY <1>2, <1>4, <1>5 DEF Onward

\* So does a call that begins.
LEMMA BeginGoesOn ==
    ASSUME TypeOK, NEW c \in Ctx, NEW r \in Request, Begin(c, r), NEW p \in Limiters
    PROVE  Onward(c, p)
<1> PICK o : o = [Idle EXCEPT !.pc = "check", !.agent = r.agent, !.tool = r.tool,
                              !.id = calls + 1, !.dry = buffer[c]]
  OBVIOUS
<1>1. o.pc = "check" /\ call' = [call EXCEPT ![c] = o]
  BY DEF Begin, Idle
<1>2. call'[c] = o /\ \A d \in Ctx \ {c} : call'[d] = call[d]
  BY <1>1 DEF TypeOK, CallsOK
<1>3. Rests(call[c], call'[c], p.ledger)
  BY <1>1, <1>2 DEF Rests, In, Metering
<1>4. Untouched(p.ledger) /\ Alike(p.ledger) /\ clock' = clock
  BY DEF Begin, chargePast, Untouched, Alike
<1>5. \A d \in Ctx \ {c} : Follows(call[d], call'[d], p.ledger)
  BY <1>2 DEF Follows, Holds
<1> QED
  BY <1>3, <1>4, <1>5 DEF Onward, StepOn

\* The limits are kept by such steps.
LEMMA LimitsGoOn ==
    ASSUME TypeOK, TypeOK', Limits, NEW c \in Ctx, \A p \in Limiters : Onward(c, p)
    PROVE  Limits'
<1>1. ASSUME NEW p \in Limiters
      PROVE  Kept(p)' /\ \A j \in DOMAIN p.windows, s \in Int : Bounded(p, j, s)'
  <2>1. Kept(p) /\ Onward(c, p)
    BY DEF Limits
  <2>2. Kept(p)'
    BY <2>1, AloneKept, TimelyKept, SuffixKept, RemembersKept, TrimmedKept, CheapKept DEF Kept
  <2>3. ASSUME NEW j \in DOMAIN p.windows, NEW s \in Int  PROVE Bounded(p, j, s)'
    <3>1. Bounded(p, j, s)
      BY DEF Limits
    <3> QED
      BY <2>1, <2>2, <3>1, BoundedKept
  <2> QED
    BY <2>2, <2>3
<1> QED
  BY <1>1 DEF Limits

\* Nothing is done to the deques.
LEMMA LimitsAtRest ==
    ASSUME Limits, UNCHANGED <<clock, ledger, call, chargePast>>
    PROVE  Limits'
<1>1. UNCHANGED <<clock, ledger, call, charged, lost, overlapped>>
  BY DEF chargePast
<1>2. ASSUME NEW p \in Limiters  PROVE Kept(p)'
  <2>1. Kept(p)
    BY DEF Limits
  <2>2. Alone(p.ledger)' /\ Timely(p)' /\ Suffix(p.ledger)' /\ Trimmed(p)' /\ Cheap(p)'
    BY <1>1, <2>1 DEF Kept, Alone, Timely, Suffix, Gone, Trimmed, Cheap, In, Old, Amount
  <2>3. Remembers(p)'
    BY <1>1, <2>1 DEF Kept, Remembers, Times, Forgotten, Gone, In
  <2> QED
    BY <2>2, <2>3 DEF Kept
<1>3. ASSUME NEW p \in Limiters, NEW j \in DOMAIN p.windows, NEW s \in Int
      PROVE  Bounded(p, j, s)'
  <2>1. Bounded(p, j, s)
    BY DEF Limits
  <2>2. Pending(p, j, s)' = Pending(p, j, s)
    BY <1>1 DEF Pending, In
  <2>3. Slack(p, j)' = Slack(p, j)
    BY <1>1 DEF Slack
  <2>4. [d \in Ctx |-> Amount(call[d], p)]' = [d \in Ctx |-> Amount(call[d], p)]
    BY <1>1
  <2> QED
    BY <1>1, <2>1, <2>2, <2>3, <2>4 DEF Bounded
<1> QED
  BY <1>2, <1>3 DEF Limits

\* Time goes on.
LEMMA LimitsInTime ==
    ASSUME TypeOK, Limits, Tick
    PROVE  Limits'
<1>1. UNCHANGED <<ledger, call, charged, lost, overlapped>> /\ clock' = clock + 1
  BY DEF Tick, pastVars, chargePast
<1>2. ASSUME NEW p \in Limiters  PROVE Kept(p)'
  <2>1. Kept(p)
    BY DEF Limits
  <2>2. Alone(p.ledger)' /\ Suffix(p.ledger)' /\ Trimmed(p)' /\ Cheap(p)'
    BY <1>1, <2>1 DEF Kept, Alone, Suffix, Gone, Trimmed, Cheap, In, Old, Amount
  <2> PICK l \in Ledger : l = p.ledger
    BY LimiterFacts
  <2>3. clock \in Nat
    BY DequeFacts
  <2>4. ASSUME NEW d \in Ctx, In(call'[d], l)
        PROVE  /\ call'[d].now <= clock'
               /\ call'[d].pc = "charge" => call'[d].w > Len(p.windows)
    <3>1. In(call[d], l) /\ call'[d] = call[d]
      BY <1>1, <2>4 DEF In
    <3>2. call[d].now \in Nat /\ call[d].now <= clock
          /\ (call[d].pc = "charge" => call[d].w > Len(p.windows))
      BY <2>1, <3>1, AmountFacts DEF Kept, Timely
    <3> QED
      BY <1>1, <2>3, <3>1, <3>2
  <2>5. Timely(p)'
    BY <2>4 DEF Timely, In
  <2>6. ASSUME p.windows # <<>>, NEW t \in Times(l)'
        PROVE  SumOf(charged[l], {i \in 1..Gone(l) : charged[l][i].at >= t - Longest(p)}) <= lost[l]
    <3>1. t = clock + 1 \/ t \in Times(l)
      BY <1>1 DEF Times, In
    <3>2. CASE t \in Times(l)
      BY <2>1, <2>6, <3>2 DEF Kept, Remembers, Forgotten
    <3>3. CASE t = clock + 1
      <4> PICK top : top = Longest(p)
        OBVIOUS
      <4>1. top \in Nat
        BY <2>6, LongestFacts
      <4> DEFINE later == {i \in 1..Gone(l) : charged[l][i].at >= t - top}
                 earlier == {i \in 1..Gone(l) : charged[l][i].at >= clock - top}
                 x == SumOf(charged[l], later)
                 y == SumOf(charged[l], earlier)
      <4>2. y <= lost[l]
        BY <2>1, <2>6 DEF Kept, Remembers, Forgotten, Times
      <4>3. ASSUME NEW n \in 1..Len(charged[l]), n \in later  PROVE n \in earlier
        <5> DEFINE at == charged[l][n].at
        <5>1. at \in Int /\ at >= t - top
          BY <4>3, DequeFacts
        <5>2. at >= clock - top
          <6> HIDE DEF at
          <6> QED  BY <2>3, <3>3, <4>1, <5>1
        <5> QED
          BY <4>3, <5>2
      <4>4. x <= y /\ x \in Nat /\ y \in Nat /\ lost[l] \in Nat
        <5>1. charged[l] \in Seq(Entry) /\ lost[l] \in Nat
          BY DequeFacts
        <5> HIDE DEF later, earlier
        <5> QED
          BY <4>3, <5>1, SumFewer, SumType
      <4>5. x <= lost[l]
        <5> HIDE DEF x, y
        <5> QED  BY <4>2, <4>4
      <4> QED
        BY <4>5
    <3> QED
      BY <3>1, <3>2, <3>3
  <2>7. Remembers(p)'
    BY <1>1, <2>6 DEF Remembers, Forgotten, Gone
  <2> QED
    BY <2>2, <2>5, <2>7 DEF Kept
<1>3. ASSUME NEW p \in Limiters, NEW j \in DOMAIN p.windows, NEW s \in Int
      PROVE  Bounded(p, j, s)'
  <2>1. Bounded(p, j, s)
    BY DEF Limits
  <2>2. Pending(p, j, s)' = Pending(p, j, s)
    BY <1>1 DEF Pending, In
  <2>3. Slack(p, j)' = Slack(p, j)
    BY <1>1 DEF Slack
  <2>4. [d \in Ctx |-> Amount(call[d], p)]' = [d \in Ctx |-> Amount(call[d], p)]
    BY <1>1
  <2> QED
    BY <1>1, <2>1, <2>2, <2>3, <2>4 DEF Bounded
<1> QED
  BY <1>2, <1>3 DEF Limits

\* What earlier calls have spent in a window that begins anywhere.
LEMMA PastWithinLimits ==
    ASSUME NEW past \in Past, NEW p \in Limiters, NEW j \in DOMAIN p.windows, NEW s \in Int
    PROVE  SpentIn(past[p.ledger], s, p.windows[j].span) <= p.windows[j].limit
<1> PICK E : E = past[p.ledger]
  OBVIOUS
<1> PICK w : w = p.windows[j]
  OBVIOUS
<1>1. E \in Seq(Entry) /\ w.span \in Nat /\ w.limit \in Nat /\ w \in Range(p.windows)
  <2>1. past \in [Ledger -> Seq(Entry)] /\ p.ledger \in Ledger
    BY Constants, LimiterFacts
  <2> QED
    BY <2>1, LimiterFacts DEF Range
<1>2. \A i \in 1..Len(E) : E[i].at \in Int
  <2>1. \A i \in 1..Len(E) : E[i] \in Entry
    BY <1>1
  <2> QED
    BY <2>1 DEF Entry
<1>3. \A e \in Range(E) : SpentIn(E, e.at, w.span) <= w.limit
  BY <1>1, LimiterAssumption DEF LimiterAssumption
<1> DEFINE chosen == {i \in DOMAIN E : E[i].at \in s..(s + w.span)}
<1>4. DOMAIN E = 1..Len(E)
  BY <1>1
<1>5. CASE chosen = {}
  <2>1. \A n \in 1..Len(E) : n \notin chosen
    BY <1>5
  <2> HIDE DEF chosen
  <2>2. SumOf(E, chosen) = 0
    BY <1>1, <2>1, SumOfNone
  <2>3. SpentIn(E, s, w.span) = 0
    BY <2>2 DEF SpentIn, chosen
  <2>4. 0 <= w.limit
    BY <1>1
  <2> QED
    BY <2>3, <2>4
<1>6. CASE chosen # {}
  <2> DEFINE T == {E[i].at - s : i \in chosen}
  <2>1. T \subseteq Nat
    <3> SUFFICES ASSUME NEW i \in chosen  PROVE E[i].at - s \in Nat
      OBVIOUS
    <3> DEFINE at == E[i].at
    <3>1. at \in Int /\ at \in s..(s + w.span)
      BY <1>2, <1>4
    <3> HIDE DEF at
    <3>2. at - s \in Nat
      BY <1>1, <3>1
    <3> QED
      BY <3>2 DEF at
  <2>2. T # {}
    BY <1>6
  <2> HIDE DEF T
  <2>3. Min(T) \in T /\ \A y \in T : Min(T) <= y
    BY <2>1, <2>2, MinFacts
  <2>4. PICK i \in chosen : Min(T) = E[i].at - s
    BY <2>3 DEF T
  <2> PICK from : from = E[i].at
    OBVIOUS
  <2> DEFINE more == {n \in DOMAIN E : E[n].at \in from..(from + w.span)}
  <2>5. from \in Int /\ from >= s /\ E[i] \in Range(E)
    <3>1. i \in DOMAIN E /\ from \in Int /\ from \in s..(s + w.span)
      BY <1>2, <1>4, <2>4
    <3> HIDE DEF chosen
    <3> QED
      BY <1>1, <3>1 DEF Range
  <2>6. ASSUME NEW n \in 1..Len(E), n \in chosen  PROVE n \in more
    <3> DEFINE at == E[n].at
    <3>1. at \in Int /\ at \in s..(s + w.span)
      BY <1>2, <2>6
    <3>2. at - s \in T
      BY <2>6 DEF T
    <3>3. from - s <= at - s
      BY <2>3, <2>4, <3>2
    <3>4. at \in from..(from + w.span)
      <4>1. at \in Int /\ from \in Int /\ w.span \in Nat /\ from >= s /\ at <= s + w.span
        <5> HIDE DEF at
        <5> QED  BY <1>1, <2>5, <3>1
      <4> HIDE DEF at
      <4>2. from <= at
        BY <3>3, <4>1
      <4>3. at <= from + w.span
        BY <4>1
      <4> QED
        BY <4>1, <4>2, <4>3
    <3> QED
      BY <1>4, <3>4
  <2>7. SumOf(E, chosen) <= SumOf(E, more)
    <3> HIDE DEF chosen, more
    <3> QED  BY <1>1, <2>6, SumFewer
  <2>8. SpentIn(E, from, w.span) <= w.limit
    BY <1>3, <2>5
  <2>9. SumOf(E, chosen) = SpentIn(E, s, w.span) /\ SumOf(E, more) = SpentIn(E, from, w.span)
    BY DEF SpentIn
  <2>10. SumOf(E, chosen) \in Nat /\ SumOf(E, more) \in Nat
    <3> HIDE DEF chosen, more
    <3> QED  BY <1>1, SumType
  <2> DEFINE x == SumOf(E, chosen)
             y == SumOf(E, more)
  <2>11. x <= y /\ y <= w.limit /\ x \in Nat /\ y \in Nat /\ x = SpentIn(E, s, w.span)
    BY <2>7, <2>8, <2>9, <2>10
  <2>12. x <= w.limit
    <3> HIDE DEF x, y
    <3> QED  BY <1>1, <2>11
  <2> QED
    BY <2>11, <2>12
<1> QED
  BY <1>5, <1>6

\* At the start the limits are kept.
LEMMA LimitsAtStart ==
    ASSUME Init  PROVE Limits
<1>1. TypeOK
  BY TypesAtStart
<1>2. \A d \in Ctx : \A l : ~In(call[d], l)
  BY DEF Init, Idle, In, Metering
<1>3. /\ charged = ledger /\ ledger \in Past /\ overlapped = {}
      /\ \A l \in Ledger : lost[l] = 0
  BY DEF Init
<1>4. ASSUME NEW p \in Limiters  PROVE Kept(p)
  <2> PICK l \in Ledger : l = p.ledger
    BY LimiterFacts
  <2>1. Alone(l) /\ Timely(p) /\ Trimmed(p) /\ Cheap(p)
    BY <1>2, <1>3 DEF Alone, Timely, Trimmed, Cheap
  <2>2. Len(charged[l]) \in Nat /\ charged[l] \in Seq(Entry)
    BY <1>1, DequeFacts
  <2>3. Gone(l) = 0
    BY <1>3, <2>2 DEF Gone
  <2>4. Suffix(l)
    <3>1. \A i \in 1..Len(ledger[l]) : 0 + i = i
      OBVIOUS
    <3> QED
      BY <1>3, <2>3, <3>1 DEF Suffix
  <2>5. ASSUME NEW from  PROVE Forgotten(l, from) <= lost[l]
    <3>1. \A n \in 1..Len(charged[l]) : n \notin {i \in 1..Gone(l) : charged[l][i].at >= from}
      BY <2>3
    <3>2. Forgotten(l, from) = 0
      BY <2>2, <3>1, SumOfNone DEF Forgotten
    <3> QED
      BY <1>3, <3>2
  <2>6. Remembers(p)
    BY <2>5 DEF Remembers
  <2> QED
    BY <2>1, <2>4, <2>6 DEF Kept
<1>5. ASSUME NEW p \in Limiters, NEW j \in DOMAIN p.windows, NEW s \in Int
      PROVE  Bounded(p, j, s)
  <2> DEFINE W == SpentIn(charged[p.ledger], s, p.windows[j].span)
             L == Largest(p, p.windows[j])
             limit == p.windows[j].limit
  <2>1. W <= limit
    BY <1>3, PastWithinLimits
  <2>2. Pending(p, j, s) = {} /\ Slack(p, j) = 0
    BY <1>2, <1>3 DEF Pending, Slack
  <2>3. W \in Nat /\ L \in Nat /\ limit \in Nat
    BY <1>1, WindowFacts
  <2>4. Cardinality(Pending(p, j, s)) = 0
    BY <2>2, FS_EmptySet
  <2>5. W + L * 0 <= limit + 0
    <3> HIDE DEF W, L, limit
    <3> QED  BY <2>1, <2>3
  <2> QED
    BY <2>2, <2>4, <2>5 DEF Bounded, Room
<1> QED
  BY <1>4, <1>5 DEF Limits

\* Every step keeps the limits.
LEMMA LimitsKept ==
    ASSUME TypeOK, TypeOK', Inv, Limits, [Next]_vars
    PROVE  Limits'
<1>1. CASE Tick
  BY <1>1, LimitsInTime
<1>2. CASE UNCHANGED vars
  BY <1>2, LimitsAtRest DEF vars, pastVars
<1>3. ASSUME NEW c \in Ctx, EnterDryRun(c) \/ LeaveDryRun(c) \/ \E d \in Ctx : Spawn(c, d)
      PROVE  Limits'
  BY <1>3, LimitsAtRest DEF EnterDryRun, LeaveDryRun, Spawn, pastVars
<1>4. ASSUME NEW c \in Ctx, NEW r \in Request, Begin(c, r)  PROVE Limits'
  BY <1>4, BeginGoesOn, LimitsGoOn
<1>5. ASSUME NEW c \in Ctx, CallStep(c)  PROVE Limits'
  <2>1. Nested(c)
    BY DEF Inv
  <2> QED
    BY <1>5, <2>1, CallsGoOn, LimitsGoOn
<1> QED
  BY <1>1, <1>2, <1>3, <1>4, <1>5 DEF Next

\* There is room for what was spent, at least.
LEMMA WithinBound ==
    ASSUME TypeOK, Limits, NEW p \in Limiters, NEW j \in DOMAIN p.windows, NEW s \in Int
    PROVE  SpentIn(charged[p.ledger], s, p.windows[j].span) <=
               p.windows[j].limit + Slack(p, j)
<1> DEFINE W == SpentIn(charged[p.ledger], s, p.windows[j].span)
           P == Pending(p, j, s)
           A == [d \in Ctx |-> Amount(call[d], p)]
           L == Largest(p, p.windows[j])
           B == p.windows[j].limit + Slack(p, j)
           n == Cardinality(P)
<1>1. Room(W, P, A, L, B)
  BY DEF Limits, Bounded
<1>2. W \in Nat /\ L \in Nat /\ B \in Int /\ IsFiniteSet(P) /\ P \subseteq Ctx
  BY WindowFacts
<1>3. n \in Nat
  <2> HIDE DEF P
  <2> QED  BY <1>2, FS_CardinalityType
<1>4. CASE W + L * n <= B
  <2> DEFINE x == L * n
  <2>1. x \in Int /\ x >= 0
    <3> HIDE DEF n, L
    <3> QED  BY <1>2, <1>3, Products
  <2>2. W + x <= B
    BY <1>4
  <2>3. W <= B
    <3> HIDE DEF x, W, B
    <3> QED  BY <1>2, <2>1, <2>2
  <2> QED
    BY <2>3
<1>5. ASSUME NEW d \in P, W + A[d] + L * (n - 1) <= B  PROVE W <= B
  <2> DEFINE x == L * (n - 1)
             a == A[d]
  <2>1. n - 1 \in Nat
    <3>1. n # 0
      <4>1. P # {}
        OBVIOUS
      <4> HIDE DEF P
      <4> QED  BY <1>2, <4>1, FS_EmptySet
    <3> HIDE DEF n
    <3> QED
      BY <1>3, <3>1
  <2>2. x \in Int /\ x >= 0
    <3> DEFINE m == n - 1
    <3>1. m \in Int /\ m >= 0
      <4> HIDE DEF n
      <4> QED  BY <2>1
    <3> HIDE DEF m, L
    <3>2. L * m \in Int /\ L * m >= 0
      BY <1>2, <3>1, Products
    <3> QED
      BY <3>2 DEF m
  <2>3. a \in Nat
    BY AmountFacts DEF Pending
  <2>4. W + a + x <= B
    BY <1>5
  <2> HIDE DEF x, a, W, B
  <2> QED
    BY <1>2, <2>2, <2>3, <2>4
<1> QED
  BY <1>1, <1>4, <1>5 DEF Room

------------------------------------------------------------------------------
(* The theorems                                                            *)

\* The invariant holds.
LEMMA Invariance == Spec => [](TypeOK /\ Inv)
<1>1. Init => TypeOK /\ Inv
  BY TypesAtStart, InvAtStart
<1>2. TypeOK /\ Inv /\ [Next]_vars => (TypeOK /\ Inv)'
  BY TypesKept, InvKept DEF Inv
<1> QED
  BY <1>1, <1>2, PTL DEF Spec

\* The variables keep their types, and the place of a call is always one in
\* the policies of its agent.
THEOREM TypeCorrect == Spec => []TypeOK
BY Invariance, PTL

\* A context is in the dry run of its innermost block, or of its creator's.
THEOREM DryRunsCorrect == Spec => []DryInsideBlocks
<1>1. Inv => DryInsideBlocks
  BY DEF Inv, Nested, DryInsideBlocks
<1> QED
  BY <1>1, Invariance, PTL

\* A check crashes on its deque only if another check overlapped with it.
THEOREM CrashesCorrect == Spec => []CrashesOnlyInRaces
<1>1. Inv => CrashesOnlyInRaces
  BY DEF Inv, Raced, CrashesOnlyInRaces
<1> QED
  BY <1>1, Invariance, PTL

\* Outside of a dry run no agent runs, and no result is returned, before each
\* group has let it pass.
THEOREM EnforcementCorrect == Spec => []PoliciesAreEnforced
<1>1. Inv => PoliciesAreEnforced
  BY DEF Inv, Enforced, AllLet, Lets, Satisfied, PoliciesAreEnforced
<1> QED
  BY <1>1, Invariance, PTL

\* Every violation is settled once: in the buffer of its dry run, or by one
\* escalation that ends the call.
THEOREM SettlementCorrect == Spec => []ViolationsAreSettled
<1>1. Inv => ViolationsAreSettled
  BY DEF Inv, Accounts, Settled, ViolationsAreSettled
<1> QED
  BY <1>1, Invariance, PTL

\* Outside of a dry run a result that has to be redacted is returned redacted, as
\* far as PIIRedact looks.
THEOREM RedactionCorrect == Spec => []ReturnedIsRedacted
<1>1. ASSUME TypeOK, Inv  PROVE ReturnedIsRedacted
  <2> SUFFICES ASSUME NEW c \in Ctx, call[c].pc = "returned", call[c].dry = 0,
                      NEW group \in Range(Groups[call[c].agent]), group.mode = "all",
                      NEW p \in Range(group.policies), p.kind = "redact"
               PROVE  call[c].result.pii \subseteq {"beyond"}
    BY DEF ReturnedIsRedacted
  <2>1. PICK g \in DOMAIN Groups[call[c].agent] : group = Groups[call[c].agent][g]
    BY DEF Range
  <2>2. PICK i \in DOMAIN group.policies : p = group.policies[i]
    BY DEF Range
  <2>3. Redactor(Groups[call[c].agent][g])
    BY <2>1, <2>2 DEF Redactor
  <2>4. Cleaned(call[c])
    BY <1>1 DEF Inv
  <2>5. Clean(call[c].result)
    BY <2>3, <2>4 DEF Cleaned
  <2>6. call[c].result \in Outcome
    BY <1>1, CallFacts DEF CallState
  <2> QED
    BY <2>5, <2>6 DEF Clean, Outcome
<1> QED
  BY <1>1, Invariance, PTL

\* No more is spent in a window than its limit, while the checks of the deque
\* never overlap; and else by one call for each other context, and by what was
\* trimmed while a check had to count it yet, at most.
THEOREM OvershootCorrect == Spec => []OvershootIsBounded
<1>1. Init => Limits
  BY LimitsAtStart
<1>2. TypeOK /\ TypeOK' /\ Inv /\ Limits /\ [Next]_vars => Limits'
  BY LimitsKept
<1>3. ASSUME TypeOK, Limits  PROVE OvershootIsBounded
  <2> SUFFICES ASSUME NEW p \in Limiters, NEW w \in Range(p.windows),
                      NEW e \in Range(charged[p.ledger])
               PROVE  SpentIn(charged[p.ledger], e.at, w.span) <=
                        w.limit + IF p.ledger \in overlapped
                                  THEN (Cardinality(Ctx) - 1) * Largest(p, w) + lost[p.ledger]
                                  ELSE 0
    BY DEF OvershootIsBounded
  <2>1. PICK j \in DOMAIN p.windows : w = p.windows[j]
    BY DEF Range
  <2>2. e.at \in Int
    BY <1>3, DequeFacts, LimiterFacts DEF Range
  <2> QED
    BY <1>3, <2>1, <2>2, WithinBound DEF Slack
<1> QED
  BY <1>1, <1>2, <1>3, Invariance, PTL DEF Spec
===============================================================================
