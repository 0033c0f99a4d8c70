------------------------------ MODULE Guardian ------------------------------
(***************************************************************************)
(* Guardian: calls of wrapped agents from several contexts, the policies   *)
(* checked before and after the agent, and what becomes of a violation.    *)
(*                                                                         *)
(* RateLimit and DollarCap keep a deque of charges that no lock protects:  *)
(* a check trims it, iterates over it and appends to it, and the checks of *)
(* other threads come in between.  A deque raises IndexError when it is    *)
(* popped empty, and RuntimeError when it changed during an iteration;     *)
(* both leave the wrapper, dry run or not.                                 *)
(*                                                                         *)
(* The policies of an agent are a sequence of groups: AllOf or AnyOf over  *)
(* policies that are not combinators themselves.  A bare policy is the     *)
(* AllOf of itself.                                                        *)
(***************************************************************************)
EXTENDS Integers, SequencesExt

CONSTANTS
    Ctx,        \* contexts: threads, tasks, to_thread workers
    Main,       \* those that exist from the start, with an empty context
    Agent,      \* wrapped agents
    Groups,     \* their resolved policies
    Request,    \* calls: an agent, and the tool and host it is asked to use
    Ledger,     \* the deques of the limiters
    Result,     \* what agents may return
    Past,       \* what the deques may hold from earlier calls
    MaxCalls,   \* bound: wrapped calls ever begun
    MaxBlocks,  \* bound: dry_run blocks ever entered
    MaxTime     \* bound: of the clock

\* The hooks that each kind of policy has.  What is to be redacted in a result
\* lies where PIIRedact looks, in a str or under dicts and lists, or beyond: in a
\* tuple, a set or an object.
Hook == [pre |-> {"rate", "allow", "block", "schema"},
         post |-> {"cap", "schema", "redact"}]
NoTool == "none"
NoCost == -1
Outcome == [cost : {NoCost} \cup Nat, shape : {"str", "dict"},
            pii : SUBSET {"reached", "beyond"}, valid : BOOLEAN]

Window == [span : Nat, limit : Nat]
Entry == [at : Int, amount : Nat]

\* A policy, and a group of them.  No cap of one call is a cap above all costs.
PolicyOK(p) ==
    /\ p.kind \in Hook.pre \cup Hook.post
    /\ p.windows \in Seq(Window)
    /\ p.kind \in {"rate", "cap"} => p.ledger \in Ledger
    /\ p.kind = "cap" => p.perCall \in Nat
GroupOK(group) ==
    /\ group.mode \in {"all", "any"}
    /\ group.policies \in Seq(Range(group.policies)) /\ group.policies # <<>>
    /\ \A i \in DOMAIN group.policies : PolicyOK(group.policies[i])

ASSUME GuardianAssumption ==
    /\ Main \subseteq Ctx
    /\ Past \subseteq [Ledger -> Seq(Entry)]
    /\ \A a \in Agent :
          /\ Groups[a] \in Seq(Range(Groups[a])) /\ Groups[a] # <<>>
          /\ \A g \in DOMAIN Groups[a] : GroupOK(Groups[a][g])
    /\ \A r \in Request : r.agent \in Agent
    /\ Result \subseteq Outcome
    /\ MaxCalls \in Nat /\ MaxBlocks \in Nat /\ MaxTime \in Nat

Policies == UNION {Range(g.policies) : g \in UNION {Range(Groups[a]) : a \in Agent}}
Limiters == {p \in Policies : p.kind \in {"rate", "cap"}}

\* sum(...) over the chosen entries of a deque; a recursive function, since
\* what the provers know of a fold is only its name.
SumOf(entries, chosen) ==
    LET sum[n \in 0..Len(entries)] ==
            IF n = 0 THEN 0
            ELSE sum[n - 1] + IF n \in chosen THEN entries[n].amount ELSE 0
    IN  sum[Len(entries)]

\* What was spent in the window that begins at s.
SpentIn(entries, s, span) ==
    SumOf(entries, {i \in DOMAIN entries : entries[i].at \in s..(s + span)})

\* Each limiter makes a deque of its own, and earlier calls have kept to its
\* limits.
ASSUME LimiterAssumption ==
    /\ IsFiniteSet(Ctx)
    /\ \A p, q \in Limiters : p.ledger = q.ledger => p = q
    /\ \A past \in Past : \A p \in Limiters :
          \A w \in Range(p.windows), e \in Range(past[p.ledger]) :
              SpentIn(past[p.ledger], e.at, w.span) <= w.limit

VARIABLES
    clock,      \* time.monotonic()
    ledger,     \* RateLimit._calls, DollarCap._history
    started,    \* the contexts that exist
    buffer,     \* _dry_run_violations in each context; 0 is None
    tokens,     \* what dry_run will reset it to, outermost block first
    opened,     \* dry_run blocks entered
    recorded,   \* the contents of the buffers: who violated
    call,       \* the locals of the call each context is in
    calls,      \* calls begun
    blocks,     \* history: the dry_run blocks each context is in
    inherited,  \* history: the buffer a context was made with
    passed,     \* history: the checks the context's call has passed
    found,      \* history: the violations the groups of its call have raised
    told,       \* history: the escalations of its call
    charged,    \* history: every charge ever made
    lost,       \* history: what trims threw away that a check had to count yet
    overlapped  \* history: the deques that two checks have used at once

dryVars == <<buffer, tokens, opened, blocks, inherited, started>>
callPast == <<passed, found, told>>
chargePast == <<charged, lost, overlapped>>
pastVars == <<callPast, chargePast>>
vars == <<clock, ledger, dryVars, recorded, call, calls, pastVars>>

Unknown == [cost |-> NoCost, shape |-> "str", pii |-> {}, valid |-> TRUE]

Idle ==
    [pc |-> "idle", agent |-> "none", tool |-> NoTool, phase |-> "pre", g |-> 1,
     i |-> 1, now |-> 0, w |-> 1, disturbed |-> FALSE,
     result |-> Unknown, current |-> Unknown, replaced |-> FALSE,
     id |-> 0, dry |-> 0, raced |-> FALSE]

Init ==
    /\ clock = 0
    /\ ledger \in Past
    /\ started = Main
    /\ buffer = [c \in Ctx |-> 0]
    /\ tokens = [c \in Ctx |-> <<>>]
    /\ opened = 0
    /\ recorded = [b \in 1..MaxBlocks |-> <<>>]
    /\ call = [c \in Ctx |-> Idle]
    /\ calls = 0
    /\ blocks = [c \in Ctx |-> <<>>]
    /\ inherited = [c \in Ctx |-> 0]
    /\ passed = [c \in Ctx |-> {}]
    /\ found = [c \in Ctx |-> 0]
    /\ told = [c \in Ctx |-> 0]
    /\ charged = ledger
    /\ lost = [l \in Ledger |-> 0]
    /\ overlapped = {}

Tick ==
    /\ clock < MaxTime
    /\ clock' = clock + 1
    /\ UNCHANGED <<ledger, dryVars, recorded, call, calls, pastVars>>

-----------------------------------------------------------------------------
(* Dry runs                                                                *)

Ended == {"idle", "returned", "violation", "error", "crashed"}

Free(c) == c \in started /\ call[c].pc \in Ended

EnterDryRun(c) ==
    /\ Free(c)
    /\ opened < MaxBlocks
    /\ opened' = opened + 1
    /\ tokens' = [tokens EXCEPT ![c] = Append(@, buffer[c])]
    /\ buffer' = [buffer EXCEPT ![c] = opened + 1]
    /\ blocks' = [blocks EXCEPT ![c] = Append(@, opened + 1)]
    /\ UNCHANGED <<clock, ledger, inherited, started, recorded, call,
                   calls, pastVars>>

\* Mutant: the variable is cleared, not reset.
LeaveDryRun_Clears(c) ==
    /\ Free(c)
    /\ tokens[c] # <<>>
    /\ buffer' = [buffer EXCEPT ![c] = 0]
    /\ tokens' = [tokens EXCEPT ![c] = Front(@)]
    /\ blocks' = [blocks EXCEPT ![c] = Front(@)]
    /\ UNCHANGED <<clock, ledger, opened, inherited, started,
                   recorded, call, calls, pastVars>>

LeaveDryRun(c) ==
    /\ Free(c)
    /\ tokens[c] # <<>>
    /\ buffer' = [buffer EXCEPT ![c] = Last(tokens[c])]
    /\ tokens' = [tokens EXCEPT ![c] = Front(@)]
    /\ blocks' = [blocks EXCEPT ![c] = Front(@)]
    /\ UNCHANGED <<clock, ledger, opened, inherited, started,
                   recorded, call, calls, pastVars>>

\* A task is made: it has a copy of the context, and so the same buffer.
Spawn(c, d) ==
    /\ Free(c)
    /\ d \notin started
    /\ started' = started \cup {d}
    /\ buffer' = [buffer EXCEPT ![d] = buffer[c]]
    /\ inherited' = [inherited EXCEPT ![d] = buffer[c]]
    /\ UNCHANGED <<clock, ledger, tokens, opened, blocks, recorded,
                   call, calls, pastVars>>

-----------------------------------------------------------------------------
(* The way through the policies                                            *)

Group(k) == Groups[k.agent][k.g]
Policy(k) == Group(k).policies[k.i]
Goes(k, pc) == [k EXCEPT !.pc = pc]

\* Back in the policies, with nothing left of a check of a deque.
Checks(k) ==
    [k EXCEPT !.pc = "check", !.now = 0, !.w = 1, !.disturbed = FALSE,
              !.raced = FALSE]

\* The wrapper is left; of the locals only what the properties ask is kept.
Ends(k, pc) ==
    [Idle EXCEPT !.pc = pc, !.agent = k.agent, !.id = k.id, !.dry = k.dry,
                 !.raced = k.raced,
                 !.result = IF pc = "returned" THEN k.result ELSE @]

\* The group is done with: its replacement, if any, becomes the result, and
\* after the last group it is the agent's turn, or the caller's.
NextGroup(k) ==
    LET result == IF k.replaced THEN k.current ELSE k.result
        next == [Checks(k) EXCEPT !.i = 1, !.replaced = FALSE,
                                  !.result = result, !.current = result]
    IN  IF k.g < Len(Groups[k.agent]) THEN [next EXCEPT !.g = @ + 1]
        ELSE IF k.phase = "pre" THEN Goes(next, "agent")
        ELSE Ends(next, "returned")

IsLast(k) == k.i = Len(Group(k).policies)

\* Mutant: an AllOf stops at the first success, like an AnyOf.
Accepts_Any(k) == NextGroup(k)

\* A hook returned: AnyOf stops here, AllOf goes on.
Accepts(k) ==
    IF Group(k).mode = "any" \/ IsLast(k) THEN NextGroup(k)
    ELSE [Checks(k) EXCEPT !.i = @ + 1]

\* A hook raised a violation: AllOf stops here, AnyOf goes on, and raises the
\* last one.
Rejects(k) ==
    IF Group(k).mode = "all" \/ IsLast(k) THEN Goes(Checks(k), "violated")
    ELSE [Checks(k) EXCEPT !.i = @ + 1]

\* Mutant: only a replacement by the last policy of a group is returned.
Redacts_Last(k) ==
    LET clean == [k.current EXCEPT !.pii = @ \ {"reached"}] IN
    [k EXCEPT !.current = clean,
              !.replaced = IsLast(k),
              !.result = IF clean.shape = "dict" THEN clean ELSE @]

\* PIIRedact: a dict is redacted in place, a string is replaced; a value of
\* another type is handed back as it is, at the top and anywhere below.
Redacts(k) ==
    LET clean == [k.current EXCEPT !.pii = @ \ {"reached"}] IN
    [k EXCEPT !.current = clean,
              !.replaced = TRUE,
              !.result = IF clean.shape = "dict" THEN clean ELSE @]

NotAllowed(k, p) == p.kind = "allow" /\ k.tool \notin p.tools \cup {NoTool}
Blocked(k, p) == p.kind = "block" /\ k.tool \in p.tools

\* The tools of a schema are those that its pre_schema rejects the calls of.
Invalid(k, p) ==
    /\ p.kind = "schema"
    /\ IF k.phase = "pre" THEN k.tool \in p.tools ELSE ~k.current.valid
TooDear(k, p) == p.kind = "cap" /\ k.current.cost > p.perCall

\* What a policy says of the call without looking at earlier ones.
Rejected(k, p) ==
    NotAllowed(k, p) \/ Blocked(k, p) \/ Invalid(k, p) \/ TooDear(k, p)

\* The check keeps a deque: RateLimit, and DollarCap if the result has a
\* cost within the cap of one call.
Meters(k, p) ==
    \/ p.kind = "rate"
    \/ p.kind = "cap" /\ k.current.cost # NoCost /\ p.windows # <<>>

Step(c, k) ==
    /\ call' = [call EXCEPT ![c] = k]
    /\ UNCHANGED <<clock, dryVars, calls>>

Passes(c, k) ==
    /\ Step(c, Accepts(k))
    /\ passed' = [passed EXCEPT ![c] = @ \cup {<<k.phase, k.g, k.i>>}]

Fails(c, k) ==
    /\ Step(c, Rejects(k))
    /\ found' = [found EXCEPT ![c] =
                    IF Rejects(k).pc = "violated" THEN @ + 1 ELSE @]

Begin(c, r) ==
    /\ Free(c)
    /\ calls < MaxCalls
    /\ calls' = calls + 1
    /\ call' = [call EXCEPT ![c] =
                  [Idle EXCEPT !.pc = "check", !.agent = r.agent, !.tool = r.tool,
                               !.id = calls + 1, !.dry = buffer[c]]]
    /\ passed' = [passed EXCEPT ![c] = {}]
    /\ found' = [found EXCEPT ![c] = 0]
    /\ told' = [told EXCEPT ![c] = 0]
    /\ UNCHANGED <<clock, ledger, dryVars, recorded, chargePast>>

Checking(c) == call[c].pc = "check"
Hooked(c) == Policy(call[c]).kind \in Hook[call[c].phase]

\* Policies without this hook are passed over by AllOf; AnyOf accepts at the
\* first of them.
CheckNothing(c) ==
    LET k == call[c]
        ps == Group(k).policies
        hooked == {j \in (k.i + 1)..Len(ps) : ps[j].kind \in Hook[k.phase]}
        next == IF hooked = {} THEN Len(ps) + 1 ELSE Min(hooked)
    IN
    /\ Checking(c)
    /\ ~Hooked(c)
    /\ Step(c, IF Group(k).mode = "any" \/ hooked = {} THEN NextGroup(k)
               ELSE [k EXCEPT !.i = next])
    /\ passed' = [passed EXCEPT ![c] =
                    @ \cup {<<k.phase, k.g, j>> : j \in k.i..(next - 1)}]
    /\ UNCHANGED <<ledger, recorded, found, told, chargePast>>

CheckAtOnce(c) ==
    LET k == call[c]
        p == Policy(k)
    IN
    /\ Checking(c)
    /\ Hooked(c)
    /\ \/ /\ Rejected(k, p)
          /\ Fails(c, k)
          /\ UNCHANGED passed
       \/ /\ ~Rejected(k, p)
          /\ ~Meters(k, p)
          /\ Passes(c, IF p.kind = "redact" THEN Redacts(k) ELSE k)
          /\ UNCHANGED found
    /\ UNCHANGED <<ledger, recorded, told, chargePast>>

AgentReturns(c, r) ==
    /\ call[c].pc = "agent"
    /\ Step(c, [call[c] EXCEPT !.pc = "check", !.phase = "post", !.g = 1,
                               !.i = 1, !.result = r, !.current = r])
    /\ UNCHANGED <<ledger, recorded, pastVars>>

AgentRaises(c) ==
    /\ call[c].pc = "agent"
    /\ Step(c, Ends(call[c], "error"))
    /\ UNCHANGED <<ledger, recorded, pastVars>>

-----------------------------------------------------------------------------
(* The limiters                                                            *)

Metering == {"trim", "look", "pop", "meter", "sum", "charge"}
LedgerOf(c) == Policy(call[c]).ledger
Uses(d, l) == call[d].pc \in Metering /\ LedgerOf(d) = l

Longest(p) == Max({w.span : w \in Range(p.windows)})
Old(k, p, entry) == entry.at < k.now - Longest(p)
Amount(k, p) == IF p.kind = "rate" THEN 1 ELSE k.current.cost

\* The other contexts, when c has changed the deque l: who iterates over it
\* will notice.
Disturbing(c, l, k) ==
    [d \in Ctx |-> IF d = c THEN k
                   ELSE IF call[d].pc = "sum" /\ LedgerOf(d) = l
                   THEN [call[d] EXCEPT !.disturbed = TRUE]
                   ELSE call[d]]

\* The time is read.
BeginMeter(c) ==
    LET k == call[c]
        p == Policy(k)
        others == {d \in Ctx \ {c} : Uses(d, p.ledger)}
        now == [k EXCEPT !.pc = IF p.windows = <<>> THEN "meter" ELSE "trim",
                         !.now = clock, !.w = 1, !.raced = others # {}]
    IN
    /\ Checking(c)
    /\ Hooked(c)
    /\ ~Rejected(k, p)
    /\ Meters(k, p)
    /\ call' = [d \in Ctx |-> IF d = c THEN now
                              ELSE IF d \in others
                              THEN [call[d] EXCEPT !.raced = TRUE]
                              ELSE call[d]]
    /\ overlapped' = IF others = {} THEN overlapped
                     ELSE overlapped \cup {p.ledger}
    /\ UNCHANGED <<clock, ledger, dryVars, recorded, calls, callPast,
                   charged, lost>>

\* Mutant: the oldest charge is looked at without asking whether there is one.
TestEmpty_Skipped(c) ==
    /\ call[c].pc = "trim"
    /\ Step(c, Goes(call[c], "look"))
    /\ UNCHANGED <<ledger, recorded, pastVars>>

\* while self._calls ...
TestEmpty(c) ==
    /\ call[c].pc = "trim"
    /\ Step(c, Goes(call[c], IF ledger[LedgerOf(c)] = <<>> THEN "meter" ELSE "look"))
    /\ UNCHANGED <<ledger, recorded, pastVars>>

\* ... and self._calls[0] < cutoff: there may be none by now.
TestOldest(c) ==
    LET k == call[c]
        p == Policy(k)
        entries == ledger[p.ledger]
    IN
    /\ k.pc = "look"
    /\ Step(c, IF entries = <<>> THEN Ends(k, "crashed")
               ELSE Goes(k, IF Old(k, p, Head(entries)) THEN "pop" ELSE "meter"))
    /\ UNCHANGED <<ledger, recorded, pastVars>>

\* A check of the deque that is under way has to count the entry.
Needed(l, entry) ==
    \E d \in Ctx : Uses(d, l) /\ ~Old(call[d], Policy(call[d]), entry)

\* What is popped is the head by now, and there may be none.
PopOldest(c) ==
    LET k == call[c]
        l == LedgerOf(c)
        entries == ledger[l]
    IN
    /\ k.pc = "pop"
    /\ IF entries = <<>> THEN
          /\ Step(c, Ends(k, "crashed"))
          /\ UNCHANGED <<ledger, lost>>
       ELSE
          /\ ledger' = [ledger EXCEPT ![l] = Tail(@)]
          /\ call' = Disturbing(c, l, Goes(k, "trim"))
          /\ lost' = [lost EXCEPT ![l] =
                IF Needed(l, Head(entries)) THEN @ + Head(entries).amount
                ELSE @]
          /\ UNCHANGED <<clock, dryVars, calls>>
    /\ UNCHANGED <<recorded, callPast, charged, overlapped>>

\* The iteration of one window begins, or all windows have room.
BeginSum(c) ==
    LET k == call[c] IN
    /\ k.pc = "meter"
    /\ Step(c, IF k.w > Len(Policy(k).windows) THEN Goes(k, "charge")
               ELSE [k EXCEPT !.pc = "sum", !.disturbed = FALSE])
    /\ UNCHANGED <<ledger, recorded, pastVars>>

\* RateLimit counts what lies in the window, DollarCap all that is left.
Spent(k, p) ==
    LET entries == ledger[p.ledger]
    IN  SumOf(entries, {i \in DOMAIN entries : p.kind = "rate" =>
                           entries[i].at >= k.now - p.windows[k.w].span})

\* Mutant: the limit itself may be exceeded by one.
Full_Late(k, p) == Spent(k, p) > p.windows[k.w].limit

Full(k, p) == Spent(k, p) + Amount(k, p) > p.windows[k.w].limit

EndSum(c) ==
    LET k == call[c]
        p == Policy(k)
    IN
    /\ k.pc = "sum"
    /\ \/ k.disturbed /\ Step(c, Ends(k, "crashed")) /\ UNCHANGED found
       \/ ~k.disturbed /\ Full(k, p) /\ Fails(c, k)
       \/ /\ ~k.disturbed
          /\ ~Full(k, p)
          /\ Step(c, [k EXCEPT !.pc = "meter", !.w = @ + 1])
          /\ UNCHANGED found
    /\ UNCHANGED <<ledger, recorded, passed, told, chargePast>>

Charge(c) ==
    LET k == call[c]
        p == Policy(k)
        entry == [at |-> k.now, amount |-> Amount(k, p)]
    IN
    /\ k.pc = "charge"
    /\ ledger' = [ledger EXCEPT ![p.ledger] = Append(@, entry)]
    /\ call' = Disturbing(c, p.ledger, Accepts(k))
    /\ passed' = [passed EXCEPT ![c] = @ \cup {<<k.phase, k.g, k.i>>}]
    /\ charged' = [charged EXCEPT ![p.ledger] = Append(@, entry)]
    /\ UNCHANGED <<clock, dryVars, recorded, calls, found, told, lost,
                   overlapped>>

-----------------------------------------------------------------------------
(* Violations                                                              *)

\* Mutant: the handler hears of a violation in a dry run too.
RecordViolation_Tells(c) ==
    LET k == call[c] IN
    /\ k.pc = "violated"
    /\ buffer[c] # 0
    /\ recorded' = [recorded EXCEPT ![buffer[c]] = Append(@, k.id)]
    /\ told' = [told EXCEPT ![c] = @ + 1]
    /\ Step(c, NextGroup([k EXCEPT !.replaced = FALSE]))
    /\ UNCHANGED <<ledger, passed, found, chargePast>>

\* In a dry run: note the violation and go on with the next policy.  What the
\* group has replaced is gone with it.
RecordViolation(c) ==
    LET k == call[c] IN
    /\ k.pc = "violated"
    /\ buffer[c] # 0
    /\ recorded' = [recorded EXCEPT ![buffer[c]] = Append(@, k.id)]
    /\ Step(c, NextGroup([k EXCEPT !.replaced = FALSE]))
    /\ UNCHANGED <<ledger, pastVars>>

\* What the caller gets after the handler was told: the violation, or what the
\* handler raised.  Any thread may set another handler at any time.
AfterHandler == {"error", "violation"}

\* Otherwise: tell the handler, then raise.
Escalate(c) ==
    LET k == call[c] IN
    /\ k.pc = "violated"
    /\ buffer[c] = 0
    /\ told' = [told EXCEPT ![c] = @ + 1]
    /\ \E pc \in AfterHandler : Step(c, Ends(k, pc))
    /\ UNCHANGED <<ledger, recorded, passed, found, chargePast>>

-----------------------------------------------------------------------------

CallStep(c) ==
    \/ CheckNothing(c)
    \/ CheckAtOnce(c)
    \/ \E r \in Result : AgentReturns(c, r)
    \/ AgentRaises(c)
    \/ BeginMeter(c)
    \/ TestEmpty(c)
    \/ TestOldest(c)
    \/ PopOldest(c)
    \/ BeginSum(c)
    \/ EndSum(c)
    \/ Charge(c)
    \/ RecordViolation(c)
    \/ Escalate(c)

Next ==
    \/ \E c \in Ctx :
          \/ EnterDryRun(c)
          \/ LeaveDryRun(c)
          \/ \E d \in Ctx : Spawn(c, d)
          \/ \E r \in Request : Begin(c, r)
          \/ CallStep(c)
    \/ Tick

Spec == Init /\ [][Next]_vars

-----------------------------------------------------------------------------
(* Properties                                                              *)

\* The locals of a call.
CallState ==
    [pc : Ended \cup Metering \cup {"check", "agent", "violated"},
     agent : Agent \cup {"none"}, tool : {r.tool : r \in Request} \cup {NoTool},
     phase : {"pre", "post"}, g : Nat, i : Nat, now : Nat, w : Nat,
     disturbed : BOOLEAN, result : Outcome, current : Outcome,
     replaced : BOOLEAN, id : Nat, dry : Nat, raced : BOOLEAN]

\* In the policies of an agent, or in the agent.
Asking == Metering \cup {"check", "violated"}

\* The place in a call goes with the policies of its agent.
PlaceOK(k) ==
    /\ k.pc \in Asking \cup {"agent", "returned"} => k.agent \in Agent
    /\ k.pc = "agent" => k.phase = "pre"
    /\ k.pc \in Asking =>
          k.g \in DOMAIN Groups[k.agent] /\ k.i \in DOMAIN Group(k).policies
    /\ k.pc \in Metering => Meters(k, Policy(k)) /\ k.w > 0
    /\ k.pc = "sum" => k.w \in DOMAIN Policy(k).windows

CallsOK ==
    /\ calls \in 0..MaxCalls
    /\ call \in [Ctx -> CallState]
    /\ \A c \in Ctx : /\ PlaceOK(call[c])
                      /\ call[c].id <= calls /\ call[c].dry <= opened
                      /\ call[c].pc # "idle" => call[c].id > 0

DryOK ==
    /\ Main \subseteq started /\ started \subseteq Ctx
    /\ opened \in 0..MaxBlocks
    /\ buffer \in [Ctx -> 0..MaxBlocks] /\ inherited \in [Ctx -> 0..MaxBlocks]
    /\ tokens \in [Ctx -> Seq(0..MaxBlocks)] /\ blocks \in [Ctx -> Seq(1..MaxBlocks)]
    /\ \A c \in Ctx :
          /\ buffer[c] <= opened /\ inherited[c] <= opened
          /\ Len(tokens[c]) = Len(blocks[c])
          /\ \A k \in DOMAIN blocks[c] : blocks[c][k] <= opened

LedgersOK ==
    /\ clock \in 0..MaxTime
    /\ ledger \in [Ledger -> Seq(Entry)] /\ charged \in [Ledger -> Seq(Entry)]
    /\ lost \in [Ledger -> Nat] /\ overlapped \subseteq Ledger

RecordsOK ==
    /\ recorded \in [1..MaxBlocks -> Seq(1..MaxCalls)]
    /\ \A b \in 1..MaxBlocks : \A k \in DOMAIN recorded[b] : recorded[b][k] <= calls
    /\ passed \in [Ctx -> SUBSET ({"pre", "post"} \X Nat \X Nat)]
    /\ found \in [Ctx -> Nat] /\ told \in [Ctx -> Nat]

\* The types, and that a place in a call goes with a policy that has it.
TypeOK == CallsOK /\ DryOK /\ LedgersOK /\ RecordsOK

\* The most that one call may have charged.
Largest(p, w) ==
    IF p.kind = "rate" THEN 1 ELSE IF p.perCall < w.limit THEN p.perCall ELSE w.limit

\* How far the unlocked check and charge may exceed a limit: not at all while
\* the checks of a deque never overlap, and else by one call for each other
\* context and by what was trimmed while a check still had to count it.
OvershootIsBounded ==
    \A p \in Limiters : \A w \in Range(p.windows), e \in Range(charged[p.ledger]) :
        SpentIn(charged[p.ledger], e.at, w.span) <=
            w.limit + IF p.ledger \in overlapped
                      THEN (Cardinality(Ctx) - 1) * Largest(p, w) + lost[p.ledger]
                      ELSE 0

\* A check ends by an exception of its deque only if another check of the
\* same deque overlapped with it.
CrashesOnlyInRaces ==
    \A c \in Ctx : call[c].pc = "crashed" => call[c].raced

\* What the policies ask, said without the order in which they are asked.
Satisfied(c, phase) ==
    LET groups == Groups[call[c].agent] IN
    \A g \in DOMAIN groups :
        LET passes == {i \in DOMAIN groups[g].policies :
                          <<phase, g, i>> \in passed[c]}
        IN  IF groups[g].mode = "all" THEN passes = DOMAIN groups[g].policies
            ELSE passes # {}

\* Outside of a dry run no agent is run before each group has let the call
\* pass, and no result is returned before each group has let the result pass.
PoliciesAreEnforced ==
    \A c \in Ctx : call[c].dry = 0 =>
        /\ call[c].pc = "agent" => Satisfied(c, "pre")
        /\ call[c].pc = "returned" => Satisfied(c, "pre") /\ Satisfied(c, "post")

Occurrences(b, id) == Cardinality({i \in DOMAIN recorded[b] : recorded[b][i] = id})

\* Each violation is settled once: in a dry run it is in the buffer of that
\* run, in no other, and no handler hears of it; else it is escalated once and
\* ends the call.
ViolationsAreSettled ==
    \A c \in Ctx :
        LET k == call[c]
            settled == found[c] - IF k.pc = "violated" THEN 1 ELSE 0
        IN  /\ \A b \in 1..MaxBlocks :
                  Occurrences(b, k.id) = IF b = k.dry THEN settled ELSE 0
            /\ told[c] = IF k.dry = 0 THEN settled ELSE 0
            /\ k.dry = 0 /\ settled > 0 => k.pc \in {"violation", "error"}
            /\ k.pc = "violation" => k.dry = 0 /\ settled = 1

\* Outside of a dry run a result that has to be redacted is returned redacted as
\* far as the policy reaches, whatever replaces what in the groups before and
\* behind.  PIIRedact promises "every string anywhere in the result tree"
\* (pii_redact.py:26); what lies beyond dicts and lists it leaves (line 75).
ReturnedIsRedacted ==
    \A c \in Ctx :
        LET k == call[c] IN
        k.pc = "returned" /\ k.dry = 0
            /\ (\E g \in Range(Groups[k.agent]) : g.mode = "all" /\
                    \E p \in Range(g.policies) : p.kind = "redact")
        => k.result.pii \subseteq {"beyond"}

\* A context is in the dry run of its innermost block, of the block its
\* creator was in when it has none of its own, or in none.
DryInsideBlocks ==
    \A c \in Ctx : buffer[c] = IF blocks[c] # <<>> THEN Last(blocks[c])
                               ELSE inherited[c]
=============================================================================
