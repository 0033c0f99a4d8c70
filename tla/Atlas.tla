------------------------------- MODULE Atlas --------------------------------
(***************************************************************************)
(* The provider registry, the health records and the calls that use them:  *)
(* Atlas.route, Atlas.invoke, Atlas.reset_health and Cascade.run, called   *)
(* from several threads while providers come and go.                       *)
(*                                                                         *)
(* The registry has one lock and every health record has its own; nothing  *)
(* is held from one of their methods to the next.  A step of a call is     *)
(* therefore one such method, with the local work up to the next one.      *)
(*                                                                         *)
(* Left out: events, spans and trajectory steps (they read, they never     *)
(* write this state), the scores of bandit selectors (a selector is any    *)
(* choice among the healthy names) and exceptions that are not subclasses  *)
(* of Exception.                                                           *)
(***************************************************************************)
EXTENDS ProviderHealth, Sequences, SequencesExt, FiniteSets

CONSTANTS
    Provider,        \* provider names
    Thread,          \* threads calling Atlas and Cascade
    Request,         \* the calls they may make, see RequestAssumption
    DefaultCooldown, \* _DEFAULT_FAILURE_COOLDOWN_S
    OverflowAt,      \* least n for which float(2 ** n) overflows: 1024
    MaxRecord,       \* bound: health records ever created
    MaxCalls         \* bound: calls ever made

\* A call names its kind, its candidates in order (or every registered
\* provider), the names whose info passes the capability and tag filters,
\* and whether a bandit selector is active for it.
ASSUME RequestAssumption ==
    Request \subseteq
      [kind : {"route", "invoke", "cascade", "reset"},
       names : Seq(Provider), all : BOOLEAN,
       accepts : SUBSET Provider, bandit : BOOLEAN]

ASSUME BoundAssumption ==
    /\ DefaultCooldown \in Nat \ {0}
    /\ OverflowAt \in Nat
    /\ IsFiniteSet(Provider)
    /\ MaxRecord \in Nat
    /\ MaxCalls \in Nat

VARIABLES
    record,     \* ProviderRegistry._providers and _health, one entry for
                \*   both: name -> its record, or NoRecord
    health,     \* every ProviderHealth object created so far
    created,    \* how many of them
    call,       \* the call each thread is in, or the last it made
    calls,      \* how many calls were made
    ended,      \* history: provider.invoke calls that returned, by name
    steady,     \* history: names registered and out of cooldown ever since
                \*   the thread's call began
    fresh       \* history: records created, or that took a failure, since
                \*   it began

registry == <<record, created>>
history == <<steady, fresh>>
vars == <<registry, health, call, calls, ended, history>>

NoRecord == 0
Records == 1..MaxRecord
NoName == "none"
NoRequest ==
    [kind |-> "none", names |-> <<>>, all |-> FALSE, accepts |-> {},
     bandit |-> FALSE]

Status == {"none", "SUCCESS", "FAILED", "NO_CANDIDATES", "ALL_UNHEALTHY",
           "RAISED"}

PC == {"idle", "collect", "rescan", "peek", "probe", "lookup", "lookupHealth",
       "calling", "attempt", "attemptPeek", "attemptProbe", "penaltyPeek",
       "penaltyRead", "penalise", "resetting", "returned"}

Idle ==
    [pc |-> "idle", req |-> NoRequest, todo |-> <<>>, pool |-> <<>>,
     healthy |-> <<>>, skipped |-> {}, held |-> NoRecord, chosen |-> NoName,
     status |-> "none", ok |-> TRUE, attempts |-> <<>>, streak |-> 0,
     targets |-> {}]

Registered(n) == record[n] # NoRecord

Init ==
    /\ record = [n \in Provider |-> NoRecord]
    /\ health = [i \in Records |-> NewHealth]
    /\ created = 0
    /\ call = [t \in Thread |-> Idle]
    /\ calls = 0
    /\ ended = [n \in Provider |-> 0]
    /\ steady = [t \in Thread |-> {}]
    /\ fresh = [t \in Thread |-> {}]

-----------------------------------------------------------------------------
(* History.  Last conjunct of every action; it constrains nothing else.    *)

Busy(t) == call[t].pc # "idle"

Available(n) == Registered(n) /\ health[record[n]].cooldown = 0

Observe ==
    /\ steady' = [t \in Thread |->
          IF ~Busy(t)' THEN {}
          ELSE {n \in IF Busy(t) THEN steady[t] ELSE Provider :
                   Available(n)' /\ (Busy(t) => record'[n] = record[n])}]
    /\ fresh' = [t \in Thread |->
          IF Busy(t) /\ Busy(t)'
          THEN fresh[t] \cup (created + 1)..created'
               \cup {i \in Records :
                       health'[i].total_failures > health[i].total_failures}
          ELSE {}]

-----------------------------------------------------------------------------
(* ProviderRegistry: each mutator runs under the registry lock.            *)

Register(n) ==
    /\ ~Registered(n)               \* a duplicate raises ValueError
    /\ created < MaxRecord
    /\ created' = created + 1
    /\ record' = [record EXCEPT ![n] = created']
    /\ health' = [health EXCEPT ![created'] = NewHealth]
    /\ UNCHANGED <<call, calls, ended>>
    /\ Observe

Unregister(n) ==
    /\ Registered(n)
    /\ record' = [record EXCEPT ![n] = NoRecord]
    /\ UNCHANGED <<created, health, call, calls, ended>>
    /\ Observe

\* The monotonic clock advances while some window is open.
Tick ==
    /\ \E i \in Records : health[i].cooldown > 0
    /\ health' = [i \in Records |-> Elapse(health[i])]
    /\ UNCHANGED <<registry, call, calls, ended>>
    /\ Observe

-----------------------------------------------------------------------------
(* The steps of a call.  Become(t, c) makes c the state of thread t.       *)

Become(t, c) == call' = [call EXCEPT ![t] = c]

\* The call has its result; the locals of its frames are gone.
Returned(c, status) ==
    [Idle EXCEPT !.pc = "returned", !.req = c.req, !.status = status,
                 !.chosen = c.chosen, !.skipped = c.skipped]

\* A step of a call that only reads the registry and the records.
Reads(t, c) ==
    /\ Become(t, c)
    /\ UNCHANGED <<registry, health, calls, ended>>
    /\ Observe

\* The dict keeps insertion order, which is the order in which the records
\* were created: the one listing of the names of S.
Listings(S) ==
    {q \in [1..Cardinality(S) -> S] :
        \A i, j \in 1..Cardinality(S) : i < j => record[q[i]] < record[q[j]]}

Starts(t, c) ==
    /\ ~Busy(t)
    /\ calls < MaxCalls
    /\ calls' = calls + 1
    /\ Become(t, c)
    /\ UNCHANGED <<registry, health, ended>>
    /\ Observe

Begun(r) == [Idle EXCEPT !.req = r, !.todo = r.names]

\* _decide, step 1, without candidates: registry.all(), and the filters.
StartOverAll(t) ==
    \E r \in Request :
        /\ r.kind \in {"route", "invoke"}
        /\ r.all
        /\ \E pool \in Listings({n \in r.accepts : Registered(n)}) :
              Starts(t, [Begun(r) EXCEPT !.pc = "peek", !.pool = pool,
                 !.todo = pool,
                 !.skipped = {n \in Provider \ r.accepts : Registered(n)}])

\* With candidates: a loop over them, unless there are none.
StartOverNames(t) ==
    \E r \in Request :
        /\ r.kind \in {"route", "invoke"}
        /\ ~r.all
        /\ Starts(t, [Begun(r) EXCEPT !.pc = IF r.names = <<>> THEN "peek"
                                             ELSE "collect"])

StartCascade(t) ==
    \E r \in Request :
        /\ r.kind = "cascade"
        /\ Starts(t, [Begun(r) EXCEPT !.pc = "attempt"])

\* registry.reset_health: the named provider's record if there is one, and
\* every record otherwise.
StartReset(t) ==
    \E r \in Request :
        /\ r.kind = "reset"
        /\ LET named == r.names # <<>> /\ Registered(Head(r.names))
               names == IF named THEN {Head(r.names)}
                        ELSE {n \in Provider : Registered(n)}
           IN Starts(t, [Begun(r) EXCEPT !.pc = "resetting",
                            !.targets = {record[n] : n \in names}])

Start(t) ==
    StartOverAll(t) \/ StartOverNames(t) \/ StartCascade(t) \/ StartReset(t)

\* Each candidate is looked up for the pool, which the filters narrow ...
Collect(t) ==
    LET c == call[t]
        n == Head(c.todo)
        rest == Tail(c.todo)
        pool == IF Registered(n) /\ n \in c.req.accepts
                THEN Append(c.pool, n) ELSE c.pool
        rejected == IF Registered(n) /\ n \notin c.req.accepts
                    THEN {n} ELSE {}
    IN /\ c.pc = "collect"
       /\ Reads(t, [c EXCEPT !.pool = pool, !.skipped = @ \cup rejected,
             !.pc = IF rest = <<>> THEN "rescan" ELSE @,
             !.todo = IF rest = <<>> THEN c.req.names ELSE rest])

\* ... and looked up again for the skipped list.
Rescan(t) ==
    LET c == call[t]
        n == Head(c.todo)
        rest == Tail(c.todo)
    IN /\ c.pc = "rescan"
       /\ Reads(t, [c EXCEPT
             !.skipped = IF Registered(n) THEN @ ELSE @ \cup {n},
             !.pc = IF rest = <<>> THEN "peek" ELSE @,
             !.todo = IF rest = <<>> THEN c.pool ELSE rest])

\* _decide, step 3: _REGISTRY.get_health(p.name) ...
Peek(t) ==
    LET c == call[t] IN
    /\ c.pc = "peek"
    /\ c.todo # <<>>
    /\ Reads(t, [c EXCEPT !.pc = "probe", !.held = record[Head(c.todo)]])

\* Mutant: an unhealthy provider is reported and kept.
Probe_Keeps(t) ==
    LET c == call[t]
        n == Head(c.todo)
    IN /\ c.pc = "probe"
       /\ Reads(t, [c EXCEPT !.pc = "peek", !.todo = Tail(@),
             !.held = NoRecord, !.healthy = Append(@, n),
             !.skipped = IF c.held = NoRecord \/ IsHealthy(health[c.held])
                         THEN @ ELSE @ \cup {n}])

\* ... then health.is_healthy(), on the record just read.
Probe(t) ==
    LET c == call[t]
        n == Head(c.todo)
        pass == c.held = NoRecord \/ IsHealthy(health[c.held])
    IN /\ c.pc = "probe"
       /\ Reads(t, [c EXCEPT !.pc = "peek", !.todo = Tail(@), !.held = NoRecord,
             !.healthy = IF pass THEN Append(@, n) ELSE @,
             !.skipped = IF pass THEN @ ELSE @ \cup {n}])

\* _decide, step 4: a selector picks any healthy name, without one the
\* first.  The decision is recorded; route returns, invoke goes on.
Pick(t) ==
    LET c == call[t] IN
    /\ c.pc = "peek"
    /\ c.todo = <<>>
    /\ \/ /\ c.pool = <<>>
          /\ Reads(t, Returned(c, "NO_CANDIDATES"))
       \/ /\ c.pool # <<>>
          /\ c.healthy = <<>>
          /\ Reads(t, Returned(c, "ALL_UNHEALTHY"))
       \/ \E i \in DOMAIN c.healthy :
             LET n == c.healthy[i]
                 d == [c EXCEPT !.status = "SUCCESS", !.chosen = n]
             IN /\ c.req.bandit \/ i = 1
                /\ Reads(t, IF c.req.kind = "route" THEN Returned(d, "SUCCESS")
                            ELSE [d EXCEPT !.pc = "lookup", !.todo = <<n>>,
                                           !.pool = <<>>, !.healthy = <<>>])

\* invoke: _REGISTRY.get, then _REGISTRY.get_health.  Either may find the
\* name gone; the call then returns (name, None).
Lookup(t) ==
    LET c == call[t] IN
    /\ c.pc = "lookup"
    /\ Reads(t, IF Registered(c.chosen) THEN [c EXCEPT !.pc = "lookupHealth"]
                ELSE Returned(c, c.status))

\* Mutant: the record is taken to be there because the provider was.
LookupHealth_Unchecked(t) ==
    LET c == call[t] IN
    /\ c.pc = "lookupHealth"
    /\ Reads(t, [c EXCEPT !.pc = "calling", !.held = record[c.chosen]])

LookupHealth(t) ==
    LET c == call[t] IN
    /\ c.pc = "lookupHealth"
    /\ Reads(t, IF Registered(c.chosen)
                THEN [c EXCEPT !.pc = "calling", !.held = record[c.chosen]]
                ELSE Returned(c, c.status))

-----------------------------------------------------------------------------
(* Cascade.run                                                             *)

\* The cascade goes on after attempt s, or returns.
NextAttempt(c, s) ==
    IF s = "SUCCESS" THEN Returned([c EXCEPT !.chosen = Head(c.todo)], s)
    ELSE [c EXCEPT !.pc = "attempt", !.todo = Tail(@), !.held = NoRecord,
                   !.streak = 0, !.attempts = Append(@, s)]

Verdict(attempts) ==
    IF attempts # <<>> /\ ToSet(attempts) = {"ALL_UNHEALTHY"}
    THEN "ALL_UNHEALTHY" ELSE "FAILED"

\* Atlas.get_provider(name); with no name left the cascade has failed.
Attempt(t) ==
    LET c == call[t] IN
    /\ c.pc = "attempt"
    /\ \/ /\ c.todo # <<>>
          /\ Registered(Head(c.todo))
          /\ Reads(t, [c EXCEPT !.pc = "attemptPeek"])
       \/ /\ c.todo # <<>>
          /\ ~Registered(Head(c.todo))
          /\ Reads(t, NextAttempt(c, "NO_CANDIDATES"))
       \/ /\ c.todo = <<>>
          /\ Reads(t, Returned(c, Verdict(c.attempts)))

\* Atlas.get_health(name)
AttemptPeek(t) ==
    LET c == call[t] IN
    /\ c.pc = "attemptPeek"
    /\ Reads(t, [c EXCEPT !.pc = "attemptProbe",
                          !.held = record[Head(c.todo)]])

\* Mutant: the cooldown is not looked at.
AttemptProbe_Unchecked(t) ==
    /\ call[t].pc = "attemptProbe"
    /\ Reads(t, [call[t] EXCEPT !.pc = "calling"])

\* Mutant: a provider in cooldown ends the cascade.
AttemptProbe_GivesUp(t) ==
    LET c == call[t]
        skip == c.held # NoRecord /\ ~IsHealthy(health[c.held])
    IN /\ c.pc = "attemptProbe"
       /\ Reads(t, IF skip THEN Returned(c, "ALL_UNHEALTHY")
                   ELSE [c EXCEPT !.pc = "calling"])

\* health is not None and not health.is_healthy()
AttemptProbe(t) ==
    LET c == call[t]
        skip == c.held # NoRecord /\ ~IsHealthy(health[c.held])
    IN /\ c.pc = "attemptProbe"
       /\ Reads(t, IF skip THEN NextAttempt(c, "ALL_UNHEALTHY")
                   ELSE [c EXCEPT !.pc = "calling"])

\* provider.invoke returned, to invoke or to a cascade.
Succeed(t) ==
    LET c == call[t] IN
    /\ c.pc = "calling"
    /\ health' = [i \in Records |-> IF i = c.held THEN RecordSuccess(health[i])
                                    ELSE health[i]]
    /\ ended' = [ended EXCEPT ![Head(c.todo)] = @ + 1]
    /\ Become(t, IF c.req.kind = "invoke" THEN Returned(c, c.status)
                 ELSE NextAttempt(c, "SUCCESS"))
    /\ UNCHANGED <<registry, calls>>
    /\ Observe

\* provider.invoke raised to Atlas.invoke: one base penalty on the record
\* read before the call.
FailInvoke(t) ==
    LET c == call[t] IN
    /\ c.pc = "calling"
    /\ c.req.kind = "invoke"
    /\ health' = [health EXCEPT ![c.held] = RecordFailure(@, DefaultCooldown)]
    /\ ended' = [ended EXCEPT ![c.chosen] = @ + 1]
    /\ Become(t, [Returned(c, c.status) EXCEPT !.ok = FALSE])
    /\ UNCHANGED <<registry, calls>>
    /\ Observe

\* provider.invoke raised to a cascade, which now works out the penalty.
FailAttempt(t) ==
    LET c == call[t] IN
    /\ c.pc = "calling"
    /\ c.req.kind = "cascade"
    /\ ended' = [ended EXCEPT ![Head(c.todo)] = @ + 1]
    /\ Become(t, [c EXCEPT !.pc = "penaltyPeek"])
    /\ UNCHANGED <<registry, health, calls>>
    /\ Observe

\* _apply_exponential_cooldown: the record is read again by name ...
PenaltyPeek(t) ==
    LET c == call[t]
        i == record[Head(c.todo)]
    IN /\ c.pc = "penaltyPeek"
       /\ Reads(t, IF i = NoRecord THEN NextAttempt(c, "FAILED")
                   ELSE [c EXCEPT !.pc = "penaltyRead", !.held = i])

\* ... its streak is read without the lock; base * 2 ** n is an
\* OverflowError, which leaves run(), when 2 ** n is too large for a float ...
PenaltyRead(t) ==
    LET c == call[t]
        n == health[c.held].consecutive_failures
    IN /\ c.pc = "penaltyRead"
       /\ \/ /\ n < OverflowAt
             /\ Reads(t, [c EXCEPT !.pc = "penalise", !.streak = n])
          \/ /\ n >= OverflowAt
             /\ Reads(t, Returned(c, "RAISED"))

\* ... and the failure is recorded.
Penalise(t) ==
    LET c == call[t] IN
    /\ c.pc = "penalise"
    /\ health' = [health EXCEPT ![c.held] = RecordFailure(@, Backoff(c.streak))]
    /\ Become(t, NextAttempt(c, "FAILED"))
    /\ UNCHANGED <<registry, calls, ended>>
    /\ Observe

-----------------------------------------------------------------------------
(* reset_health: the targets were listed under the registry lock, each is  *)
(* reset under its own, after that lock was released.                      *)

\* Mutant: the loop over the targets ends after the first.
ResetOne_First(t) ==
    LET c == call[t] IN
    /\ c.pc = "resetting"
    /\ \/ \E i \in c.targets :
             /\ health' = [health EXCEPT ![i] = Reset(@)]
             /\ Become(t, Returned(c, "none"))
             /\ UNCHANGED <<registry, calls, ended>>
             /\ Observe
       \/ /\ c.targets = {}
          /\ Reads(t, Returned(c, "none"))

ResetOne(t) ==
    LET c == call[t] IN
    /\ c.pc = "resetting"
    /\ \/ \E i \in c.targets :
             /\ health' = [health EXCEPT ![i] = Reset(@)]
             /\ Become(t, [c EXCEPT !.targets = @ \ {i}])
             /\ UNCHANGED <<registry, calls, ended>>
             /\ Observe
       \/ /\ c.targets = {}
          /\ Reads(t, Returned(c, "none"))

\* The caller has the result and the thread is free.
Return(t) ==
    /\ call[t].pc = "returned"
    /\ Reads(t, Idle)

-----------------------------------------------------------------------------
Step(t) ==
    \/ Collect(t) \/ Rescan(t) \/ Peek(t) \/ Probe(t) \/ Pick(t)
    \/ Lookup(t) \/ LookupHealth(t)
    \/ Attempt(t) \/ AttemptPeek(t) \/ AttemptProbe(t)
    \/ Succeed(t) \/ FailInvoke(t) \/ FailAttempt(t)
    \/ PenaltyPeek(t) \/ PenaltyRead(t) \/ Penalise(t)
    \/ ResetOne(t)
    \/ Return(t)

Next ==
    \/ \E n \in Provider : Register(n) \/ Unregister(n)
    \/ \E t \in Thread : Start(t) \/ Step(t)
    \/ Tick

Spec == Init /\ [][Next]_vars

-----------------------------------------------------------------------------
(* Properties                                                              *)

CallRecord ==
    [pc : PC, req : Request \cup {NoRequest}, todo : Seq(Provider),
     pool : Seq(Provider), healthy : Seq(Provider),
     skipped : SUBSET Provider, held : Records \cup {NoRecord},
     chosen : Provider \cup {NoName}, status : Status, ok : BOOLEAN,
     attempts : Seq(Status), streak : Nat, targets : SUBSET Records]

\* What a call has at hand where the code uses it without looking again:
\* the name its loop is at, the name invoke chose, the record to update.  A
\* free thread has no call.
WellFormed(c) ==
    /\ c.pc = "idle" => c.healthy = <<>>
    /\ c.pc \in {"collect", "rescan"} => c.req.names # <<>>
    /\ c.pc \in {"collect", "rescan", "probe", "lookup", "lookupHealth",
                 "calling", "attemptPeek", "attemptProbe", "penaltyPeek",
                 "penaltyRead", "penalise"} => c.todo # <<>>
    /\ c.pc \in {"attempt", "attemptPeek", "attemptProbe", "penaltyPeek",
                 "penaltyRead", "penalise"} => c.req.kind = "cascade"
    /\ c.pc \in {"lookup", "lookupHealth"} => c.chosen \in Provider
    /\ c.pc \in {"penaltyRead", "penalise"} => c.held # NoRecord
    /\ c.pc = "calling" /\ c.req.kind = "invoke" =>
          c.held # NoRecord /\ c.chosen \in Provider

\* The types of the variables and the form of every call in progress: no
\* step uses a name or a record that an earlier one did not provide.
TypeOK ==
    /\ created \in 0..MaxRecord
    /\ record \in [Provider -> 0..created]
    /\ health \in [Records -> HealthRecord]
    /\ calls \in Nat
    /\ ended \in [Provider -> Nat]
    /\ call \in [Thread -> CallRecord]
    /\ \A t \in Thread : WellFormed(call[t])

\* The counters of ProviderHealth tell one story whatever the threads do to
\* them: a streak of failures is part of the lifetime failures, which are
\* part of the lifetime calls, and only a record with a streak is in
\* cooldown (record_success and reset end the two together).
CountersAgree(h) ==
    /\ h.consecutive_failures <= h.total_failures
    /\ h.total_failures <= h.total_calls
    /\ h.cooldown > 0 => h.consecutive_failures > 0

HealthConsistent == \A i \in Records : CountersAgree(health[i])

\* Calls of n whose outcome is known and not yet on a record.
Unrecorded(n) ==
    {t \in Thread :
        /\ call[t].pc \in {"penaltyPeek", "penaltyRead", "penalise"}
        /\ Head(call[t].todo) = n}

\* No outcome is lost or counted twice: as long as no provider was ever
\* unregistered, a record's total_calls is the number of times its
\* provider's invoke returned or raised, less those a cascade is about to
\* record, however invoke and cascades overlap.  (An OverflowError loses the
\* failure it was to record.)
LedgerExact ==
    created = Cardinality({n \in Provider : Registered(n)}) =>
        \A n \in Provider : Registered(n) =>
            health[record[n]].total_calls + Cardinality(Unrecorded(n)) = ended[n]

\* A record that may be called on behalf of t: none, one out of cooldown, or
\* one whose cooldown is news to the call t is in.
Excused(t, i) == i = NoRecord \/ IsHealthy(health[i]) \/ i \in fresh[t]

\* The health filter of _decide: every name it let through, and the name it
\* chose, still stands for an excused record, although the registry and the
\* records move on between the look-up, the check and the choice.
PassedFilter(t) ==
    /\ call[t].pc = "probe" =>
          record[Head(call[t].todo)] \in {NoRecord, call[t].held} \cup fresh[t]
    /\ \A k \in DOMAIN call[t].healthy :
          Excused(t, record[call[t].healthy[k]])
    /\ call[t].pc \in {"lookup", "lookupHealth"} =>
          Excused(t, record[call[t].chosen])

Screened == \A t \in Thread : PassedFilter(t)

EntersCall(t) == call[t].pc # "calling" /\ call'[t].pc = "calling"

\* What the check of is_healthy some steps before the call is worth: a
\* provider is called inside its cooldown only if the record is newer than
\* this call of invoke or Cascade.run, or took a failure since it began.  No
\* call goes through a cooldown that was there when it started.
NoCallThroughOldCooldown ==
    [][\A t \in Thread :
          EntersCall(t) /\ call'[t].held # NoRecord
                /\ ~IsHealthy(health[call'[t].held])
             => call'[t].held \in fresh[t]]_vars

\* The names a call goes through, in its order of preference, and those of
\* them it may use.
Candidates(c) ==
    IF c.req.kind # "cascade" /\ c.req.all THEN c.pool ELSE c.req.names

Eligible(c) == IF c.req.kind = "cascade" THEN Provider ELSE c.req.accepts

Decides(t) ==
    /\ Busy(t)
    /\ call'[t].status \in {"SUCCESS", "FAILED", "NO_CANDIDATES",
                             "ALL_UNHEALTHY"} \ {call[t].status}

\* The decision of t does justice to the steady candidates.
DecidesWell(t) ==
    LET names == Candidates(call[t])
        chosen == call'[t].chosen
    IN \A k \in DOMAIN names : names[k] \in steady[t] \cap Eligible(call[t]) =>
          /\ chosen \in Eligible(call[t])
          /\ call[t].req.bandit \/ \E j \in 1..k : names[j] = chosen

\* A provider that stays registered and out of cooldown from the start of a
\* call is never passed over: route, invoke and Cascade.run report a failure
\* only when there was no such candidate, and without a selector they never
\* choose a name that comes after one.  The scans are not atomic, and
\* registrations, failures and resets happen between their steps.
NothingSteadyOverlooked ==
    [][\A t \in Thread : Decides(t) => DecidesWell(t)]_vars

\* The names whose cooldowns reset_health is asked to clear.
Wanted(req) == IF req.names = <<>> THEN Provider ELSE {Head(req.names)}

EndsReset(t) == call[t].pc = "resetting" /\ call'[t].pc = "returned"

\* "Clear cooldown(s)": when reset_health is about to return, no cooldown
\* that was open when it was called is left on a name it was asked for.  What
\* is in cooldown took a failure, or was registered, since then, in the time
\* between the listing of the records and the reset of the last of them.
ResetEndsOldCooldowns ==
    [][\A t \in Thread : EndsReset(t) =>
          \A n \in Wanted(call[t].req) : Excused(t, record[n])]_vars

\* cascade.py:9: "If every provider fails (or is unhealthy), the cascade
\* returns FAILED without raising."  Not so: see PenaltyRead.
CascadeNeverRaises == \A t \in Thread : call[t].status # "RAISED"
=============================================================================
