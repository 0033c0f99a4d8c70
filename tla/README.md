# PRIMAL in TLA+

Specifications of `primal_ai` (the Python package under `src/primal_ai/`), TLC runs that check
them on small instances, and TLAPS proofs of theorems that hold for every instance.

## 1. The system

`primal_ai` is a library of eight pillars.  They are independent of each other and meet in two
places: an event bus, and the context variable `current_trajectory`, into which Atlas, Guardian
and Conductor record steps without importing the trajectory package.  Almost every step is
taken by a thread of the host program that called the library.  Only two kinds of threads are
the library's own: the scheduler's, and the workers of delegations with a timeout.  There is no
global lock: each registry, each health record, each trajectory has a lock of its own, held for
one method at a time.  What is hard in this code is therefore what happens *between* two short
critical sections, and that is what the modules model: a step is one lock-protected method, or
the work between two points at which another thread can see a difference.

| Component | State it keeps | Operations |
|---|---|---|
| Atlas health (`atlas/_health.py`) | streak, totals and deadline of one provider, one lock each | record_success, record_failure, reset, is_healthy |
| Atlas registry, router, cascade (`atlas/_registry.py`, `router.py`, `cascade.py`) | two dicts under one lock; the locals of each call | register, unregister, reset_health, route, invoke, Cascade.run |
| Atlas bandits (`atlas/bandit.py`) | arms under one lock | select, update, save, load |
| Conductor (`conductor/_registry.py`, `_core.py`) | dict of agents under one lock; an outcome dict for each worker | register, unregister, delegate, set_active_trajectory |
| Pipelines (`conductor/_pipeline.py`) | the locals of each run | Pipeline.run |
| Trajectory (`trajectory/_core.py`, `_trajectory_context.py`) | steps under a lock; open spans, session span and status without one; a context variable | with-block, record_*, add_step, save, load |
| Scheduler (`harness/scheduler.py`) | dict of jobs and the thread handle under one lock; a stop event | add_job, remove_job, start, stop, the loop |
| Health monitor, tool registry, loader (`harness/`) | dicts under locks; tools also in a store | register, unregister, find, load_from_store, run_all |
| Event bus (`_events.py`) | dict of subscriptions under one lock | subscribe, unsubscribe, publish |
| Storage (`storage/`) | a dict, or one SQLite connection for each thread, listed for close() | put, get, delete, list_keys, close |
| Continuity (`continuity/`) | profiles, in a store | load, save, update, delete, autolearn |
| Guardian (`guardian/`) | deques of the limiters; the dry-run buffer, a context variable | decorated calls: pre-checks, the call, post-checks, escalate |
| Verifier (`verifier/`) | registry of layer factories, default layers | register_verifier, audit, set_default_layers |
| Observability (`observability/_otel.py`) | none of its own | span, add_event |

Who calls whom: a pipeline calls `Conductor.delegate`, which calls agents, which may delegate
again; a cascade and `Atlas.invoke` call providers; the scheduler calls job functions;
Continuity, the tool registry and Trajectory call a store; Guardian wraps the host's functions;
nearly all of them publish events and open spans.  Agents, providers, jobs and handlers are
external code: they return, raise, or never return.

Hard behaviours, by component, and what makes the component correct:

* **Atlas.** A call checks health in one step and calls the provider some steps later, while
  other calls fail, succeed, reset, register and unregister.  Correct means: no call goes through
  a cooldown it should have seen, no healthy candidate is lost between the scans, no outcome is
  lost or counted twice, and every record stays consistent under late successes and failures.
* **Conductor.** A delegation with a timeout leaves a worker behind that may still be running,
  delegate further, and answer.  Correct means: a result tells the truth about the agent,
  nothing unexpected still runs below it, and a trajectory has exactly its own handoffs.
* **Pipelines.** The registry changes between the look-up of an agent and its delegation, and a
  step may fail, be refused, or raise.  Correct means: the outputs form a chain.
* **Trajectory.** Recordings race with the exit of the with-block.  Correct means: what is saved
  is complete, spans are settled, and the context variable follows the blocks.
* **Scheduler.** `stop()` gives up after a timeout, so loops can overlap.  Correct means: a
  deadline is claimed once, removed jobs fade, a stop is seen, a due job runs.
* **Bandits.** A call resolves the active selector twice, and save and load take the bandit's lock
  around the arms and not around the store.  Correct means: an outcome goes to the bandit that chose,
  exploration comes first, and what a bandit knows covers what is stored of it.
* **Guardian.** The limiters keep deques that no lock protects, dry runs are a context variable, and
  one policy of several may object, replace the result, or raise.  Correct means: limits are exceeded
  by a known amount at most, every policy is enforced, every violation is settled once.
* **Storage, Continuity, tool registry.** `close()` closes the connections of threads that are inside
  the database; the process may end anywhere; profiles and tools are read, changed and written in
  separate calls.  Correct means: the store is an atomic map to its callers, and what its callers may
  lose is known exactly.
* **Event bus, health monitor, verifier.** All three call user code over a copy of what is
  registered, and user code calls them again.  Correct means: nothing is skipped or called twice,
  and no failure is lost on the way to a status or verdict.

Each hazard is listed with its line and its properties in `PROJECT.json`.

## 2. The modules

| Module | Models | Lines |
|---|---|---|
| `ProviderHealth` | `ProviderHealth`, `_apply_exponential_cooldown`'s window: operators from record to record | 65 |
| `Atlas` | registry, route, invoke, reset_health, Cascade.run from several threads | 600 |
| `Bandit` | the two bandit classes, and the active selector in invoke, cascade and feedback | 385 |
| `Scheduler` | add_job, remove_job, start, stop, `_run_loop`, `_run_one` | 380 |
| `Conductor` | registry, delegate, workers, the trajectory scope | 370 |
| `Pipeline` | `Pipeline.run`, EXTENDS `Conductor` | 175 |
| `Trajectory` | with-blocks, recordings, paired spans, exit and save | 380 |
| `Guardian` | wrapped calls, policies, combinators, limiters, dry runs, escalation | 660 |
| `KeyValue` | abstract: what a store promises | 95 |
| `Sqlite` | `SQLiteStorage`, statement by statement, with close() and restarts; implements `KeyValue` | 325 |
| `Continuity`, `ToolRegistry` | their calls on top of `Sqlite`, each EXTENDS it | 195, 195 |
| `Store` | both together over one store | 110 |
| `Callbacks` | threads inside code that calls user code: a stack of calls | 35 |
| `EventBus`, `HealthMonitor`, `Verifier` | on top of `Callbacks` | 110, 120, 230 |
| `Checks` | the three together | 80 |
| `MC*` | the values of the constants for TLC | |
| `AtlasProofs`, `BanditProofs`, `SchedulerProofs`, `ConductorProofs`, `TrajectoryProofs`, `GuardianProofs`, `StoreProofs`, `ChecksProofs` | the theorems about the module of that name (`ConductorProofs`: about `Pipeline` too) and their proofs (section 4) | |

Conventions.  One action stands for one critical section or one externally visible step of a
handler, and the `pc` of a call says which is next.  Operators whose names have a suffix
(`Probe_Keeps`, `Commit_Silent`) are faulty variants of the definition that follows them; no
specification uses them.  They document which plausible bug each property would catch.
History variables are named as such, come last in each action and constrain nothing.

### ProviderHealth and Atlas

`health[i]` is the i-th `ProviderHealth` object ever created; `record[n]` says which of them the
registry has for name `n`, so that a re-registered provider has a new record while calls in
progress still hold the old one.  The code's `cooldown_until` is an absolute monotonic time;
the model keeps the time left and `Tick` lets it run down.  `call[t]` holds the locals of the
call thread `t` is in:

* `_decide`: `Collect` (one registry look-up for each candidate), `Rescan` (the second look-up,
  for the skipped list), `Peek`/`Probe` (`get_health`, then `is_healthy`), `Pick`.
* `invoke`: `Lookup`, `LookupHealth`, then `Succeed` or `FailInvoke`.
* `Cascade.run`: `Attempt`, `AttemptPeek`, `AttemptProbe`, `Succeed` or `FailAttempt`, then
  `PenaltyPeek`, `PenaltyRead`, `Penalise`, which are the three separate accesses of
  `_apply_exponential_cooldown`.
* `reset_health`: `StartReset` lists the records under the registry's lock, `ResetOne` resets
  them one at a time.

A `PenaltyRead` of a streak of `OverflowAt` or more ends the cascade with an exception.

A bandit selector is any choice among the healthy names.  The order of `registry.all()` is the
dict's insertion order, which is the order of the record numbers.  `steady` and `fresh` are
history: which names were registered and out of cooldown, and which records were created or
failed, since the thread's call began.  The properties use them to say what a check that is
some steps old is still worth.

### Scheduler

`loop[l]` is a thread in `_run_loop`; several can be alive at once, since `stop()` only takes the
handle under the lock, sets the event later and stops waiting after a timeout.  `ReadClock` is
`now = time.monotonic()`, which comes before the lock, and `Scan` the locked block that collects the jobs
that were due then and moves their deadlines to an interval after then; in between `age[l]` is how old the
reading has become, at most `MaxWait`.  `BeginRun` and `EndRun` bracket `job.func()`.  A spec has a number,
so a job that was removed and added again is another one.  `quiet` (the time since the reading that the
last claim of a spec rests on), `owed` and `late` are history.

### Conductor and Pipeline

`stack[t]` is the stack of `delegate` calls thread `t` is in; the worker thread of delegation `d`
has the number `d`.  `Delegate` resolves the target and calls the agent, on the same thread or on
a worker; the agent then delegates, returns, raises or exits (a `BaseException`).  `Joined`,
`TimesOut` and `Finish` are `_invoke_target`'s end and `_record_handoff`.  A worker starts with an
empty context, so it has no current trajectory.  The time between the end of an agent and the
death of its thread is a state of its own (`worker[d] = "ended"`), because `is_alive()` may be asked
in it.  `Pipeline` adds the locals of `Pipeline.run`; `fed` is history: the input of each delegation.

### Trajectory

A context is a thread's or a task's.  A task starts with a copy of its creator's variable
(`Spawn`), a thread with an empty one.  Recording is split where the code is unlocked:
`AddStep`, `CheckSpan`, `AddEvent` are the append, the test of `_otel_span` and its second read, of a
step of any kind that has no span of its own, an error that the body records and survives among them;
`RecordCall`, `StartSpan`, `AppendStep` and `RecordResult`, `PopSpan`, `EndSpan`, `AppendStep` are the
paired kinds.  `Exit` leaves the scope, records the error, sets the status and lists the open spans;
`Drain` ends them one by one; `Close` forgets the session's span; `Save` puts the payload.

### Bandit

`call[t]` holds the locals of a call of invoke, a cascade's attempt, feedback, save or load.  invoke is
`BeginInvoke` (the selector is resolved), `Select`, `ResolveAgain` (it is resolved again, after the
provider answered), `Report`; a cascade keeps the one it read (`BeginAttempt`, `EndAttempt`, `Report`).
`SelectorFor` gives the active selector, the instance in the call's context, or for a name in it an
instance made there and then: `Made` at the first look-up, `Remade` at the second.
`BeginSave`/`Put` and `BeginLoad`/`Replace` are the two halves of save and load.  UCB1 picks
an arm it has no pull of, and else any that some exploration constant, zero included, favours; a Thompson
sample is any.
The registry and health of the providers are `Atlas`'s: here a call is given its healthy candidates.

### Guardian

The policies of an agent are a sequence of AllOf/AnyOf groups.  `call[c]` is the call of context `c`:
`Begin`, then for each group and policy `CheckNothing`, `CheckAtOnce`, or for a limiter the single
accesses of its deque (`BeginMeter`, `TestEmpty`, `TestOldest`, `PopOldest`, `BeginSum`, `EndSum`, `Charge`),
then `AgentReturns` or `AgentRaises`, the post-checks in the same way, `RecordViolation` and `Escalate`.
`TestOldest` and `PopOldest` on an empty deque and `EndSum` on a changed one crash the call, as Python's
deque does.  A schema may object to the arguments (before) and to the result (after).  The `pii` of a result
says where there is something to redact: where `PIIRedact` reaches (strings, dicts, lists), or beyond (a
tuple, a set, an object), which it returns unchanged.
`buffer` is the context variable of dry runs, `tokens` what leaving a block resets it to.

### KeyValue, Sqlite, Continuity, ToolRegistry, Store

`KeyValue` says what the callers of a store may rely on: a call takes effect once, between its begin and
its end, or raises and has changed nothing; a crash loses nothing that had taken effect.  In `Sqlite` a
call finds or opens its thread's connection (`Reuse`, `Connect`, `AppendConn`), executes, commits or
fetches; `close()` takes the lock, closes the listed connections one by one, which rolls back what they
are in, and replaces the thread-locals last.  A store that was opened with `check_same_thread=True`
(`strict`) refuses to let one thread close the connection of another (`Owner`); `close()` suppresses that
error and drops the connection from its list all the same, which leaves it open (`refused`).  Of SQLite
itself, which is external, the model keeps the write lock, rollback, durability, and the error of a
closed connection.  The refinement mapping (`Promise == INSTANCE KeyValue WITH ...`) takes `disk` for the
map and forgets connections and close; a call takes effect when its commit succeeds or its SELECT is
executed.  `Continuity` and `ToolRegistry` make calls of the store and go on when they are answered;
`task` and `chore` are their locals.  `register` and `unregister` may be called without a store and then
end with their locked block; `alone` and `unsure` are history.

### Callbacks, EventBus, HealthMonitor, Verifier, Checks

`stack[t]` has the calls thread `t` is in, the innermost first; a call that is `inside` has called user
code, which may make any call of the three components, or none, and return or raise.  `Publish` copies
the subscriptions, `PassOver`, `Call` and `Returned` work them off; `RunAll` copies the checks, `CallCheck`
and `CheckDone` run them, and `CheckDone` begins the publication of the result; `Audit`, `ResolveItem`,
`NextLayer`, `CallRule`, `RuleAnswers`, `LayerDone` are `Verifier.audit`; a layer of the host's own (kind
"custom") answers what it likes, raises, or returns something that is no verdict (`NoVerdict`), which
raises outside of the audit's `try`.  The locks of these components are
never held across a call, so that each critical section is one step; a deadlock of calls would show as a
state without a successor, which TLC looks for in this run.

## 3. The runs

Every run finishes within the time limit of five minutes on two cores; the numbers are distinct
states.

| Run | Instance | Shows |
|---|---|---|
| `atlas_calls` | 2 threads, 2 providers, 2 records, 2 calls of 6 kinds; 1.0 M | TypeOK, Screened, HealthConsistent, LedgerExact, NoCallThroughOldCooldown, NothingSteadyOverlooked, ResetEndsOldCooldowns |
| `atlas_overflow` | 2 threads, cascades over 2 providers, `OverflowAt` = 1 | violates CascadeNeverRaises, see section 5 |
| `bandit` | 2 threads, 2 providers, 2 partitions, 2 bandits, 3 calls, 1 restart; 0.45 M | OutcomeToItsChooser, MemoryCoversStore, ExploresFirst |
| `scheduler_safety` | 2 jobs, 2 host threads, 2 loops, interval 2, wait 2; 2.5 M | RemovedJobsFade, NoLoopIsLost, ClaimsAnIntervalApart |
| `scheduler_liveness` | 2 jobs, 1 host thread, 2 loops, wait 1; 164 k | DueJobRuns, StopIsSeen |
| `scheduler_single_thread` | the same jobs and threads | violates SingleThread, see section 5 |
| `conductor_delegate` | 1 host thread, 2 agents, 3 nested delegations; 0.6 M | ResultIsTrue, NothingRunsBelow, HandoffsAreComplete, TimedDelegationsReturn |
| `pipeline_runs` | 1 host thread, 2 agents, 3 plans, 3 delegations, 2 registrations; 3.9 M | OutputsChain, OnlyTheNamedAgent |
| `trajectory` | 2 threads and 1 task, 2 trajectories, 2 recordings; 2.5 M | CurrentIsInnermost, SavedIsComplete, SpansAreSettled, RaisesOnlyAcrossExit |
| `guardian` | 1 thread and 1 task, 2 limiters, AnyOf and AllOf, 2 calls, 2 dry runs; 1.4 M | OvershootIsBounded, CrashesOnlyInRaces, PoliciesAreEnforced, ViolationsAreSettled, ReturnedIsRedacted, DryInsideBlocks |
| `store` | 2 threads, 1 user with 2 fields, 1 tool, 6 connections, 3 calls, 1 restart, with and without check_same_thread; 1.5 M | NoConnectionLost, ClosedIsForgotten, RegistryIsStored, KeepsPromise, ExplicitFactsSurvive |
| `checks` | 2 threads, 2 handlers and a third, 2 checks, 5 layers, calls 2 deep, 3 calls; 2.3 M | EachHandlerOnce, OverallIsHonest, PassMeansAllPassed; no deadlock |

Every module states its `TypeOK`.  Atlas's, which says what each place in a call has at hand, is checked
in its run, and those of all modules are proved (section 4).  The one of `Store` is for the provers: TLC
cannot compare the values of different kinds that the locals of its calls hold.

What the properties say:

* **Screened, NoCallThroughOldCooldown.**  The health check is stale by the time the provider is
  called.  It is still worth this much: the record called is out of cooldown, or it is newer than
  the call, or took a failure after the call had begun.
* **NothingSteadyOverlooked.**  Although the scans of `_decide` and the attempts of a cascade are
  separate look-ups, a candidate that stays registered and out of cooldown throughout is never
  passed over for a later one or for a failure.
* **HealthConsistent, LedgerExact.**  The counters of a record agree in every order of successes,
  failures, resets and penalties; and the totals equal the outcomes the providers gave, less the
  penalties still on their way.
* **ResetEndsOldCooldowns.**  `reset_health` lists the records and resets them one by one, while providers
  fail and names are registered.  When it is about to return, no cooldown that was open when it was called
  is left on a name it was asked for.
* **ClaimsAnIntervalApart, RemovedJobsFade, NoLoopIsLost.**  What is left of the scheduler's promises
  when two loops are alive: the clock readings that two claims of a job rest on are an interval apart or
  more, though of the claims themselves a late one may be followed sooner by the next; a removed job runs
  only as often as it was on due lists at its removal; no loop is orphaned except by a `stop()` that took
  it.
* **ResultIsTrue, NothingRunsBelow.**  A result agrees with what the agent did, with a reason
  unless the agent left by `SystemExit` on a worker, and only a timeout leaves work behind.
* **HandoffsAreComplete.**  A trajectory has each delegation that its thread made inside the block,
  once it is over, whatever its outcome; it has none twice, none early, inner ones first, and none of what a
  worker that outlives its delegation goes on to delegate.  Of what a worker delegates in time nothing is
  said, since code and text disagree about it (section 5).
* **OutputsChain, OnlyTheNamedAgent.**  Each step of a pipeline gets the output of the one before,
  which succeeded; a step with only a name is run by that agent or refused.
* **OutcomeToItsChooser, ExploresFirst, MemoryCoversStore.**  Unless the selector was set during the
  call, what a bandit learns are its own choices; a bandit that a name stands for learns nothing; UCB1
  repeats no explored arm while another candidate of the partition has no pull; and a bandit knows at
  least what is stored of it, except after a restart without a load, or a load or save that overlapped
  another.
* **OvershootIsBounded, CrashesOnlyInRaces.**  The deques have no lock.  As long as the checks of one
  never overlap, its limit holds exactly and no check crashes; else the limit is exceeded by
  one call for each other context, and by what was trimmed while a check under way had to count it yet.
* **PoliciesAreEnforced, ViolationsAreSettled, ReturnedIsRedacted, DryInsideBlocks.**  Outside a dry run
  each group has let a call and its result pass; a violation is in the buffer of its dry run or is
  escalated, once; a result that has to be redacted is returned so, as far as `PIIRedact` reaches; and
  the dry run a context is in is that of its innermost block, or of its creator.
* **KeepsPromise.**  `Sqlite`, under all that its callers and `close()` do and with restarts anywhere,
  implements `KeyValue`: in particular a call that raised has left nothing behind.
* **NoConnectionLost, ClosedIsForgotten.**  Open connections can be found by the next close, but for those
  that `check_same_thread` has kept a close from closing, which no store without it has; a thread is
  given a closed connection only while a close is on its way.
* **RegistryIsStored, ExplicitFactsSurvive.**  What may be lost between two calls of the store: the copy of
  a tool differs only for a name that was registered or unregistered without a store, whose unregister was
  overlapped, for which the store raised, or that has not been loaded, until a call that nothing overlaps;
  a fact that a user has set is lost only to an update, a delete, or to a writer whose copy was stale.
* **EachHandlerOnce, OverallIsHonest, PassMeansAllPassed.**  A publication calls each handler that stayed
  subscribed, once and in order, whatever handlers do to the list; the overall health is no better than
  any check said; an audit passes exactly if all that was asked said PASS, of the rules, models, schemas
  and layers of the host's own, and no layer of rules is empty; without the host's own it is confident then.
* **SavedIsComplete, RaisesOnlyAcrossExit.**  The saved copy has all that was recorded before the exit, in
  order, and its status is FAILED exactly if an error left the block, whatever errors the body recorded and
  survived; a recording raises only if the session was closed in the middle of it, and has recorded its step.
* **CurrentIsInnermost, SpansAreSettled.**  `current_trajectory` is the innermost block's, or the creator's;
  the span of a call that was recorded before the exit is ended, and as an orphan only without a result.

**Bounds and why they are enough.**  Two threads suffice for every race described above: each is between
one call and one other (a check and a failure, a read of the streak and a penalty, a stop and a start, a
load of a profile and a write, a close and a put).  Two records let a provider be re-registered while a
call holds its old record.  Two loops are the least that overlap, and a third one only repeats what
`start()` does.  Three delegations are an agent of an agent, with a sibling, or below a worker that was
given up.  Cooldowns of 1 to 3 units give a window, its double and the clamp. `OverflowAt` is 1024 in
Python and cannot be reached by counting in a model checker: 1 stands for it in `atlas_overflow`, and
1024 in `atlas_calls` keeps it out of reach.  A wait of as much as the interval lets a whole interval
pass between a loop's reading of the clock and its claim.  Three calls of a store are two that overlap
and a close, or a write, a restart and a load.  Guardian's deques start with what makes the limit be
reached and the trim begin at the first call.  In `checks`, calls two deep are a check or handler that
changes what its caller is working off; three calls are two of those below one, or one from each thread
and a change.  `MaxRecord`, `MaxCalls`, `MaxAdds`, `MaxLoops`, `MaxDelegations`, `MaxRegistrations`,
`MaxSteps`, `MaxBlocks`, `MaxTime`, `MaxWait`, `MaxConns`, `MaxRestarts`, `MaxSubs` and `MaxDepth` bound
how often a thing happens, nothing else.  Threads are symmetric only in runs without liveness.

**Deadlock** is checked in `bandit`, `store` and `checks`, whose next-state relations have a step for
being at rest: threads wait there for a lock, for SQLite or for a call below them.  In the others the
host may simply stop calling, and the model stops when its bounds are used up.

**Fairness.**  Weak fairness is assumed only of threads that are inside the library: the scheduler's
loops with the return of the job functions, the second half of a `stop()`, and time
(`Scheduler!Fairness`); `delegate`'s own steps (`Conductor!Fairness`).  Operating systems schedule
runnable threads, `join(timeout)` returns, and no lock is held while waiting, so a thread is never
disabled by another.  Nothing is assumed of callers, of agents, or of registrations.
`TimedDelegationsReturn` in particular needs no agent ever to return.

## 4. The proofs

Each theorem below holds for every value of the constants that satisfies the named assumptions of
the modules (`...Assumption`), which TLC evaluates in the runs; the bounds, in particular, may have
any values.  Nothing else is assumed but what a row says.

| Module | Theorem | States |
|---|---|---|
| `AtlasProofs` | `TypeCorrect` | `Spec => []TypeOK` |
| | `HealthCorrect` | `Spec => []HealthConsistent` |
| | `ScreenedCorrect` | `Spec => []Screened` |
| | `OldCooldownsRespected` | `Spec => NoCallThroughOldCooldown` |
| | `LedgerCorrect` | `Spec /\ []NoOverflow => []LedgerExact` |
| | `SteadyCorrect` | `Spec => NothingSteadyOverlooked` |
| | `ResetsCorrect` | `Spec => ResetEndsOldCooldowns` |
| `BanditProofs` | `TypeCorrect` | `Spec => []TypeOK` |
| | `OutcomesCorrect` | `Spec => []OutcomeToItsChooser` |
| | `ExplorationCorrect` | `Spec => ExploresFirst` |
| | `MemoryCorrect` | `Spec => []MemoryCoversStore` |
| `SchedulerProofs` | `TypeCorrect` | `Spec => []TypeOK` |
| | `LoopsAreKept` | `Spec => NoLoopIsLost` |
| | `ClaimsCorrect` | `Spec => ClaimsAnIntervalApart` |
| | `RemovalCorrect` | `Spec => []RemovedJobsFade` |
| `ConductorProofs` | `TypeCorrect` | `Spec => []TypeOK` |
| | `ResultsCorrect`, `BelowCorrect` | `Spec => []ResultIsTrue`, `Spec => []NothingRunsBelow` |
| | `HandoffsCorrect` | `Spec => []HandoffsAreComplete` |
| | `PipelinesAreHosts` | `PipeSpec => Spec`: a pipeline does only what a host of a Conductor may do |
| | `PipeTypeCorrect` | `PipeSpec => []PipeTypeOK` |
| | `ChainCorrect`, `NamedCorrect` | `PipeSpec => []OutputsChain`, `PipeSpec => []OnlyTheNamedAgent` |
| `TrajectoryProofs` | `TypeCorrect` | `Spec => []TypeOK` |
| | `ScopesCorrect` | `Spec => []CurrentIsInnermost` |
| | `RaisesCorrect` | `Spec => []RaisesOnlyAcrossExit` |
| | `SavedCorrect` | `Spec => []SavedIsComplete` |
| | `SpansCorrect` | `Spec => []SpansAreSettled` |
| `GuardianProofs` | `TypeCorrect` | `Spec => []TypeOK` |
| | `DryRunsCorrect` | `Spec => []DryInsideBlocks` |
| | `CrashesCorrect` | `Spec => []CrashesOnlyInRaces` |
| | `EnforcementCorrect` | `Spec => []PoliciesAreEnforced` |
| | `SettlementCorrect` | `Spec => []ViolationsAreSettled` |
| | `RedactionCorrect` | `Spec => []ReturnedIsRedacted` |
| | `OvershootCorrect` | `Spec => []OvershootIsBounded` |
| `StoreProofs` | `TypeCorrect` | `Spec => []TypeOK` |
| | `ConnectionsAreKept`, `ClosedForgotten` | `Spec => []NoConnectionLost`, `Spec => []ClosedIsForgotten` |
| | `Implements` | `Spec => KeepsPromise`: `Sqlite` implements `KeyValue` |
| | `ExplicitSurvives` | `Spec => ExplicitFactsSurvive` |
| | `RegistryAgrees` | `Spec => []RegistryIsStored` |
| `ChecksProofs` | `TypeCorrect` | `Spec => []TypeOK` |
| | `HandlersCorrect` | `Spec => []EachHandlerOnce` |
| | `StatusCorrect` | `Spec => []OverallIsHonest` |
| | `VerdictsCorrect` | `Spec => []PassMeansAllPassed` |

Every proof has the same outline: `TypeOK`, which is inductive by itself because it says for each
place in a call what is at hand there; then an invariant that has the property as a consequence and
is inductive together with `TypeOK`; one lemma for each action or group of actions that leave the
same things alone; and a last step that puts them together.  The strengthened invariants were run
through TLC on the instance of their module before they were proved.  What follows is why each is needed.

**Atlas.**  For `HealthConsistent`, `HealthSteps` shows that a step leaves each record as it is or applies
one of the methods of `ProviderHealth` to it (`Updated`), and `HealthOperators` that each method keeps the
counters in agreement, for whatever window a failure opens.

`Screened` is inductive together with `TypeOK`.  The point of the argument is the lemma `Stable`: while
a call goes on, an excused record stays excused, since a record goes into cooldown only by a failure,
which puts it into `fresh`; and the record of a name gives way only to none or to a newer one, which is
in `fresh` too.  `AllFilters` lists how a step may change what a call has let through its filter, and how
a provider comes to be called; `OldCooldownsRespected` follows from that and `Screened`.

`LedgerExact` compares a sum over calls, so the invariant follows each name's books: the record of a
registered name and the number of answers it gave differ by the calls that have one to record
(`Booked`, by adding and removing single elements of a finite set).  It needs that names have different
records (`Numbered`), and that each call works for one name and one record from the look-up to the
record of its outcome (`Steadfast`).  The hypothesis `NoOverflow` says that no streak reaches `OverflowAt`:
at that length a cascade's failure is lost, the code being what it is (section 5).

For `NothingSteadyOverlooked`, `Attends` says of each call what it has done of its scans (`Collects`,
`Pools`, `FiltersWell`, `Falls`): a loop has worked off a prefix of the candidates, what it kept has the
steady names of that prefix in their order, and a cascade has gone past no steady one.  That a cascade's
penalty ends steadiness needs that the window is open at all, and so that powers of two are positive.

For `ResetEndsOldCooldowns`, `ResetsPending` says of a reset under way that each name it was asked for is
excused or has its record among those that are left to reset.

**Bandit.**  `ChoicesOK` relates what a call holds to what was resolved when it began, `ExploredOK` says
what pulls mean for exploration, and `CopiesOK` what the two halves of an interrupted save or load hold:
the copy in flight is covered by the bandit or by what excuses it.

**Scheduler.**  `RemovedJobsFade` counts runs.  The invariant says that ids are unique, that a removed
job is in no dict any more, and that the places of a job in due lists and on threads (`Places`, a finite
set whose cardinality goes down with each run) are at most those of its removal.  For
`ClaimsAnIntervalApart` the deadline of a claimed job is an interval after the reading that its last
claim rests on, however long ago that was; what is due for a reading is then an interval older than it.

**Conductor and Pipeline.**  A result is truthful because the delegations form a tree: the stacks of the
threads increase, what is on a stack lies below its top, a child was made by the host its parent was on,
and a live delegation is on a stack.  The handoffs of a trajectory are then those of the finished
delegations of its thread, in the order they finished (`Records`).  A pipeline adds that a run is between
two steps only when its stack is empty; hence each of its steps is one of `Conductor`'s, and Conductor's
theorems hold of it.  `OutputsChain` follows from the position of each result (`Placed`, `Chained`).

**Trajectory.**  `CurrentIsInnermost` is not inductive: when a context leaves a block, its variable gets
what the block's token holds, of which the property says nothing.  `ScopeInv` adds that each block's
token holds what is current outside of it, which lasts only because no trajectory is in two places on
the stacks.  `RaisesInv` says of recordings that have found the session's span what `RaisesOnlyAcrossExit`
says of those that raised, and `ListedInv` that a recording which comes to the session's span has its
step in the list.  `StoryInv` says that a call's step comes before its result's, that the error of an exit
is in the list only once the block is being left, and exactly if the status is FAILED, and that what was
saved is a prefix.  `SpanInv` gives each span's number
to one call of one trajectory: an open span is in the dict or was taken out to be ended; one that was in
the dict when the exit listed it is on that list; one whose result took it is in neither.

**Guardian.**  One step of a call either stays in its place or is one turn on the way through its
policies (`Turn`: accepted, skipped, rejected, answered, left, noted), and each way keeps `Enforced` and
`Cleaned`, the latter in terms of results that are `Clean` as far as `PIIRedact` reaches.  `Raced` says
that two checks of one deque that overlap know of each other.  `Accounts` says that what was found is
what was settled and what is being settled, of calls with unique ids.  `Nested` is the argument of
`ScopesCorrect` for dry-run blocks. `OvershootIsBounded` needs the most.  Whoever counts a window last
knows of all that was charged in it but of what its own deque no longer held, so that of the calls that
have counted the window and are yet to be charged (`Pending`) all but that one may come on top: at most
the other contexts.  That is `Room`, for every window of the limiter and every instant it may begin at.
What a deque no longer holds is either too old for all that are at it or in `lost` (`Remembers`, over
`Suffix`: a deque is the end of its history), and `lost` is nothing as long as checks do not overlap
(`Trimmed`, `Alone`); what a pending call would add is at most the largest amount (`Cheap`), and it has
seen all windows before it is charged (`Timely`).  `StepOn` lists the five things a step may be to one
deque, and sums over a deque have lemmas of their own (`SumAppend`, `SumWith`, `SumCovered`).  The
attempt to prove it showed that `lost` had been counting too little: a charge may be old for the check
that trims it and still have to be counted by one that read the clock before.  With four calls and
`MaxTime` = 2 TLC shows a limit exceeded by more than the property allowed then; the run's instance has
no such behaviour.  The theorem assumes `LimiterAssumption`: each limiter has a deque of its own, and
what earlier calls left there is within the limits.

**Store.**  The types say which connection each place of a call has and which locks are held.  For the
refinement each step of a call is shown to change what an outsider sees of it (`CallSeen`) in one of the
few ways that `KeyValue` allows (`Moves`): begin, take effect, raise, end.  The invariant of the registry
says for each name what a chore knows of it (`NameOK`, `ChoreKnows`).  The attempt to prove it showed a
flaw of the history variable `unsure` that no instance of the run reaches: with five calls two loads may
overlap, and the first to end must not declare the names certain that the second has yet to read.

**Checks.**  The three properties are about calls that end; the invariant says of every call under way,
in whatever place of whatever stack, how what it has done and what it has left hang together (`PubOK`,
`HealthOK`, `PlaceOK` and `FoundOK`).  A handler that stayed was called or is left, and what is left
comes after what was called, since ids are given out in order.  A name that stayed ran or is left, and
never both.  For an audit the agreement of what passed with what was answered has two forms: on a layer
it takes the answers of that layer in, between layers it does not, and the verdict of a layer turns one
into the other, for which a layer that has no rules or that raised must not pass.  That a verdict is
confident holds of the layers of the package only (`Confident`).  What a step of one thread does to one
call leaves the others as good as they were, except that `subscribe` and the two ways to unregister
change what all calls are measured by (`SubscribedOK`, `UnsubscribedOK`, `UnregisterCheckStep`).

The provers' limits shaped the modules in three places.  They know of `^` and of folds only the names, so
that `PowerOfTwo`, `SumOf` and the verifier's `Sum` are recursive functions; of a filtered sequence they
know as little, so that who unsubscribes is taken out by its place; and the library's induction theorems take
operators as parameters, so that facts about these functions are proved by a least counterexample
(`LeastNatural`, `Induction`, from the well-foundedness of the naturals).

Only model-checked:

* liveness (`DueJobRuns`, `StopIsSeen`, `TimedDelegationsReturn`) and deadlock, which
  the prover cannot do under fairness.

## 5. Where code and documentation disagree

Two runs show a disagreement:

* `scheduler_single_thread`: `start()` after or during a `stop()` makes a second loop beside the first,
  while the class says single-thread.
* `atlas_overflow`: `base * (2 ** n)` overflows a float once n is 1024, before `min()` clamps it
  (`cascade.py:331`), so that `Cascade.run` raises in the middle of its chain, although its module says that
  it returns FAILED without raising (`cascade.py:9`).

Seen while reading or modelling, not the subject of a run:

* Atlas.  `reset_health` of an unknown name resets every provider (`StartReset`).  A
  decision whose provider raised keeps the status SUCCESS (`FailInvoke`).  A provider can be both
  chosen and skipped (`Collect`, `Rescan`).  Two cascades that fail together both apply the window of
  the first failure (`PenaltyRead`, `Penalise`).
* Bandits.  A selector given in the context of a call by its name makes a fresh bandit at each of the two
  look-ups (`router.py:453`, `bandit.py:481`), so that the outcome goes to another bandit than the one
  that chose, and to no one that lasts: nothing is learnt (`OutcomeToItsChooser` says so).  A cascade
  ignores that override, and makes the partition's key with `or ""` where the router keeps every value
  but None.  `load` ignores which algorithm was saved.  A save after a restart without a load erases what
  was stored (`MemoryCoversStore` excepts it).
* Conductor and pipelines.  A worker starts with an empty context, so that delegations made by an agent
  on a worker are not recorded in the trajectory they happen in (`conductor/_core.py:332`), although
  `set_active_trajectory` says that every call of `delegate` in the block is (`conductor/_core.py:144`);
  `HandoffsAreComplete` says nothing of them, so that it would hold of a repaired version as well.
  `delegate` "NEVER raises" (`conductor/_core.py:183`), but the step that it records does when the
  session is closed between the two reads of its span (`RaisesOnlyAcrossExit` says when, and what is
  recorded then).  A step with both a name that is not registered and a capability runs another agent,
  although the name should win (`_pipeline.py:99`).  A worker whose agent raised `SystemExit` gives a
  FAILED result without a reason (`ResultIsTrue` allows it).  A pipeline that failed has None for
  `_final` whatever succeeded before.
* Trajectory.  A span opened after `__exit__` has listed the open ones is never ended
  (`trajectory/_core.py:294`), although whatever is left over should be ended as an orphan.  It belongs to a
  step that is recorded while the block is left, and `SpansAreSettled` is about those before.
* Guardian.  `PIIRedact` promises to redact "every string anywhere in the result tree"
  (`pii_redact.py:26`) and returns whatever is no string, dict or list as it is (line 75): tuples, sets
  and objects keep theirs.  `ReturnedIsRedacted` allows that and nothing else.  A dry run charges the
  limiters that come after a policy that objected.  In a dry run, an AllOf of which a later policy
  objects loses the replacement an earlier one made.  The errors of deques that two calls trim leave a
  dry run as exceptions.  What a call spent that was then blocked is not recorded.
* Continuity.  Of two facts with the same confidence the stored one stays, however much fresher the other
  is.  A stored confidence of 0.0 is read as 1.0 (`profile.py:60`).
* Verifier.  Names of default layers are resolved when they are set, while the text says at audit time.
  A rule that raises turns its layer UNCERTAIN even if an earlier rule of it had failed.  A layer of the
  host's own that returns no verdict makes `audit` raise an AttributeError (`verifier/_core.py:288`, behind
  the `try`), although a broken layer is meant to leave the rest of the chain alive (`NoVerdict`).
* Storage.  `close()` is to close every connection this store has opened; with `check_same_thread=True`
  those of other threads refuse, the error is suppressed (`sqlite.py:154`) and the list cleared, so that
  they stay open and no later `close()` finds them (`CloseRefused`).  `':memory:'` gives each thread a
  database of its own.  `list_keys` puts the prefix into a LIKE pattern, in which `_` and `%` are
  wildcards.
* Health monitor.  A check that returns something else than a HealthCheck makes `run_all` raise.

## 6. What is not modelled, and the plan

Left out on purpose:

* Events and spans of the modelled components (they write none of the state the properties are about),
  and `observability/_otel.py`, which has no state of its own; the text of messages, latencies, costs.
* `BaseException` in Atlas and in the scheduler; agents that open trajectories of their own;
  trajectories entered twice; results recorded for an id of no call step, which find no span; a custom
  selector that raises.  `BaseException` of an event's handler, which leaves `publish`.
* Guardian: policies of the host's own, the parsing of policy strings, combinators inside combinators,
  `escalate()` called with a trajectory.
* Storage: the in-memory backend, which has no lock; each of its operations is one access of a dict under
  the GIL, which no other thread can come in the middle of, and satisfies `KeyValue` directly; the
  backends that are stubs; `':memory:'`.
* Continuity: `UserProfile.remove` and the merge strategies `self` and `other`, which nothing in the package
  calls; a facade without a store.
* Tools: discovery and import of modules.  Verifier: targets of rules, JSON schemas.
* Trajectory: `load`, `from_dict` and the summary, which build an object no one else has yet.
* Hazards that were met and that no property covers: `reset_health` of an unknown name; `save()` raising in
  `__exit__` in the place of the body's exception; a task that goes on recording into a trajectory it
  inherited and that was left since.  They are what the code does, and no text of it promises otherwise.

Proofs planned: the abstract Atlas below.

Modelling planned: an Atlas whose selector is a `Bandit`, shown to implement the present one, which
lets a selector choose anything.
