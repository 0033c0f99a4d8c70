----------------------------- MODULE Scheduler ------------------------------
(***************************************************************************)
(* The interval scheduler of the harness: the threads of the host program  *)
(* add and remove jobs, start and stop the scheduler, and each start makes *)
(* a thread that runs _run_loop until it sees the stop event.              *)
(*                                                                         *)
(* A job's next_run_at is kept as the time left until it, and a loop's     *)
(* reading of the clock as its age: only their comparison is ever used, so *)
(* both stop counting MaxWait after the event, when no reading is that old.*)
(* The outcome of a job's function (its event) is left out: _run_one       *)
(* treats a return and an Exception alike.  Job functions that call stop() *)
(* themselves and exceptions that are not subclasses of Exception are left *)
(* out.                                                                    *)
(***************************************************************************)
EXTENDS Integers, Sequences, FiniteSets

CONSTANTS
    Job,        \* job names
    Caller,     \* threads of the host program
    Interval,   \* ScheduledJob.interval_seconds, the same for every job
    MaxWait,    \* bound: how long a loop waits for the lock with its reading
    MaxAdds,    \* bound: successful calls of add_job
    MaxLoops    \* bound: threads ever started

ASSUME SchedulerAssumption ==
    /\ Interval \in Nat \ {0}
    /\ MaxWait \in Nat
    /\ MaxAdds \in Nat
    /\ MaxLoops \in Nat

VARIABLES
    jobs,       \* Scheduler._jobs: name -> its spec
    adds,       \* how many specs were added; the n-th has id n
    stopping,   \* Scheduler._stop_event is set
    thread,     \* Scheduler._thread, a loop or NoLoop
    loops,      \* how many loops were started
    loop,       \* each loop's place in _run_loop and its list of due specs
    age,        \* time since a loop that has yet to scan read the clock
    caller,     \* each host thread's place in stop(), and the loop it joins
    quiet,      \* history: time since the reading of a spec's last claim
    owed,       \* history: claims of a spec not yet run when it was removed
    late        \* history: runs of a spec begun after it was removed

history == <<quiet, owed, late>>
vars == <<jobs, adds, stopping, thread, loops, loop, age, caller, history>>

NoLoop == 0
Loop == 1..MaxLoops

\* A deadline long gone, and the time since a claim that is as long ago.
Passed == -MaxWait
Rested == Interval + MaxWait

NoJob == [id |-> 0, left |-> Passed, enabled |-> FALSE]
Id == 1..MaxAdds

Scheduled(n) == jobs[n].id # 0
Registered(i) == \E n \in Job : jobs[n].id = i

\* Thread.is_alive(); a loop that was not started is not alive.
Alive(l) == l # NoLoop /\ loop[l].pc \notin {"new", "dead"}

\* Due entries of the spec i that no loop has begun to run.
Waits(c, k, i) ==
    k \in DOMAIN c.due /\ c.due[k] = i /\ (k = 1 => c.pc # "running")
Places(i) == {x \in Loop \X Id : Waits(loop[x[1]], x[2], i)}
Pending(i) == Cardinality(Places(i))

Init ==
    /\ jobs = [n \in Job |-> NoJob]
    /\ adds = 0
    /\ stopping = FALSE
    /\ thread = NoLoop
    /\ loops = 0
    /\ loop = [l \in Loop |-> [pc |-> "new", due |-> <<>>]]
    /\ age = [l \in Loop |-> 0]
    /\ caller = [c \in Caller |-> [pc |-> "free", joins |-> NoLoop]]
    /\ quiet = [i \in Id |-> Rested]
    /\ owed = [i \in Id |-> 0]
    /\ late = [i \in Id |-> 0]

-----------------------------------------------------------------------------
(* Calls of the host program.  Each body under the lock is one step.       *)

Free(c) == caller[c].pc = "free"

\* A job may be added disabled, or with its first deadline in the future; the
\* default, 0.0, has passed.
AddJob(c) ==
    \E n \in Job, left \in {Passed, Interval}, enabled \in BOOLEAN :
        /\ Free(c)
        /\ ~Scheduled(n)            \* a duplicate raises ValueError
        /\ adds < MaxAdds
        /\ adds' = adds + 1
        /\ jobs' = [jobs EXCEPT ![n] =
                      [id |-> adds', left |-> left, enabled |-> enabled]]
        /\ UNCHANGED <<stopping, thread, loops, loop, age, caller, history>>

RemoveJob(c) ==
    \E n \in Job :
        /\ Free(c)
        /\ Scheduled(n)
        /\ jobs' = [jobs EXCEPT ![n] = NoJob]
        /\ owed' = [owed EXCEPT ![jobs[n].id] = Pending(jobs[n].id)]
        /\ UNCHANGED <<adds, stopping, thread, loops, loop, age, caller, quiet, late>>

\* Mutant: starts without a look at the thread it has.
Start_Again(c) ==
    /\ Free(c)
    /\ loops < MaxLoops
    /\ loops' = loops + 1
    /\ stopping' = FALSE
    /\ thread' = loops'
    /\ loop' = [loop EXCEPT ![loops'].pc = "check"]
    /\ UNCHANGED <<jobs, adds, age, caller, history>>

\* start(): nothing to do while the thread is alive.
Start(c) ==
    /\ Free(c)
    /\ ~Alive(thread)
    /\ loops < MaxLoops
    /\ loops' = loops + 1
    /\ stopping' = FALSE
    /\ thread' = loops'
    /\ loop' = [loop EXCEPT ![loops'].pc = "check"]
    /\ UNCHANGED <<jobs, adds, age, caller, history>>

\* stop(): the handle is taken under the lock ...
StopTake(c) ==
    /\ Free(c)
    /\ caller' = [caller EXCEPT ![c] = [pc |-> "signal", joins |-> thread]]
    /\ thread' = NoLoop
    /\ UNCHANGED <<jobs, adds, stopping, loops, loop, age, history>>

\* Mutant: joins the thread without setting the event.
StopSignal_Forgets(c) ==
    /\ caller[c].pc = "signal"
    /\ caller' = [caller EXCEPT ![c] =
          IF Alive(@.joins) THEN [@ EXCEPT !.pc = "join"]
          ELSE [pc |-> "free", joins |-> NoLoop]]
    /\ UNCHANGED <<jobs, adds, stopping, thread, loops, loop, age, history>>

\* ... the event is set after that ...
StopSignal(c) ==
    /\ caller[c].pc = "signal"
    /\ stopping' = TRUE
    /\ caller' = [caller EXCEPT ![c] =
          IF Alive(@.joins) THEN [@ EXCEPT !.pc = "join"]
          ELSE [pc |-> "free", joins |-> NoLoop]]
    /\ UNCHANGED <<jobs, adds, thread, loops, loop, age, history>>

\* ... and the join ends with the thread, or with the timeout before it.
StopReturn(c) ==
    /\ caller[c].pc = "join"
    /\ caller' = [caller EXCEPT ![c] = [pc |-> "free", joins |-> NoLoop]]
    /\ UNCHANGED <<jobs, adds, stopping, thread, loops, loop, age, history>>

-----------------------------------------------------------------------------
(* _run_loop                                                               *)

Goto(l, pc) == loop' = [loop EXCEPT ![l].pc = pc]

\* while not self._stop_event.is_set()
Check(l) ==
    /\ loop[l].pc = "check"
    /\ Goto(l, IF stopping THEN "dead" ELSE "read")
    /\ UNCHANGED <<jobs, adds, stopping, thread, loops, age, caller, history>>

\* now = time.monotonic(), before the lock is asked for
ReadClock(l) ==
    /\ loop[l].pc = "read"
    /\ Goto(l, "scan")
    /\ UNCHANGED <<jobs, adds, stopping, thread, loops, age, caller, history>>

\* job.next_run_at <= now, for a reading of that age.
Due(a) == {n \in Job : Scheduled(n) /\ jobs[n].enabled /\ jobs[n].left + a <= 0}

\* The dict keeps insertion order, which is the order of the ids: the one
\* listing of the ids of these jobs.
Listings(D) ==
    LET ids == {jobs[n].id : n \in D}
    IN {q \in [1..Cardinality(ids) -> ids] :
           \A j, k \in 1..Cardinality(ids) : j < k => q[j] < q[k]}

\* The loop goes on with its list, and forgets its reading.
Claims(l, D) ==
    /\ \E due \in Listings(D) :
          loop' = [loop EXCEPT ![l] =
             [pc |-> IF due = <<>> THEN "wait" ELSE "run", due |-> due]]
    /\ quiet' = [i \in Id |-> IF \E n \in D : jobs[n].id = i THEN age[l]
                              ELSE quiet[i]]
    /\ age' = [age EXCEPT ![l] = 0]

\* The deadline of the claimed jobs becomes `left` from now.
Moved(D, left) ==
    [n \in Job |-> IF n \in D THEN [jobs[n] EXCEPT !.left = left] ELSE jobs[n]]

\* Mutant: the deadline moves on from the last one, to make up for lost runs.
Scan_CatchesUp(l) ==
    /\ loop[l].pc = "scan"
    /\ Claims(l, Due(age[l]))
    /\ jobs' = [n \in Job |-> IF n \in Due(age[l])
                              THEN [jobs[n] EXCEPT !.left = @ + Interval]
                              ELSE jobs[n]]
    /\ UNCHANGED <<adds, stopping, thread, loops, caller, owed, late>>

\* The jobs due by the reading are claimed under the lock, and are due again
\* an interval after the reading, however long the lock was waited for.
Scan(l) ==
    /\ loop[l].pc = "scan"
    /\ Claims(l, Due(age[l]))
    /\ jobs' = Moved(Due(age[l]), Interval - age[l])
    /\ UNCHANGED <<adds, stopping, thread, loops, caller, owed, late>>

\* _run_one: job.func() begins, without the lock, on the spec claimed ...
BeginRun(l) ==
    LET i == Head(loop[l].due) IN
    /\ loop[l].pc = "run"
    /\ Goto(l, "running")
    /\ late' = [late EXCEPT ![i] = IF Registered(i) THEN @ ELSE @ + 1]
    /\ UNCHANGED <<jobs, adds, stopping, thread, loops, age, caller, quiet, owed>>

Finishes(l) ==
    LET rest == Tail(loop[l].due) IN
    /\ loop[l].pc = "running"
    /\ loop' = [loop EXCEPT ![l] =
          [pc |-> IF rest = <<>> THEN "wait" ELSE "run", due |-> rest]]

\* Mutant: the spec is put back when its run ends, as a free name's job.
EndRun_Reschedules(l) ==
    /\ Finishes(l)
    /\ \E n \in Job :
          jobs' = IF Registered(Head(loop[l].due)) \/ Scheduled(n) THEN jobs
                  ELSE [jobs EXCEPT ![n] = [id |-> Head(loop[l].due),
                                            left |-> Interval,
                                            enabled |-> TRUE]]
    /\ UNCHANGED <<adds, stopping, thread, loops, age, caller, history>>

\* Mutant: the jobs after it on the list wait for their next deadline.
EndRun_DropsRest(l) ==
    /\ loop[l].pc = "running"
    /\ loop' = [loop EXCEPT ![l] = [pc |-> "wait", due |-> <<>>]]
    /\ UNCHANGED <<jobs, adds, stopping, thread, loops, age, caller, history>>

\* ... and it returns or raises.  The rest of the list is run whatever the
\* stop event says.
EndRun(l) ==
    /\ Finishes(l)
    /\ UNCHANGED <<jobs, adds, stopping, thread, loops, age, caller, history>>

\* self._stop_event.wait(timeout=_TICK_SECONDS): set, or timed out.
WaitOver(l) ==
    /\ loop[l].pc = "wait"
    /\ Goto(l, IF stopping THEN "dead" ELSE "check")
    /\ UNCHANGED <<jobs, adds, stopping, thread, loops, age, caller, history>>

\* One unit of the monotonic clock goes by.
Tick ==
    /\ \A l \in Loop : loop[l].pc = "scan" => age[l] < MaxWait
    /\ jobs' = [n \in Job |-> IF jobs[n].left > Passed
                              THEN [jobs[n] EXCEPT !.left = @ - 1] ELSE jobs[n]]
    /\ age' = [l \in Loop |-> IF loop[l].pc = "scan" THEN age[l] + 1 ELSE age[l]]
    /\ quiet' = [i \in Id |-> IF quiet[i] < Rested THEN quiet[i] + 1 ELSE quiet[i]]
    /\ UNCHANGED <<adds, stopping, thread, loops, loop, caller, owed, late>>

-----------------------------------------------------------------------------
HostStep(c) ==
    AddJob(c) \/ RemoveJob(c) \/ Start(c) \/ StopTake(c)
        \/ StopSignal(c) \/ StopReturn(c)

LoopStep(l) ==
    Check(l) \/ ReadClock(l) \/ Scan(l) \/ BeginRun(l) \/ EndRun(l) \/ WaitOver(l)

Next ==
    \/ \E c \in Caller : HostStep(c)
    \/ \E l \in Loop : LoopStep(l)
    \/ Tick

Spec == Init /\ [][Next]_vars

\* The scheduler's threads run and the functions they call return; a stop
\* that has begun goes on; time passes.
Fairness ==
    /\ \A l \in Loop : WF_vars(LoopStep(l))
    /\ \A c \in Caller : WF_vars(StopSignal(c))
    /\ WF_vars(Tick)

FairSpec == Spec /\ Fairness

-----------------------------------------------------------------------------
(* Properties                                                              *)

JobType == [id : 0..MaxAdds, left : Passed..Interval, enabled : BOOLEAN]
LoopType ==
    [pc : {"new", "check", "read", "scan", "run", "running", "wait", "dead"}, due : Seq(Id)]
CallerType == [pc : {"free", "signal", "join"}, joins : {NoLoop} \cup Loop]

CountsOK ==
    /\ adds \in 0..MaxAdds /\ loops \in 0..MaxLoops /\ thread \in 0..loops
    /\ stopping \in BOOLEAN

\* No two jobs have one spec.
JobsOK ==
    /\ jobs \in [Job -> JobType]
    /\ \A n \in Job : jobs[n].id <= adds
    /\ \A m, n \in Job : Scheduled(m) /\ jobs[m].id = jobs[n].id => m = n

LoopOK(c) ==
    /\ c.pc \in {"run", "running"} <=> c.due # <<>>
    /\ Len(c.due) <= adds /\ \A k \in DOMAIN c.due : c.due[k] <= adds

LoopsOK ==
    /\ loop \in [Loop -> LoopType]
    /\ \A l \in Loop : LoopOK(loop[l]) /\ (loop[l].pc = "new" <=> l > loops)

\* Only a loop that has yet to scan holds a reading.
AgeOK ==
    /\ age \in [Loop -> 0..MaxWait]
    /\ \A l \in Loop : loop[l].pc # "scan" => age[l] = 0

CallersOK ==
    caller \in [Caller -> CallerType] /\ \A c \in Caller : caller[c].joins <= loops

HistoryOK ==
    quiet \in [Id -> 0..Rested] /\ owed \in [Id -> Nat] /\ late \in [Id -> Nat]

\* The types of the variables, and what a loop holds at each place.
TypeOK == CountsOK /\ JobsOK /\ LoopsOK /\ AgeOK /\ CallersOK /\ HistoryOK

\* A loop that is alive is the scheduler's thread, or a stop() took its
\* handle: start() never leaves a running loop behind on its own.  A loop
\* may outlive a stop() that timed out, or that another start() overtook.
Abandoned == {l \in Loop : Alive(l) /\ l # thread}

TakenByStop(l) == \E c \in Caller : caller[c].pc = "free" /\ caller'[c].joins = l

NoLoopIsLost == [][\A l \in Abandoned' \ Abandoned : TakenByStop(l)]_vars

\* remove_job() does not reach the lists of due jobs, but no spec is claimed
\* once it was removed: it still runs at most as often as it was on such a
\* list when it was removed, whatever its loops do meanwhile.
RemovedJobsFade ==
    \A i \in Id : i <= adds /\ ~Registered(i) => late[i] + Pending(i) <= owed[i]

\* The clock readings two claims of one spec rest on are at least its interval
\* apart, though a loop may claim long after its reading and another loop may
\* have claimed meanwhile: n claims span n - 1 intervals of readings, and a
\* scheduler that was held up does not make up for the runs it missed.
ClaimsRested(l) ==
    loop[l].pc = "scan" /\ loop'[l].pc # "scan" =>
        \A k \in DOMAIN loop'[l].due :
            quiet[loop'[l].due[k]] >= age[l] + Interval

ClaimsAnIntervalApart == [][\A l \in Loop : ClaimsRested(l)]_vars

\* A job that is due on a started scheduler gets to run, unless it is
\* removed or the scheduler is told to stop: no job starves, and the loop
\* survives its jobs.
DueJobRuns ==
    \A n \in Job, i \in Id :
        /\ jobs[n].id = i
        /\ n \in Due(0)
        /\ Alive(thread)
     ~> \/ \E l \in Loop : loop[l].pc = "running" /\ Head(loop[l].due) = i
        \/ jobs[n].id # i
        \/ stopping

\* A loop ends after stop(), unless start() clears the event before the loop
\* has looked at it.
StopIsSeen ==
    \A l \in Loop :
        (\E c \in Caller : caller[c].pc = "signal" /\ caller[c].joins = l)
            ~> (~Alive(l) \/ \E k \in Loop : k > l /\ loop[k].pc # "new")

-----------------------------------------------------------------------------
(* What the documentation says and the code does not do                    *)

\* scheduler.py: a "single-thread interval scheduler".
SingleThread == \A k, l \in Loop : Alive(k) /\ Alive(l) => k = l
=============================================================================
