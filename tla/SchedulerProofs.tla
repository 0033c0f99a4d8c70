--------------------------- MODULE SchedulerProofs ---------------------------
(***************************************************************************)
(* Proofs about Scheduler: the types, that no loop is lost, that claims    *)
(* rest on readings an interval apart, and that removed jobs fade.         *)
(***************************************************************************)
EXTENDS Scheduler, FiniteSetTheorems, TLAPS

\* What the constants are.
LEMMA Constants ==
    /\ Interval \in Nat /\ Interval > 0 /\ MaxWait \in Nat /\ MaxAdds \in Nat
    /\ MaxLoops \in Nat /\ Rested = Interval + MaxWait /\ Passed = 0 - MaxWait
    /\ IsFiniteSet(Loop \X Id)
<1>1. /\ Interval \in Nat /\ Interval > 0 /\ MaxWait \in Nat /\ MaxAdds \in Nat
      /\ MaxLoops \in Nat /\ Rested = Interval + MaxWait /\ Passed = 0 - MaxWait
  BY SchedulerAssumption DEF SchedulerAssumption, Rested, Passed
<1>2. IsFiniteSet(Loop) /\ IsFiniteSet(Id)
  BY <1>1, FS_Interval DEF Loop, Id
<1> QED
  BY <1>1, <1>2, FS_Product

\* The places in which a spec is pending can be counted.
LEMMA PlacesFinite ==
    \A i : IsFiniteSet(Places(i)) /\ Pending(i) \in Nat
<1> SUFFICES ASSUME NEW i  PROVE IsFiniteSet(Places(i)) /\ Pending(i) \in Nat
  OBVIOUS
<1>1. Places(i) \in SUBSET (Loop \X Id)
  BY DEF Places
<1>2. IsFiniteSet(Places(i))
  BY <1>1, Constants, FS_Subset
<1> QED
  BY <1>2, FS_CardinalityType DEF Pending

\* What a scan may put on its list: ids of due jobs, each once.
LEMMA ListingFacts ==
    ASSUME JobsOK, CountsOK, NEW a, NEW due \in Listings(Due(a))
    PROVE  /\ due \in Seq(Id) /\ Len(due) <= adds
           /\ \A k \in DOMAIN due : \E n \in Due(a) : due[k] = jobs[n].id
           /\ \A k \in DOMAIN due : due[k] <= adds
<1> DEFINE ids == {jobs[n].id : n \in Due(a)}
           size == Cardinality(ids)
<1>1. adds \in Nat /\ adds <= MaxAdds /\ MaxAdds \in Nat
  BY Constants DEF CountsOK
<1>2. ids \subseteq 1..adds
  BY <1>1 DEF Due, Scheduled, JobsOK, JobType
<1>3. size \in Nat /\ size <= adds
  <2>1. IsFiniteSet(1..adds) /\ Cardinality(1..adds) = adds
    BY <1>1, FS_Interval
  <2>2. ids \in SUBSET (1..adds)
    BY <1>2
  <2>3. IsFiniteSet(ids) /\ Cardinality(ids) <= Cardinality(1..adds)
    BY <2>1, <2>2, FS_Subset
  <2> QED
    BY <2>1, <2>3, FS_CardinalityType
<1>4. due \in [1..size -> ids]
  BY DEF Listings
<1> HIDE DEF size
<1>5. due \in [1..size -> Id]
  BY <1>1, <1>2, <1>4 DEF Id
<1>6. due \in Seq(Id) /\ Len(due) = size /\ DOMAIN due = 1..size
  BY <1>3, <1>5
<1>7. \A k \in DOMAIN due : due[k] \in ids
  BY <1>4, <1>6
<1> QED
  BY <1>1, <1>2, <1>3, <1>6, <1>7

------------------------------------------------------------------------------
(* Types                                                                   *)

\* One loop goes on.
LEMMA LoopMoves ==
    ASSUME TypeOK, NEW l \in Loop, NEW c \in LoopType, LoopOK(c), UNCHANGED <<adds, loops>>,
           loop' = [loop EXCEPT ![l] = c], loop[l].pc # "new", c.pc # "new"
    PROVE  LoopsOK'
<1>1. loop' \in [Loop -> LoopType]
  BY DEF TypeOK, LoopsOK
<1>2. LoopOK(c)'
  BY DEF LoopOK
<1>3. ASSUME NEW k \in Loop
      PROVE  LoopOK(loop[k])' /\ (loop'[k].pc = "new" <=> k > loops')
  <2>1. CASE k = l
    BY <1>2, <2>1 DEF TypeOK, LoopsOK, LoopOK
  <2>2. CASE k # l
    BY <2>2 DEF TypeOK, LoopsOK, LoopOK
  <2> QED
    BY <2>1, <2>2
<1> QED
  BY <1>1, <1>3 DEF LoopsOK

\* A loop has no reading unless it is about to scan, and none older than the
\* bound.
LEMMA AgeStep ==
    ASSUME TypeOK, Next
    PROVE  AgeOK'
<1>0. /\ age \in [Loop -> 0..MaxWait] /\ loop \in [Loop -> LoopType] /\ MaxWait \in Nat
      /\ \A l \in Loop : loop[l].pc # "scan" => age[l] = 0
  BY Constants DEF TypeOK, AgeOK, LoopsOK
<1>1. ASSUME NEW l \in Loop, NEW d, loop' = [loop EXCEPT ![l] = d],
             UNCHANGED age, age[l] = 0
      PROVE  AgeOK'
  BY <1>0, <1>1 DEF AgeOK
<1>2. ASSUME NEW l \in Loop, Check(l) \/ ReadClock(l) \/ WaitOver(l) \/ BeginRun(l)
      PROVE  AgeOK'
  <2>1. /\ \E d : loop' = [loop EXCEPT ![l] = d]
        /\ UNCHANGED age /\ loop[l].pc # "scan"
    BY <1>2 DEF Check, ReadClock, WaitOver, BeginRun, Goto
  <2> QED
    BY <1>0, <1>1, <2>1
<1>3. ASSUME NEW l \in Loop, EndRun(l)
      PROVE  AgeOK'
  <2>1. /\ \E d : loop' = [loop EXCEPT ![l] = d]
        /\ UNCHANGED age /\ loop[l].pc # "scan"
    BY <1>3 DEF EndRun, Finishes
  <2> QED
    BY <1>0, <1>1, <2>1
<1>4. ASSUME NEW l \in Loop, Scan(l)
      PROVE  AgeOK'
  <2>1. PICK d : loop' = [loop EXCEPT ![l] = d]
    BY <1>4 DEF Scan, Claims
  <2>2. age' = [age EXCEPT ![l] = 0]
    BY <1>4 DEF Scan, Claims
  <2> QED
    BY <1>0, <2>1, <2>2 DEF AgeOK
<1>5. ASSUME NEW c \in Caller, Start(c)
      PROVE  AgeOK'
  <2> DEFINE l == loops + 1
  <2>1. l \in Loop /\ l > loops /\ UNCHANGED age
        /\ loop' = [loop EXCEPT ![l] = [loop[l] EXCEPT !.pc = "check"]]
    BY <1>5, Constants DEF Start, Loop, TypeOK, CountsOK
  <2>2. loop[l].pc = "new"
    BY <2>1 DEF TypeOK, LoopsOK
  <2> HIDE DEF l
  <2> QED
    BY <1>0, <1>1, <2>1, <2>2
<1>6. CASE Tick
  <2>1. /\ age' = [l \in Loop |-> IF loop[l].pc = "scan" THEN age[l] + 1 ELSE age[l]]
        /\ loop' = loop /\ \A l \in Loop : loop[l].pc = "scan" => age[l] < MaxWait
    BY <1>6 DEF Tick
  <2> QED
    BY <1>0, <2>1 DEF AgeOK
<1>7. CASE UNCHANGED <<loop, age>>
  BY <1>7 DEF TypeOK, AgeOK
<1>8. \/ \E c \in Caller : Start(c)
      \/ \E l \in Loop : LoopStep(l)
      \/ Tick \/ UNCHANGED <<loop, age>>
  BY DEF Next, HostStep, AddJob, RemoveJob, StopTake, StopSignal, StopReturn
<1> QED
  BY <1>2, <1>3, <1>4, <1>5, <1>6, <1>7, <1>8 DEF LoopStep

\* The loops keep their types.
LEMMA LoopStepTypes ==
    ASSUME TypeOK, AgeOK', NEW l \in Loop, LoopStep(l)
    PROVE  TypeOK'
<1>0. /\ loop[l] \in LoopType /\ LoopOK(loop[l]) /\ loop \in [Loop -> LoopType]
      /\ adds \in Nat
  BY Constants DEF TypeOK, LoopsOK, CountsOK
<1>1. ASSUME NEW pc \in {"check", "read", "scan", "wait", "dead"}, Goto(l, pc),
             loop[l].pc \in {"check", "read", "scan", "wait"}, UNCHANGED <<adds, loops>>
      PROVE  LoopsOK'
  <2> DEFINE c == [loop[l] EXCEPT !.pc = pc]
  <2>1. c \in LoopType /\ c.pc = pc /\ c.due = loop[l].due
    BY <1>0 DEF LoopType
  <2>2. loop' = [loop EXCEPT ![l] = c]
    BY <1>1 DEF Goto
  <2> HIDE DEF c
  <2>3. LoopOK(c) /\ loop[l].pc # "new" /\ c.pc # "new"
    BY <1>0, <1>1, <2>1 DEF LoopOK
  <2> QED
    BY <1>1, <2>1, <2>2, <2>3, LoopMoves
<1>2. CASE Check(l)
  <2>1. LoopsOK'
    BY <1>1, <1>2 DEF Check
  <2> QED
    BY <1>2, <2>1 DEF Check, TypeOK, CountsOK, JobsOK, CallersOK, HistoryOK, history, Scheduled
<1>3. CASE WaitOver(l)
  <2>1. LoopsOK'
    BY <1>1, <1>3 DEF WaitOver
  <2> QED
    BY <1>3, <2>1 DEF WaitOver, TypeOK, CountsOK, JobsOK, CallersOK, HistoryOK, history, Scheduled
<1>7. CASE ReadClock(l)
  <2>1. LoopsOK'
    BY <1>1, <1>7 DEF ReadClock
  <2> QED
    BY <1>7, <2>1 DEF ReadClock, TypeOK, CountsOK, JobsOK, CallersOK, HistoryOK, history, Scheduled
<1>4. CASE Scan(l)
  <2> DEFINE D == Due(age[l])
  <2>1. PICK due \in Listings(D) :
           loop' = [loop EXCEPT ![l] = [pc |-> IF due = <<>> THEN "wait" ELSE "run", due |-> due]]
    BY <1>4 DEF Scan, Claims
  <2>2. /\ due \in Seq(Id) /\ Len(due) <= adds /\ \A k \in DOMAIN due : due[k] <= adds
    BY ListingFacts DEF TypeOK
  <2> DEFINE c == [pc |-> IF due = <<>> THEN "wait" ELSE "run", due |-> due]
  <2>3. c \in LoopType /\ LoopOK(c) /\ c.pc # "new"
    BY <2>2 DEF LoopType, LoopOK
  <2>4. loop' = [loop EXCEPT ![l] = c]
    BY <2>1
  <2> HIDE DEF c
  <2>5. LoopsOK'
    BY <1>4, <2>3, <2>4, LoopMoves DEF Scan
  <2>6. JobsOK'
    <3> DEFINE left == Interval - age[l]
    <3>1. jobs' = [n \in Job |-> IF n \in D THEN [jobs[n] EXCEPT !.left = left]
                                 ELSE jobs[n]]
      BY <1>4 DEF Scan, Moved
    <3>4. left \in Passed..Interval
      BY Constants DEF TypeOK, AgeOK
    <3> HIDE DEF left, D
    <3>2. \A n \in Job : jobs'[n] \in JobType /\ jobs'[n].id = jobs[n].id
      BY <3>1, <3>4 DEF TypeOK, JobsOK, JobType
    <3>3. jobs' \in [Job -> JobType]
      BY <3>1, <3>2
    <3> QED
      BY <1>4, <3>2, <3>3 DEF Scan, TypeOK, JobsOK, Scheduled
  <2>7. HistoryOK'
    <3>1. quiet' = [i \in Id |-> IF \E n \in D : jobs[n].id = i THEN age[l] ELSE quiet[i]]
          /\ UNCHANGED <<owed, late>>
      BY <1>4 DEF Claims, Scan
    <3>2. age[l] \in 0..Rested
      BY Constants DEF TypeOK, AgeOK
    <3> HIDE DEF D
    <3> QED
      BY <3>1, <3>2 DEF TypeOK, HistoryOK
  <2> QED
    BY <1>4, <2>5, <2>6, <2>7 DEF Scan, TypeOK, CountsOK, CallersOK
<1>5. CASE BeginRun(l)
  <2> DEFINE c == [loop[l] EXCEPT !.pc = "running"]
             i == Head(loop[l].due)
  <2>1. c \in LoopType /\ c.pc = "running" /\ c.due = loop[l].due
    BY <1>0 DEF LoopType
  <2>2. loop' = [loop EXCEPT ![l] = c]
    BY <1>5 DEF Goto, BeginRun
  <2> HIDE DEF c
  <2>3. LoopOK(c) /\ loop[l].pc # "new" /\ c.pc # "new"
    BY <1>0, <1>5, <2>1 DEF LoopOK, BeginRun
  <2>4. LoopsOK'
    BY <1>5, <2>1, <2>2, <2>3, LoopMoves DEF BeginRun
  <2>5. HistoryOK'
    <3>1. late' = [late EXCEPT ![i] = IF Registered(i) THEN @ ELSE @ + 1]
          /\ UNCHANGED <<quiet, owed>>
      BY <1>5 DEF BeginRun
    <3>2. CASE Registered(i)
      BY <3>1, <3>2 DEF TypeOK, HistoryOK
    <3>3. CASE ~Registered(i)
      <4>1. late' = [late EXCEPT ![i] = late[i] + 1]
        BY <3>1, <3>3
      <4>2. i \in Id
        BY <1>0, <1>5 DEF BeginRun, LoopOK, LoopType
      <4> HIDE DEF i
      <4> QED
        BY <3>1, <4>1, <4>2 DEF TypeOK, HistoryOK
    <3> QED
      BY <3>2, <3>3
  <2> QED
    BY <1>5, <2>4, <2>5 DEF BeginRun, TypeOK, CountsOK, JobsOK, CallersOK, Scheduled
<1>6. CASE EndRun(l)
  <2> DEFINE rest == Tail(loop[l].due)
             c == [pc |-> IF rest = <<>> THEN "wait" ELSE "run", due |-> rest]
  <2>1. loop[l].due \in Seq(Id) /\ loop[l].due # <<>> /\ loop[l].pc = "running"
        /\ Len(loop[l].due) <= adds /\ \A k \in DOMAIN loop[l].due : loop[l].due[k] <= adds
    BY <1>0, <1>6 DEF EndRun, Finishes, LoopOK, LoopType
  <2>2. rest \in Seq(Id) /\ Len(rest) <= adds /\ \A k \in DOMAIN rest : rest[k] <= adds
    BY <1>0, <2>1
  <2>3. loop' = [loop EXCEPT ![l] = c]
    BY <1>6 DEF EndRun, Finishes
  <2> HIDE DEF rest
  <2>4. c \in LoopType /\ LoopOK(c) /\ c.pc # "new"
    BY <2>2 DEF LoopType, LoopOK
  <2> HIDE DEF c
  <2>5. LoopsOK'
    BY <1>6, <2>1, <2>3, <2>4, LoopMoves DEF EndRun
  <2> QED
    BY <1>6, <2>5 DEF EndRun, TypeOK, CountsOK, JobsOK, CallersOK, HistoryOK, history, Scheduled
<1> QED
  BY <1>2, <1>3, <1>4, <1>5, <1>6, <1>7 DEF LoopStep

\* Calls of the host keep the types, ...
LEMMA HostStepTypes ==
    ASSUME TypeOK, AgeOK', NEW c \in Caller, HostStep(c)
    PROVE  TypeOK'
<1>0. /\ adds \in Nat /\ loops \in Nat /\ adds <= MaxAdds /\ loops <= MaxLoops
      /\ thread \in 0..loops /\ MaxAdds \in Nat /\ MaxLoops \in Nat /\ Interval \in Nat
      /\ caller[c] \in CallerType
  BY Constants DEF TypeOK, CountsOK, CallersOK
<1>1. CASE AddJob(c)
  <2>1. PICK n \in Job, left \in {Passed, Interval}, enabled \in BOOLEAN :
            /\ ~Scheduled(n) /\ adds < MaxAdds /\ adds' = adds + 1
            /\ jobs' = [jobs EXCEPT ![n] = [id |-> adds', left |-> left, enabled |-> enabled]]
    BY <1>1 DEF AddJob
  <2> DEFINE new == [id |-> adds', left |-> left, enabled |-> enabled]
  <2>2. new \in JobType /\ new.id = adds + 1
    BY <1>0, <2>1, Constants DEF JobType
  <2> HIDE DEF new
  <2>3. JobsOK'
    <3>1. jobs' = [jobs EXCEPT ![n] = new] /\ jobs \in [Job -> JobType]
      BY <2>1 DEF new, TypeOK, JobsOK
    <3>2. jobs'[n] = new /\ \A m \in Job \ {n} : jobs'[m] = jobs[m]
      BY <3>1
    <3>3. \A m \in Job : jobs[m].id \in Nat /\ jobs[m].id <= adds
      BY <3>1 DEF TypeOK, JobsOK, JobType
    <3>4. jobs' \in [Job -> JobType] /\ \A m \in Job : jobs'[m].id <= adds'
      BY <1>0, <2>1, <2>2, <3>1, <3>2, <3>3
    <3>5. \A m, k \in Job : jobs'[m].id # 0 /\ jobs'[m].id = jobs'[k].id => m = k
      <4> SUFFICES ASSUME NEW m \in Job, NEW k \in Job, jobs'[m].id # 0,
                          jobs'[m].id = jobs'[k].id
                   PROVE  m = k
        OBVIOUS
      <4>1. CASE m = n \/ k = n
        BY <1>0, <2>2, <3>2, <3>3, <4>1
      <4>2. CASE m # n /\ k # n
        BY <3>2, <4>2 DEF TypeOK, JobsOK, Scheduled
      <4> QED
        BY <4>1, <4>2
    <3> QED
      BY <3>4, <3>5 DEF JobsOK, Scheduled
  <2>4. LoopsOK'
    <3>1. UNCHANGED <<loop, loops>>
      BY <1>1 DEF AddJob
    <3>2. ASSUME NEW l \in Loop
          PROVE  LoopOK(loop[l])'
      <4>1. loop[l].due \in Seq(Id) /\ LoopOK(loop[l])
        BY DEF TypeOK, LoopsOK, LoopType
      <4>2. Len(loop[l].due) \in Nat /\ \A k \in DOMAIN loop[l].due : loop[l].due[k] \in Nat
        BY <1>0, <4>1 DEF Id
      <4> QED
        BY <1>0, <2>1, <3>1, <4>1, <4>2 DEF LoopOK
    <3> QED
      BY <3>1, <3>2 DEF TypeOK, LoopsOK
  <2> QED
    BY <1>0, <1>1, <2>1, <2>3, <2>4
       DEF AddJob, TypeOK, CountsOK, CallersOK, HistoryOK, history
<1>2. CASE RemoveJob(c)
  <2>1. PICK n \in Job : /\ Scheduled(n) /\ jobs' = [jobs EXCEPT ![n] = NoJob]
                         /\ owed' = [owed EXCEPT ![jobs[n].id] = Pending(jobs[n].id)]
    BY <1>2 DEF RemoveJob
  <2>2. UNCHANGED <<adds, stopping, thread, loops, loop, caller, quiet, late>>
    BY <1>2 DEF RemoveJob
  <2>3. JobsOK'
    <3>1. NoJob \in JobType /\ NoJob.id = 0
      BY <1>0, Constants DEF NoJob, JobType
    <3>2. jobs'[n] = NoJob /\ \A m \in Job \ {n} : jobs'[m] = jobs[m]
      BY <2>1 DEF TypeOK, JobsOK
    <3>3. jobs' \in [Job -> JobType]
      BY <2>1, <3>1 DEF TypeOK, JobsOK
    <3> QED
      BY <1>0, <2>2, <3>1, <3>2, <3>3 DEF TypeOK, JobsOK, Scheduled
  <2>4. HistoryOK'
    BY <2>1, <2>2, PlacesFinite DEF TypeOK, HistoryOK
  <2> QED
    BY <2>2, <2>3, <2>4 DEF TypeOK, CountsOK, LoopsOK, LoopOK, CallersOK
<1>3. CASE Start(c)
  <2> DEFINE l == loops + 1
             d == [loop[l] EXCEPT !.pc = "check"]
  <2>1. /\ l \in Loop /\ l <= MaxLoops /\ loops' = l /\ thread' = l /\ stopping' = FALSE
        /\ loop' = [loop EXCEPT ![l] = d] /\ UNCHANGED <<jobs, adds, caller, history>>
    BY <1>0, <1>3 DEF Start, Loop
  <2>2. /\ loop[l] \in LoopType /\ loop[l].pc = "new" /\ loop[l].due = <<>>
        /\ loop \in [Loop -> LoopType]
    <3>1. l > loops
      BY <1>0
    <3>2. /\ loop[l] \in LoopType /\ loop[l].pc = "new" /\ LoopOK(loop[l])
          /\ loop \in [Loop -> LoopType]
      BY <2>1, <3>1 DEF TypeOK, LoopsOK
    <3> QED
      BY <3>2 DEF LoopOK
  <2>3. d \in LoopType /\ d.pc = "check" /\ d.due = <<>>
    BY <2>2 DEF LoopType
  <2> HIDE DEF d
  <2>4. LoopsOK'
    <3>1. loop' \in [Loop -> LoopType]
      BY <2>1, <2>2, <2>3
    <3>2. ASSUME NEW k \in Loop
          PROVE  LoopOK(loop[k])' /\ (loop'[k].pc = "new" <=> k > loops')
      <4>1. k \in Nat
        BY DEF Loop
      <4>2. CASE k = l
        BY <1>0, <2>1, <2>2, <2>3, <4>2 DEF LoopOK
      <4>3. CASE k # l
        BY <1>0, <2>1, <2>2, <4>1, <4>3 DEF TypeOK, LoopsOK, LoopOK
      <4> QED
        BY <4>2, <4>3
    <3> QED
      BY <3>1, <3>2 DEF LoopsOK
  <2>5. CallersOK'
    <3>1. \A e \in Caller : caller[e].joins \in Nat /\ caller[e].joins <= loops
      BY DEF TypeOK, CallersOK, CallerType, NoLoop, Loop
    <3> QED
      BY <1>0, <2>1, <3>1 DEF TypeOK, CallersOK
  <2>6. CountsOK'
    <3>1. adds' \in 0..MaxAdds
      BY <2>1 DEF TypeOK, CountsOK
    <3>2. loops' \in 0..MaxLoops /\ thread' \in 0..loops'
      BY <1>0, <2>1
    <3>3. stopping' \in BOOLEAN
      BY <2>1
    <3> QED
      BY <3>1, <3>2, <3>3 DEF CountsOK
  <2>7. JobsOK' /\ HistoryOK'
    BY <2>1 DEF TypeOK, JobsOK, HistoryOK, history, Scheduled
  <2> QED
    BY <2>4, <2>5, <2>6, <2>7 DEF TypeOK
<1>4. ASSUME NEW d \in CallerType, d.joins <= loops, caller' = [caller EXCEPT ![c] = d],
             UNCHANGED <<jobs, adds, loops, loop, history>>, thread' \in 0..loops,
             stopping' \in BOOLEAN
      PROVE  TypeOK'
  <2>1. CallersOK'
    BY <1>4 DEF TypeOK, CallersOK
  <2> QED
    BY <1>4, <2>1 DEF TypeOK, CountsOK, JobsOK, LoopsOK, LoopOK, HistoryOK, history, Scheduled
<1>5. CASE StopTake(c)
  <2>1. [pc |-> "signal", joins |-> thread] \in CallerType
    BY <1>0 DEF CallerType, Loop, NoLoop
  <2> DEFINE d == [pc |-> "signal", joins |-> thread]
  <2>2. d.joins <= loops /\ thread' \in 0..loops /\ stopping' \in BOOLEAN
        /\ caller' = [caller EXCEPT ![c] = d] /\ UNCHANGED <<jobs, adds, loops, loop, history>>
    BY <1>0, <1>5 DEF StopTake, TypeOK, CountsOK, NoLoop
  <2> HIDE DEF d
  <2>3. d \in CallerType
    BY <2>1 DEF d
  <2> QED
    BY <1>4, <2>2, <2>3
<1>6. CASE StopSignal(c)
  <2> DEFINE d == IF Alive(caller[c].joins) THEN [caller[c] EXCEPT !.pc = "join"]
                  ELSE [pc |-> "free", joins |-> NoLoop]
  <2>1. d \in CallerType /\ d.joins \in {caller[c].joins, NoLoop}
    BY <1>0 DEF CallerType
  <2>2. caller' = [caller EXCEPT ![c] = d]
    BY <1>6 DEF StopSignal
  <2> HIDE DEF d
  <2>3. d.joins <= loops
    BY <1>0, <2>1 DEF TypeOK, CallersOK, NoLoop
  <2> QED
    BY <1>0, <1>4, <1>6, <2>1, <2>2, <2>3 DEF StopSignal
<1>7. CASE StopReturn(c)
  <2>1. [pc |-> "free", joins |-> NoLoop] \in CallerType /\ NoLoop <= loops
    BY <1>0 DEF CallerType, NoLoop
  <2> QED
    BY <1>0, <1>4, <1>7, <2>1 DEF StopReturn, TypeOK, CountsOK
<1> QED
  BY <1>1, <1>2, <1>3, <1>5, <1>6, <1>7 DEF HostStep

\* ... and so does time.
LEMMA TickTypes ==
    ASSUME TypeOK, AgeOK', Tick
    PROVE  TypeOK'
<1>1. \A n \in Job : jobs'[n] \in JobType /\ jobs'[n].id = jobs[n].id
  BY Constants DEF Tick, TypeOK, JobsOK, JobType
<1>2. jobs' \in [Job -> JobType]
  BY <1>1 DEF Tick
<1>3. JobsOK'
  BY <1>1, <1>2 DEF Tick, TypeOK, JobsOK, Scheduled
<1>4. quiet' \in [Id -> 0..Rested]
  BY Constants DEF Tick, TypeOK, HistoryOK
<1> QED
  BY <1>3, <1>4 DEF Tick, TypeOK, CountsOK, LoopsOK, LoopOK, CallersOK, HistoryOK

\* The types; a loop has due specs exactly while it runs them, and no two jobs
\* share a spec.
THEOREM TypeCorrect == Spec => []TypeOK
<1>1. Init => TypeOK
  <2> SUFFICES ASSUME Init  PROVE TypeOK
    OBVIOUS
  <2>1. CountsOK
    <3>1. adds \in 0..MaxAdds /\ loops \in 0..MaxLoops /\ thread \in 0..loops
      BY Constants DEF Init, NoLoop
    <3>2. stopping \in BOOLEAN
      BY DEF Init
    <3> QED
      BY <3>1, <3>2 DEF CountsOK
  <2>5. HistoryOK
    BY Constants DEF Init, HistoryOK
  <2>2. JobsOK
    BY Constants DEF Init, JobsOK, NoJob, JobType, Scheduled
  <2>3. LoopsOK
    <3> DEFINE c == [pc |-> "new", due |-> <<>>]
    <3>1. c \in LoopType /\ c.pc = "new" /\ c.due = <<>> /\ Len(c.due) = 0
      BY DEF LoopType
    <3>2. LoopOK(c)
      BY <3>1 DEF LoopOK, Init
    <3>3. loop = [l \in Loop |-> c] /\ \A l \in Loop : l > loops
      BY Constants DEF Init, Loop
    <3> HIDE DEF c
    <3> QED
      BY <3>1, <3>2, <3>3 DEF LoopsOK
  <2>4. CallersOK
    BY DEF Init, CallersOK, CallerType, NoLoop
  <2>6. AgeOK
    BY Constants DEF Init, AgeOK
  <2> QED
    BY <2>1, <2>2, <2>3, <2>4, <2>5, <2>6 DEF TypeOK
<1>2. TypeOK /\ [Next]_vars => TypeOK'
  <2> SUFFICES ASSUME TypeOK, [Next]_vars  PROVE TypeOK'
    OBVIOUS
  <2>1. CASE UNCHANGED vars
    BY <2>1 DEF vars, history, TypeOK, CountsOK, JobsOK, LoopsOK, LoopOK, AgeOK, CallersOK,
       HistoryOK, Scheduled
  <2> QED
    BY <2>1, AgeStep, HostStepTypes, LoopStepTypes, TickTypes DEF Next
<1> QED
  BY <1>1, <1>2, PTL DEF Spec

------------------------------------------------------------------------------
(* Loops                                                                   *)

\* A loop that is alive is the scheduler's thread, or a stop() took it.
THEOREM LoopsAreKept == Spec => NoLoopIsLost
<1>1. TypeOK /\ [Next]_vars => [\A l \in Abandoned' \ Abandoned : TakenByStop(l)]_vars
  <2> SUFFICES ASSUME TypeOK, Next, NEW l \in Abandoned', l \notin Abandoned
               PROVE  TakenByStop(l)
    BY DEF vars
  <2>0. /\ l \in Loop /\ l # NoLoop /\ loop'[l].pc \notin {"new", "dead"} /\ l # thread'
        /\ (loop[l].pc \in {"new", "dead"} \/ l = thread)
        /\ loop \in [Loop -> LoopType]
    BY DEF Abandoned, Alive, TypeOK, LoopsOK
  <2>1. ASSUME NEW c \in Caller, Start(c)
        PROVE  FALSE
    <3>1. /\ loop' = [loop EXCEPT ![loops'].pc = "check"] /\ thread' = loops'
          /\ loop[thread].pc \in {"new", "dead"} \/ thread = NoLoop
      BY <2>1 DEF Start, Alive
    <3>2. loop'[l] = loop[l]
      BY <2>0, <3>1
    <3> QED
      BY <2>0, <3>1, <3>2
  <2>2. ASSUME NEW c \in Caller, StopTake(c)
        PROVE  TakenByStop(l)
    <3>1. l = thread /\ caller[c].pc = "free" /\ caller'[c].joins = thread
      BY <2>0, <2>2 DEF StopTake, Free, TypeOK, CallersOK
    <3> QED
      BY <3>1 DEF TakenByStop
  <2>3. ASSUME NEW k \in Loop, LoopStep(k)
        PROVE  FALSE
    <3>1. thread' = thread /\ loop[k].pc \notin {"new", "dead"}
      BY <2>3 DEF LoopStep, Check, ReadClock, Scan, BeginRun, EndRun, Finishes, WaitOver
    <3>2. PICK d : loop' = [loop EXCEPT ![k] = d]
      BY <2>3 DEF LoopStep, Check, ReadClock, Scan, Claims, BeginRun, EndRun, Finishes, WaitOver, Goto
    <3> QED
      BY <2>0, <3>1, <3>2
  <2>4. CASE UNCHANGED <<loop, thread>>
    BY <2>0, <2>4
  <2>5. \/ \E c \in Caller : Start(c) \/ StopTake(c)
        \/ \E k \in Loop : LoopStep(k)
        \/ UNCHANGED <<loop, thread>>
    BY DEF Next, HostStep, AddJob, RemoveJob, StopSignal, StopReturn, Tick
  <2> QED
    BY <2>1, <2>2, <2>3, <2>4, <2>5
<1> QED
  BY <1>1, TypeCorrect, PTL DEF Spec, NoLoopIsLost

------------------------------------------------------------------------------
(* Claims                                                                  *)

\* The time since the reading of the last claim and the time left until the
\* deadline add up to an interval at least.
Apart ==
    /\ \A n \in Job : Scheduled(n) => quiet[jobs[n].id] + jobs[n].left >= Interval
    /\ \A i \in Id : i > adds => quiet[i] = Rested

\* The ids of registered jobs.
LEMMA JobFacts ==
    ASSUME TypeOK, NEW n \in Job
    PROVE  /\ jobs[n].id \in Nat /\ jobs[n].id <= adds /\ jobs[n].left \in Passed..Interval
           /\ Scheduled(n) => jobs[n].id \in Id /\ quiet[jobs[n].id] \in 0..Rested
<1>1. jobs[n].id \in 0..MaxAdds /\ jobs[n].id <= adds /\ jobs[n].left \in Passed..Interval
  BY DEF TypeOK, JobsOK, JobType
<1>2. Scheduled(n) => jobs[n].id \in Id
  BY <1>1, Constants DEF Scheduled, Id
<1> QED
  BY <1>1, <1>2, Constants DEF TypeOK, HistoryOK

\* A step keeps that.
LEMMA ApartStep ==
    ASSUME TypeOK, Apart, Next
    PROVE  Apart'
<1>0. adds \in Nat /\ adds <= MaxAdds /\ MaxAdds \in Nat /\ Interval \in Nat
  BY Constants DEF TypeOK, CountsOK
<1>1. ASSUME NEW c \in Caller, AddJob(c)
      PROVE  Apart'
  <2>1. PICK n \in Job, left \in {Passed, Interval}, enabled \in BOOLEAN :
            /\ ~Scheduled(n) /\ adds < MaxAdds /\ adds' = adds + 1
            /\ jobs' = [jobs EXCEPT ![n] = [id |-> adds', left |-> left, enabled |-> enabled]]
            /\ quiet' = quiet
    BY <1>1 DEF AddJob, history
  <2>2. jobs'[n].id = adds + 1 /\ jobs'[n].left \in {Passed, Interval}
        /\ \A m \in Job \ {n} : jobs'[m] = jobs[m]
    BY <2>1 DEF TypeOK, JobsOK
  <2>3. quiet[adds + 1] = Rested
    BY <1>0, <2>1 DEF Apart, Id
  <2>4. ASSUME NEW m \in Job, jobs'[m].id # 0
        PROVE  quiet'[jobs'[m].id] + jobs'[m].left >= Interval
    <3>1. CASE m = n
      BY <1>0, <2>1, <2>2, <2>3, <3>1, Constants
    <3>2. CASE m # n
      BY <2>1, <2>2, <2>4, <3>2 DEF Apart, Scheduled
    <3> QED
      BY <3>1, <3>2
  <2>5. \A i \in Id : i > adds' => quiet'[i] = Rested
    BY <1>0, <2>1 DEF Apart, Id
  <2> QED
    BY <2>4, <2>5 DEF Apart, Scheduled
<1>2. ASSUME NEW c \in Caller, RemoveJob(c)
      PROVE  Apart'
  <2>1. UNCHANGED <<adds, quiet>> /\ \A m \in Job : jobs'[m] \in {jobs[m], NoJob}
    BY <1>2 DEF RemoveJob, TypeOK, JobsOK
  <2> QED
    BY <2>1 DEF Apart, Scheduled, NoJob
<1>3. ASSUME NEW l \in Loop, Scan(l)
      PROVE  Apart'
  <2> DEFINE D == Due(age[l])
             left == Interval - age[l]
  <2>1. /\ jobs' = [n \in Job |-> IF n \in D THEN [jobs[n] EXCEPT !.left = left]
                                  ELSE jobs[n]]
        /\ quiet' = [i \in Id |-> IF \E n \in D : jobs[n].id = i THEN age[l] ELSE quiet[i]]
        /\ adds' = adds
    BY <1>3 DEF Scan, Claims, Moved
  <2>4. age[l] \in Nat /\ left + age[l] = Interval /\ left \in Int
    BY Constants DEF TypeOK, AgeOK
  <2>5. \A m \in D : m \in Job /\ Scheduled(m)
    BY DEF Due
  <2> HIDE DEF D, left
  <2>2. ASSUME NEW n \in Job, jobs'[n].id # 0
        PROVE  quiet'[jobs'[n].id] + jobs'[n].left >= Interval
    <3>1. jobs'[n].id = jobs[n].id
      BY <2>1 DEF TypeOK, JobsOK, JobType
    <3>2. Scheduled(n) /\ jobs[n].id \in Id /\ quiet[jobs[n].id] \in 0..Rested
      BY <2>2, <3>1, JobFacts DEF Scheduled
    <3>3. CASE n \in D
      <4>1. jobs'[n].left = left
        BY <2>1, <3>3 DEF TypeOK, JobsOK, JobType
      <4>2. quiet'[jobs[n].id] = age[l]
        BY <2>1, <3>2, <3>3
      <4> QED
        BY <1>0, <2>4, <3>1, <4>1, <4>2
    <3>4. CASE n \notin D
      <4>1. jobs'[n] = jobs[n]
        BY <2>1, <3>4
      <4>2. \A m \in D : m \in Job /\ jobs[m].id # jobs[n].id
        BY <2>5, <3>2, <3>4 DEF TypeOK, JobsOK
      <4>3. quiet'[jobs[n].id] = quiet[jobs[n].id]
        BY <2>1, <3>2, <4>2
      <4> QED
        BY <3>2, <4>1, <4>3 DEF Apart
    <3> QED
      BY <3>3, <3>4
  <2>3. ASSUME NEW i \in Id, i > adds'
        PROVE  quiet'[i] = Rested
    <3>1. \A m \in D : jobs[m].id <= adds /\ jobs[m].id \in Nat
      BY <2>5, JobFacts
    <3>2. ~\E m \in D : jobs[m].id = i
      BY <1>0, <2>1, <2>3, <3>1 DEF Id
    <3> QED
      BY <2>1, <2>3, <3>2 DEF Apart
  <2> QED
    BY <2>2, <2>3 DEF Apart, Scheduled
<1>4. CASE Tick
  <2>1. ASSUME NEW n \in Job, jobs'[n].id # 0
        PROVE  quiet'[jobs'[n].id] + jobs'[n].left >= Interval
    <3>1. jobs'[n].id = jobs[n].id /\ jobs'[n].left = IF jobs[n].left > Passed THEN jobs[n].left - 1 ELSE jobs[n].left
      BY <1>4, JobFacts DEF Tick, TypeOK, JobsOK, JobType
    <3>2. Scheduled(n) /\ jobs[n].id \in Id /\ quiet[jobs[n].id] \in 0..Rested
          /\ jobs[n].left \in Passed..Interval
      BY <2>1, <3>1, JobFacts DEF Scheduled
    <3>3. quiet'[jobs[n].id] = IF quiet[jobs[n].id] < Rested THEN quiet[jobs[n].id] + 1
                               ELSE quiet[jobs[n].id]
      BY <1>4, <3>2 DEF Tick
    <3>4. quiet[jobs[n].id] + jobs[n].left >= Interval
      BY <3>2 DEF Apart
    <3> QED
      BY <1>0, <3>1, <3>2, <3>3, <3>4, Constants
  <2>2. ASSUME NEW i \in Id, i > adds'
        PROVE  quiet'[i] = Rested
    BY <1>0, <1>4, <2>2, Constants DEF Tick, Apart
  <2> QED
    BY <2>1, <2>2 DEF Apart, Scheduled
<1>5. CASE UNCHANGED <<jobs, adds, quiet>>
  BY <1>5 DEF Apart, Scheduled
<1>6. \/ \E c \in Caller : AddJob(c) \/ RemoveJob(c)
      \/ \E l \in Loop : Scan(l)
      \/ Tick \/ UNCHANGED <<jobs, adds, quiet>>
  BY DEF Next, HostStep, Start, StopTake, StopSignal, StopReturn, LoopStep, Check, ReadClock, BeginRun,
     EndRun, WaitOver, history
<1> QED
  BY <1>1, <1>2, <1>3, <1>4, <1>5, <1>6

\* The readings two claims of one spec rest on are at least its interval apart,
\* however many loops are alive and however long each waits for the lock: the
\* deadline is moved, from the reading, in the step that claims it.
THEOREM ClaimsCorrect == Spec => ClaimsAnIntervalApart
<1>1. Init => Apart
  BY DEF Init, Apart, Scheduled, NoJob
<1>2. TypeOK /\ Apart /\ [Next]_vars => Apart'
  <2>1. ASSUME Apart, UNCHANGED vars  PROVE Apart'
    BY <2>1 DEF Apart, vars, Scheduled, history
  <2> QED
    BY <2>1, ApartStep
<1>3. TypeOK /\ Apart /\ [Next]_vars => [\A l \in Loop : ClaimsRested(l)]_vars
  <2> SUFFICES ASSUME TypeOK, Apart, Next, NEW l \in Loop,
                      loop[l].pc = "scan", loop'[l].pc # "scan",
                      NEW k \in DOMAIN loop'[l].due
               PROVE  quiet[loop'[l].due[k]] >= age[l] + Interval
    BY DEF ClaimsRested
  <2>0. loop \in [Loop -> LoopType] /\ Interval \in Nat
    BY Constants DEF TypeOK, LoopsOK
  <2>1. CASE Scan(l)
    <3>1. PICK due \in Listings(Due(age[l])) :
             loop' = [loop EXCEPT ![l] =
                        [pc |-> IF due = <<>> THEN "wait" ELSE "run", due |-> due]]
      BY <2>1 DEF Scan, Claims
    <3>2. loop'[l].due = due
      BY <2>0, <3>1
    <3>3. PICK n \in Due(age[l]) : due[k] = jobs[n].id
      BY <3>1, <3>2, ListingFacts DEF TypeOK
    <3>4. n \in Job /\ Scheduled(n) /\ jobs[n].left + age[l] <= 0
      BY <3>3 DEF Due
    <3>5. quiet[jobs[n].id] + jobs[n].left >= Interval /\ quiet[jobs[n].id] \in 0..Rested
          /\ jobs[n].left \in Passed..Interval /\ age[l] \in 0..MaxWait
      BY <3>4, JobFacts DEF Apart, TypeOK, AgeOK
    <3> QED
      BY <2>0, <3>2, <3>3, <3>4, <3>5, Constants
  <2>2. ASSUME NEW j \in Loop, LoopStep(j), j # l
        PROVE  FALSE
    <3>1. PICK d : loop' = [loop EXCEPT ![j] = d]
      BY <2>2 DEF LoopStep, Check, ReadClock, Scan, Claims, BeginRun, EndRun, Finishes, WaitOver, Goto
    <3> QED
      BY <2>0, <2>2, <3>1
  <2>3. CASE Check(l) \/ ReadClock(l) \/ BeginRun(l) \/ EndRun(l) \/ WaitOver(l)
    BY <2>3 DEF Check, ReadClock, BeginRun, EndRun, Finishes, WaitOver
  <2>4. ASSUME NEW c \in Caller, Start(c)
        PROVE  FALSE
    <3>1. loop' = [loop EXCEPT ![loops + 1].pc = "check"] /\ loops \in Nat
      BY <2>4, Constants DEF Start, TypeOK, CountsOK
    <3>2. l <= loops /\ l \in Nat
      BY <3>1 DEF TypeOK, LoopsOK, Loop
    <3>3. loop'[l] = loop[l]
      BY <2>0, <3>1, <3>2
    <3> QED
      BY <3>3
  <2>5. CASE loop' = loop
    BY <2>5
  <2> QED
    BY <2>1, <2>2, <2>3, <2>4, <2>5
       DEF Next, HostStep, AddJob, RemoveJob, StopTake, StopSignal, StopReturn, LoopStep, Tick
<1> QED
  BY <1>1, <1>2, <1>3, TypeCorrect, PTL DEF Spec, ClaimsAnIntervalApart

------------------------------------------------------------------------------
(* Removed jobs                                                            *)

\* Runs are late only for a spec that was added and is no longer registered.
LateOnlyAfter == \A i \in Id : Registered(i) \/ i > adds => late[i] = 0

Fading == LateOnlyAfter /\ RemovedJobsFade

\* Places that go are no longer pending.
LEMMA FewerPlaces ==
    ASSUME NEW i, Places(i)' \subseteq Places(i)
    PROVE  Pending(i) \in Nat /\ Pending(i)' \in Nat /\ Pending(i)' <= Pending(i)
<1>1. IsFiniteSet(Places(i)) /\ Pending(i) \in Nat
  BY PlacesFinite
<1>2. Places(i)' \in SUBSET Places(i)
  OBVIOUS
<1>3. IsFiniteSet(Places(i)') /\ Cardinality(Places(i)') <= Cardinality(Places(i))
  BY <1>1, <1>2, FS_Subset
<1> QED
  BY <1>1, <1>3, FS_CardinalityType DEF Pending

\* A loop whose list is empty, or has no such spec on it, has no place.
LEMMA NoNewPlaces ==
    ASSUME TypeOK, NEW l \in Loop, NEW d, loop' = [loop EXCEPT ![l] = d], NEW i,
           \A k \in DOMAIN d.due : d.due[k] # i
    PROVE  Places(i)' \subseteq Places(i)
<1> SUFFICES ASSUME NEW x \in Loop \X Id, Waits(loop'[x[1]], x[2], i)
             PROVE  Waits(loop[x[1]], x[2], i)
  BY DEF Places
<1>1. loop \in [Loop -> LoopType] /\ x[1] \in Loop
  BY DEF TypeOK, LoopsOK
<1>2. CASE x[1] = l
  BY <1>1, <1>2 DEF Waits
<1>3. CASE x[1] # l
  BY <1>1, <1>3
<1> QED
  BY <1>2, <1>3

\* When a run begins, the spec at the head of the list has one place less.
LEMMA BeginPlaces ==
    ASSUME TypeOK, NEW l \in Loop, BeginRun(l), NEW i \in Id
    PROVE  /\ Pending(i) \in Nat /\ Pending(i)' \in Nat
           /\ Pending(i)' + (IF Head(loop[l].due) = i THEN 1 ELSE 0) <= Pending(i)
<1> DEFINE d == [loop[l] EXCEPT !.pc = "running"]
<1>0. /\ loop \in [Loop -> LoopType] /\ loop[l] \in LoopType /\ loop[l].pc = "run"
      /\ loop[l].due \in Seq(Id) /\ loop[l].due # <<>>
      /\ loop' = [loop EXCEPT ![l] = d]
  BY DEF TypeOK, LoopsOK, LoopOK, LoopType, BeginRun, Goto
<1>1. d.pc = "running" /\ d.due = loop[l].due
  BY <1>0 DEF LoopType
<1> HIDE DEF d
<1>2. Places(i)' \subseteq Places(i) \ {<<l, 1>>}
  <2> SUFFICES ASSUME NEW x \in Loop \X Id, Waits(loop'[x[1]], x[2], i)
               PROVE  Waits(loop[x[1]], x[2], i) /\ ~(x[1] = l /\ x[2] = 1)
    BY DEF Places
  <2>1. CASE x[1] = l
    BY <1>0, <1>1, <2>1 DEF Waits
  <2>2. CASE x[1] # l
    BY <1>0, <2>2
  <2> QED
    BY <2>1, <2>2
<1>3. CASE Head(loop[l].due) = i
  <2>1. <<l, 1>> \in Places(i)
    <3>1. 1 \in DOMAIN loop[l].due /\ loop[l].due[1] = i /\ loop[l].pc # "running"
      BY <1>0, <1>3
    <3>2. 1 \in Id
      BY Constants DEF Id
    <3> QED
      BY <3>1, <3>2 DEF Places, Waits
  <2>2. IsFiniteSet(Places(i)) /\ Pending(i) \in Nat
    BY PlacesFinite
  <2>3. /\ IsFiniteSet(Places(i) \ {<<l, 1>>})
        /\ Cardinality(Places(i) \ {<<l, 1>>}) = Pending(i) - 1
    BY <2>1, <2>2, FS_RemoveElement DEF Pending
  <2>4. Places(i)' \in SUBSET (Places(i) \ {<<l, 1>>})
    BY <1>2
  <2>5. IsFiniteSet(Places(i)') /\ Cardinality(Places(i)') <= Pending(i) - 1
    BY <2>3, <2>4, FS_Subset
  <2>6. Pending(i)' = Cardinality(Places(i)') /\ Pending(i)' \in Nat
    BY <2>5, FS_CardinalityType DEF Pending
  <2> QED
    BY <1>3, <2>2, <2>5, <2>6
<1>4. CASE Head(loop[l].due) # i
  BY <1>2, <1>4, FewerPlaces
<1> QED
  BY <1>3, <1>4

\* When a run ends, the rest of the list moves up.
LEMMA EndPlaces ==
    ASSUME TypeOK, NEW l \in Loop, EndRun(l), NEW i \in Id
    PROVE  Pending(i) \in Nat /\ Pending(i)' \in Nat /\ Pending(i)' <= Pending(i)
<1> DEFINE old == loop[l].due
           rest == Tail(old)
           d == [pc |-> IF rest = <<>> THEN "wait" ELSE "run", due |-> rest]
           S == Places(i)'
           T == Places(i)
           f == [x \in S |-> IF x[1] = l THEN <<l, x[2] + 1>> ELSE x]
<1>0. /\ loop \in [Loop -> LoopType] /\ old \in Seq(Id) /\ old # <<>> /\ Len(old) <= MaxAdds
      /\ loop' = [loop EXCEPT ![l] = d] /\ MaxAdds \in Nat
  BY Constants DEF TypeOK, LoopsOK, LoopOK, LoopType, CountsOK, EndRun, Finishes
<1>1. d.due = rest /\ rest \in Seq(Id) /\ Len(rest) = Len(old) - 1
      /\ \A k \in DOMAIN rest : k + 1 \in DOMAIN old /\ rest[k] = old[k + 1]
  BY <1>0
<1> HIDE DEF d, rest
<1>2. \A x \in S : x \in Loop \X Id /\ Waits(loop'[x[1]], x[2], i)
  BY DEF Places
<1>3. ASSUME NEW x \in S
      PROVE  (IF x[1] = l THEN <<l, x[2] + 1>> ELSE x) \in T
  <2>1. x \in Loop \X Id /\ Waits(loop'[x[1]], x[2], i) /\ x[1] \in Loop /\ x[2] \in Id
    BY <1>2
  <2>2. CASE x[1] = l
    <3>1. x[2] \in DOMAIN rest /\ rest[x[2]] = i
      BY <1>0, <1>1, <2>1, <2>2 DEF Waits
    <3>2. x[2] + 1 \in DOMAIN old /\ old[x[2] + 1] = i /\ x[2] \in Nat /\ x[2] > 0
      BY <1>1, <2>1, <3>1 DEF Id
    <3>3. x[2] + 1 \in Id
      BY <1>0, <3>2 DEF Id
    <3>4. Waits(loop[l], x[2] + 1, i)
      BY <3>2 DEF Waits
    <3>5. <<l, x[2] + 1>> \in T
      BY <3>3, <3>4 DEF Places
    <3> QED
      BY <2>2, <3>5
  <2>3. CASE x[1] # l
    BY <1>0, <2>1, <2>3 DEF Places
  <2> QED
    BY <2>2, <2>3
<1>4. IsFiniteSet(T) /\ Pending(i) \in Nat
  BY PlacesFinite
<1>5. \A x \in S : x[1] \in Loop /\ x[2] \in Nat /\ x = <<x[1], x[2]>>
  BY <1>2 DEF Id
<1>6. f \in Injection(S, T)
  <2>1. f \in [S -> T]
    BY <1>3
  <2>2. ASSUME NEW x \in S, NEW y \in S, f[x] = f[y]
        PROVE  x = y
    <3>1. (IF x[1] = l THEN <<l, x[2] + 1>> ELSE x) = (IF y[1] = l THEN <<l, y[2] + 1>> ELSE y)
      BY <2>2
    <3> HIDE DEF f, S
    <3> QED
      BY <1>5, <3>1
  <2> QED
    BY <2>1, <2>2 DEF Injection, IsInjective
<1> HIDE DEF f
<1>7. IsFiniteSet(S) /\ Cardinality(S) <= Cardinality(T)
  BY <1>4, <1>6, FS_Injection
<1> QED
  BY <1>4, <1>7, FS_CardinalityType DEF Pending

\* A step keeps that.
LEMMA FadingStep ==
    ASSUME TypeOK, Fading, TypeOK', Next
    PROVE  Fading'
<1>0. /\ adds \in Nat /\ adds <= MaxAdds /\ MaxAdds \in Nat
      /\ late \in [Id -> Nat] /\ owed \in [Id -> Nat] /\ loop \in [Loop -> LoopType]
      /\ \A i \in Id : i \in Nat /\ i > 0 /\ i <= MaxAdds
  <2>1. adds \in Nat /\ adds <= MaxAdds /\ MaxAdds \in Nat
    BY Constants DEF TypeOK, CountsOK
  <2>2. late \in [Id -> Nat] /\ owed \in [Id -> Nat] /\ loop \in [Loop -> LoopType]
    BY DEF TypeOK, HistoryOK, LoopsOK
  <2>3. \A i \in Id : i \in Nat /\ i > 0 /\ i <= MaxAdds
    BY Constants DEF Id
  <2> QED
    BY <2>1, <2>2, <2>3
<1>1. ASSUME \A i \in Id : /\ Registered(i)' <=> Registered(i)
                           /\ Registered(i) \/ i > adds \/ Places(i)' \subseteq Places(i),
             UNCHANGED <<adds, owed, late>>
      PROVE  Fading'
  <2>1. LateOnlyAfter'
    BY <1>1 DEF Fading, LateOnlyAfter
  <2>2. ASSUME NEW i \in Id, i <= adds', ~Registered(i)'
        PROVE  late'[i] + Pending(i)' <= owed'[i]
    <3>1. Places(i)' \subseteq Places(i) /\ late[i] + Pending(i) <= owed[i]
      BY <1>0, <1>1, <2>2 DEF Fading, RemovedJobsFade
    <3>2. Pending(i) \in Nat /\ Pending(i)' \in Nat /\ Pending(i)' <= Pending(i)
      BY <3>1, FewerPlaces
    <3> QED
      BY <1>0, <1>1, <3>1, <3>2
  <2> QED
    BY <2>1, <2>2 DEF Fading, RemovedJobsFade
<1>2. ASSUME NEW c \in Caller, AddJob(c)
      PROVE  Fading'
  <2>1. PICK n \in Job, left \in {Passed, Interval}, enabled \in BOOLEAN :
            /\ ~Scheduled(n) /\ adds < MaxAdds /\ adds' = adds + 1
            /\ jobs' = [jobs EXCEPT ![n] = [id |-> adds', left |-> left, enabled |-> enabled]]
            /\ UNCHANGED <<loop, late, owed>>
    BY <1>2 DEF AddJob, history
  <2>2. jobs'[n].id = adds + 1 /\ \A m \in Job \ {n} : jobs'[m] = jobs[m]
    BY <2>1 DEF TypeOK, JobsOK
  <2>3. \A i \in Id : Registered(i)' <=> Registered(i) \/ i = adds + 1
    BY <1>0, <2>1, <2>2 DEF Registered, Scheduled
  <2>4. LateOnlyAfter'
    BY <1>0, <2>1, <2>3 DEF Fading, LateOnlyAfter
  <2>5. ASSUME NEW i \in Id, i <= adds', ~Registered(i)'
        PROVE  late'[i] + Pending(i)' <= owed'[i]
    <3>1. i <= adds /\ ~Registered(i)
      BY <1>0, <2>1, <2>3, <2>5
    <3>2. Pending(i)' = Pending(i)
      BY <2>1 DEF Pending, Places
    <3> QED
      BY <2>1, <3>1, <3>2 DEF Fading, RemovedJobsFade
  <2> QED
    BY <2>4, <2>5 DEF Fading, RemovedJobsFade
<1>3. ASSUME NEW c \in Caller, RemoveJob(c)
      PROVE  Fading'
  <2>1. PICK n \in Job : /\ Scheduled(n) /\ jobs' = [jobs EXCEPT ![n] = NoJob]
                         /\ owed' = [owed EXCEPT ![jobs[n].id] = Pending(jobs[n].id)]
    BY <1>3 DEF RemoveJob
  <2>2. UNCHANGED <<adds, loop, late>>
    BY <1>3 DEF RemoveJob
  <2>3. jobs'[n].id = 0 /\ \A m \in Job \ {n} : jobs'[m] = jobs[m]
    BY <2>1 DEF TypeOK, JobsOK, NoJob
  <2> DEFINE j == jobs[n].id
  <2>4. j \in Id /\ \A m \in Job : jobs[m].id = j => m = n
    BY <2>1, JobFacts DEF TypeOK, JobsOK, Scheduled
  <2>5. \A i \in Id : Registered(i)' <=> Registered(i) /\ i # j
    BY <1>0, <2>3, <2>4 DEF Registered
  <2>6. late[j] = 0
    BY <2>4 DEF Fading, LateOnlyAfter, Registered
  <2>7. LateOnlyAfter'
    BY <2>2, <2>5 DEF Fading, LateOnlyAfter
  <2>8. ASSUME NEW i \in Id, i <= adds', ~Registered(i)'
        PROVE  late'[i] + Pending(i)' <= owed'[i]
    <3>1. Pending(i)' = Pending(i) /\ Pending(i) \in Nat
      BY <2>2, PlacesFinite DEF Pending, Places
    <3>2. CASE i = j
      <4>1. owed'[i] = Pending(i)
        BY <1>0, <2>1, <2>4, <3>2
      <4> QED
        BY <2>2, <2>6, <3>1, <3>2, <4>1
    <3>3. CASE i # j
      <4>1. owed'[i] = owed[i] /\ ~Registered(i) /\ i <= adds
        BY <1>0, <2>1, <2>2, <2>5, <2>8, <3>3
      <4> QED
        BY <2>2, <3>1, <4>1 DEF Fading, RemovedJobsFade
    <3> QED
      BY <3>2, <3>3
  <2> QED
    BY <2>7, <2>8 DEF Fading, RemovedJobsFade
<1>4. ASSUME NEW c \in Caller, Start(c)
      PROVE  Fading'
  <2> DEFINE l == loops + 1
             d == [loop[l] EXCEPT !.pc = "check"]
  <2>1. l \in Loop /\ loop' = [loop EXCEPT ![l] = d] /\ UNCHANGED <<jobs, adds, owed, late>>
    BY <1>4, Constants DEF Start, Loop, TypeOK, CountsOK, history
  <2>2. d.due = <<>>
    <3>1. loop[l] \in LoopType /\ LoopOK(loop[l]) /\ loop[l].pc = "new"
      BY <2>1, Constants DEF TypeOK, LoopsOK, CountsOK
    <3> QED
      BY <3>1 DEF LoopOK, LoopType
  <2> HIDE DEF d
  <2>3. ASSUME NEW i \in Id
        PROVE  Places(i)' \subseteq Places(i)
    <3>1. \A k \in DOMAIN d.due : d.due[k] # i
      BY <2>2
    <3> QED
      BY <2>1, <3>1, NoNewPlaces
  <2> QED
    BY <1>1, <2>1, <2>3 DEF Registered
<1>5. ASSUME NEW l \in Loop, Check(l) \/ ReadClock(l) \/ WaitOver(l)
      PROVE  Fading'
  <2>1. PICK pc \in {"read", "scan", "check", "dead"} :
           Goto(l, pc) /\ loop[l].pc \in {"check", "read", "wait"}
    BY <1>5 DEF Check, ReadClock, WaitOver
  <2> DEFINE d == [loop[l] EXCEPT !.pc = pc]
  <2>2. loop' = [loop EXCEPT ![l] = d] /\ d.due = <<>>
    BY <2>1 DEF Goto, TypeOK, LoopsOK, LoopOK, LoopType
  <2> HIDE DEF d
  <2>3. ASSUME NEW i \in Id
        PROVE  Places(i)' \subseteq Places(i)
    <3>1. \A k \in DOMAIN d.due : d.due[k] # i
      BY <2>2
    <3> QED
      BY <2>2, <3>1, NoNewPlaces
  <2> QED
    BY <1>1, <1>5, <2>3 DEF Registered, Check, ReadClock, WaitOver, history
<1>6. ASSUME NEW l \in Loop, Scan(l)
      PROVE  Fading'
  <2>1. PICK due \in Listings(Due(age[l])) :
           loop' = [loop EXCEPT ![l] = [pc |-> IF due = <<>> THEN "wait" ELSE "run", due |-> due]]
    BY <1>6 DEF Scan, Claims
  <2> DEFINE d == [pc |-> IF due = <<>> THEN "wait" ELSE "run", due |-> due]
  <2>2. loop' = [loop EXCEPT ![l] = d] /\ d.due = due
    BY <2>1
  <2> HIDE DEF d
  <2>3. \A k \in DOMAIN due : Registered(due[k])
    <3> SUFFICES ASSUME NEW k \in DOMAIN due  PROVE Registered(due[k])
      OBVIOUS
    <3>1. PICK n \in Due(age[l]) : due[k] = jobs[n].id
      BY ListingFacts DEF TypeOK
    <3> QED
      BY <3>1 DEF Due, Registered
  <2>4. ASSUME NEW i \in Id, ~Registered(i)
        PROVE  Places(i)' \subseteq Places(i)
    BY <2>2, <2>3, <2>4, NoNewPlaces
  <2>5. \A i \in Id : Registered(i)' <=> Registered(i)
    <3>1. \A n \in Job : jobs'[n].id = jobs[n].id
      BY <1>6 DEF Scan, Moved, TypeOK, JobsOK, JobType
    <3> QED
      BY <3>1 DEF Registered
  <2>6. UNCHANGED <<adds, owed, late>>
    BY <1>6 DEF Scan
  <2> QED
    BY <1>1, <2>4, <2>5, <2>6
<1>7. ASSUME NEW l \in Loop, BeginRun(l)
      PROVE  Fading'
  <2> DEFINE j == Head(loop[l].due)
  <2>1. /\ late' = [late EXCEPT ![j] = IF Registered(j) THEN late[j] ELSE late[j] + 1]
        /\ UNCHANGED <<jobs, adds, owed>>
    BY <1>7 DEF BeginRun
  <2>2. j \in Id /\ j <= adds
    BY <1>7 DEF BeginRun, TypeOK, LoopsOK, LoopOK, LoopType
  <2> HIDE DEF j
  <2>3. \A i \in Id : Registered(i)' <=> Registered(i)
    BY <2>1 DEF Registered
  <2>4. \A i \in Id : late'[i] = IF i = j /\ ~Registered(j) THEN late[i] + 1 ELSE late[i]
    BY <1>0, <2>1, <2>2
  <2>5. LateOnlyAfter'
    BY <1>0, <2>1, <2>2, <2>3, <2>4 DEF Fading, LateOnlyAfter
  <2>6. ASSUME NEW i \in Id, i <= adds', ~Registered(i)'
        PROVE  late'[i] + Pending(i)' <= owed'[i]
    <3>1. late[i] + Pending(i) <= owed[i]
      BY <2>1, <2>3, <2>6 DEF Fading, RemovedJobsFade
    <3>2. /\ Pending(i) \in Nat /\ Pending(i)' \in Nat
          /\ Pending(i)' + (IF j = i THEN 1 ELSE 0) <= Pending(i)
      BY <1>7, BeginPlaces DEF j
    <3> QED
      BY <1>0, <2>1, <2>3, <2>4, <2>6, <3>1, <3>2
  <2> QED
    BY <2>5, <2>6 DEF Fading, RemovedJobsFade
<1>8. ASSUME NEW l \in Loop, EndRun(l)
      PROVE  Fading'
  <2>1. UNCHANGED <<jobs, adds, owed, late>>
    BY <1>8 DEF EndRun, history
  <2>2. ASSUME NEW i \in Id, i <= adds', ~Registered(i)'
        PROVE  late'[i] + Pending(i)' <= owed'[i]
    <3>1. late[i] + Pending(i) <= owed[i]
      BY <2>1, <2>2 DEF Fading, RemovedJobsFade, Registered
    <3>2. Pending(i) \in Nat /\ Pending(i)' \in Nat /\ Pending(i)' <= Pending(i)
      BY <1>8, EndPlaces
    <3> QED
      BY <1>0, <2>1, <3>1, <3>2
  <2>3. LateOnlyAfter'
    BY <2>1 DEF Fading, LateOnlyAfter, Registered
  <2> QED
    BY <2>2, <2>3 DEF Fading, RemovedJobsFade
<1>9. CASE Tick
  <2>1. \A n \in Job : jobs'[n].id = jobs[n].id
    BY <1>9 DEF Tick, TypeOK, JobsOK, JobType
  <2>2. \A i \in Id : Registered(i)' <=> Registered(i)
    BY <2>1 DEF Registered
  <2>3. \A i \in Id : Places(i)' = Places(i)
    BY <1>9 DEF Tick, Places
  <2> QED
    BY <1>1, <1>9, <2>2, <2>3 DEF Tick
<1>10. CASE UNCHANGED <<jobs, adds, owed, late, loop>>
  <2>1. \A i \in Id : Places(i)' = Places(i)
    BY <1>10 DEF Places
  <2> QED
    BY <1>1, <1>10, <2>1 DEF Registered
<1>11. \/ \E c \in Caller : AddJob(c) \/ RemoveJob(c) \/ Start(c)
       \/ \E l \in Loop : LoopStep(l)
       \/ Tick \/ UNCHANGED <<jobs, adds, owed, late, loop>>
  BY DEF Next, HostStep, StopTake, StopSignal, StopReturn, history
<1> QED
  BY <1>2, <1>3, <1>4, <1>5, <1>6, <1>7, <1>8, <1>9, <1>10, <1>11 DEF LoopStep

\* After remove_job() a spec runs at most as often as it was on a list of due
\* jobs: its runs begun late and its places still pending stay below that.
THEOREM RemovalCorrect == Spec => []RemovedJobsFade
<1>1. Init => Fading
  BY Constants DEF Init, Fading, LateOnlyAfter, RemovedJobsFade, Id
<1>2. TypeOK /\ TypeOK' /\ Fading /\ [Next]_vars => Fading'
  <2>1. ASSUME Fading, UNCHANGED vars  PROVE Fading'
    BY <2>1 DEF Fading, LateOnlyAfter, RemovedJobsFade, Registered, Pending, Places, vars, history
  <2> QED
    BY <2>1, FadingStep
<1>3. Fading => RemovedJobsFade
  BY DEF Fading
<1> QED
  BY <1>1, <1>2, <1>3, TypeCorrect, PTL DEF Spec
=============================================================================
