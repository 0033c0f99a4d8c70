-------------------------- MODULE TrajectoryProofs --------------------------
(***************************************************************************)
(* Theorems about Trajectory, for every set of contexts and trajectories   *)
(* and any number of recordings: the types, that current_trajectory        *)
(* follows the blocks, when a recording raises, that what is saved is      *)
(* complete, and what becomes of the spans.                                *)
(***************************************************************************)
EXTENDS Trajectory, TLAPS

\* A context in a block has an innermost one.
LEMMA InnermostType ==
    ASSUME TypeOK, NEW c \in Ctx, blocks[c] # <<>>
    PROVE  Innermost(c) \in Traj
  BY DEF TypeOK, Innermost

-----------------------------------------------------------------------------
(* The types                                                               *)

\* The types hold initially.
LEMMA TypeInit == Init => TypeOK
  BY TrajectoryAssumption
     DEF Init, TypeOK, Idle, NotSaved, Kind, StepRecord, Recording, Id

\* Entering a block keeps the types.
LEMMA EnterType ==
    ASSUME TypeOK, NEW c \in Ctx, NEW tr \in Traj, Enter(c, tr)  PROVE TypeOK'
  BY DEF TypeOK, Enter

\* Making a task keeps the types.
LEMMA SpawnType ==
    ASSUME TypeOK, NEW c \in Ctx, NEW d \in Ctx, Spawn(c, d)  PROVE TypeOK'
  BY DEF TypeOK, Spawn, exitVars

\* The beginning of an exit keeps the types: it lists the open spans and makes
\* the status final.
LEMMA ExitType ==
    ASSUME TypeOK, NEW c \in Ctx, NEW raised \in BOOLEAN, Exit(c, raised)
    PROVE  TypeOK'
<1> DEFINE tr == Innermost(c)
           after == WithError(tr, raised)
<1>1. tr \in Traj
  BY InnermostType DEF Exit
<1>2. after \in Seq(StepRecord) /\ Len(after) \in Nat
  <2>1. steps[tr] \in Seq(StepRecord)
    BY <1>1 DEF TypeOK
  <2>2. [kind |-> "ERROR", id |-> 0, call |-> 0] \in StepRecord
    BY TrajectoryAssumption DEF StepRecord, Kind
  <2> QED
    BY <2>1, <2>2 DEF WithError
<1>3. /\ current' = [current EXCEPT ![c] = token[tr]]
      /\ steps' = [steps EXCEPT ![tr] = after]
      /\ status' = [status EXCEPT ![tr] = IF raised THEN "FAILED" ELSE "SUCCESS"]
      /\ life' = [life EXCEPT ![tr] = "draining"]
      /\ drain' = [drain EXCEPT ![tr] = openSpans[tr]]
      /\ since' = [since EXCEPT ![tr].steps = Len(after)]
      /\ UNCHANGED <<started, base, blocks, token, saved, openSpans, spans, rec,
                     begun>>
  BY DEF Exit, LeaveScope
<1> HIDE DEF tr, after
<1>4. /\ current' \in [Ctx -> Traj \cup {NoTraj}]
      /\ steps' \in [Traj -> Seq(StepRecord)]
      /\ status' \in [Traj -> {"RUNNING", "SUCCESS", "FAILED"}]
      /\ life' \in [Traj -> {"new", "open", "draining", "saving", "closed"}]
      /\ drain' \in [Traj -> SUBSET Id]
  BY <1>1, <1>2, <1>3 DEF TypeOK
<1>5. since' \in [Traj -> [closed : 0..MaxSteps, steps : Nat]]
  BY <1>1, <1>2, <1>3 DEF TypeOK
<1>6. ASSUME NEW r \in Traj
      PROVE  /\ life'[r] # "draining" => drain'[r] = {}
             /\ status'[r] = "RUNNING" <=> life'[r] \in {"new", "open"}
  <2>1. CASE r = tr
    <3>1. status'[r] \in {"SUCCESS", "FAILED"} /\ life'[r] = "draining"
      BY <1>1, <1>3, <2>1 DEF TypeOK
    <3> QED
      BY <3>1
  <2>2. CASE r # tr
    <3>1. status'[r] = status[r] /\ life'[r] = life[r] /\ drain'[r] = drain[r]
      BY <1>1, <1>3, <2>2 DEF TypeOK
    <3> QED
      BY <3>1 DEF TypeOK
  <2> QED
    BY <2>1, <2>2
<1>7. /\ \A r \in Traj : \A i \in openSpans'[r] : spans'[i] # "none"
      /\ \A d \in Ctx : rec'[d].pc # "idle" => rec'[d].id # 0 /\ rec'[d].tr \in Traj
      /\ started' \subseteq Ctx
  BY <1>3 DEF TypeOK
<1>8. /\ UNCHANGED <<base, blocks, token, saved, openSpans, spans, rec, begun>>
  BY <1>3
<1> HIDE <1>3
<1> QED
  BY <1>4, <1>5, <1>6, <1>7, <1>8 DEF TypeOK

\* Ending a span on the exit keeps the types.
LEMMA DrainType ==
    ASSUME TypeOK, NEW c \in Ctx, Drain(c)  PROVE TypeOK'
<1> DEFINE tr == Innermost(c)
<1>1. tr \in Traj
  BY InnermostType DEF Drain
<1>2. PICK i \in drain[tr] :
          /\ spans' = [spans EXCEPT ![i] = IF @ = "open" THEN "orphaned" ELSE @]
          /\ openSpans' = [openSpans EXCEPT ![tr] = @ \ {i}]
          /\ drain' = [drain EXCEPT ![tr] = @ \ {i}]
  BY DEF Drain, Orphans, Ends
<1>3. UNCHANGED <<scopeVars, life, status, saved, since, steps, rec, begun>>
  BY DEF Drain
<1> HIDE DEF tr
<1>4. /\ openSpans' \in [Traj -> SUBSET Id]
      /\ drain' \in [Traj -> SUBSET Id]
      /\ spans' \in [Id -> {"none", "open", "ended", "orphaned"}]
  BY <1>1, <1>2 DEF TypeOK
<1>5. \A r \in Traj :
          /\ drain'[r] \subseteq drain[r] /\ openSpans'[r] \subseteq openSpans[r]
          /\ \A k \in Id : spans[k] # "none" => spans'[k] # "none"
  BY <1>1, <1>2 DEF TypeOK
<1>6. \A r \in Traj :
          /\ \A k \in openSpans'[r] : spans'[k] # "none"
          /\ life'[r] # "draining" => drain'[r] = {}
  BY <1>3, <1>4, <1>5 DEF TypeOK
<1> QED
  BY <1>3, <1>4, <1>6 DEF TypeOK, scopeVars

\* Closing the session keeps the types: nothing is left to drain.
LEMMA CloseType ==
    ASSUME TypeOK, NEW c \in Ctx, Close(c)  PROVE TypeOK'
  BY InnermostType DEF TypeOK, Close, Closes, scopeVars

\* Saving keeps the types: what is saved has a final status.
LEMMA SaveType ==
    ASSUME TypeOK, NEW c \in Ctx, Save(c)  PROVE TypeOK'
<1> DEFINE tr == Innermost(c)
<1>1. tr \in Traj /\ life[tr] = "saving" /\ blocks[c] \in Seq(Traj)
      /\ blocks[c] # <<>>
  BY InnermostType DEF Save, TypeOK
<1>2. Payload(tr) \in [status : {"none", "SUCCESS", "FAILED"},
                       steps : Seq(StepRecord)]
  <2> HIDE DEF tr
  <2> QED  BY <1>1 DEF TypeOK, Payload
<1>3. saved' \in [Traj -> [status : {"none", "SUCCESS", "FAILED"},
                           steps : Seq(StepRecord)]]
  <2>1. saved' = [saved EXCEPT ![tr] = Payload(tr)] \/ saved' = saved
    BY DEF Save
  <2> HIDE DEF tr
  <2> QED  BY <1>2, <2>1 DEF TypeOK
<1>4. blocks' \in [Ctx -> Seq(Traj)]
  <2>1. SubSeq(blocks[c], 1, Len(blocks[c]) - 1) \in Seq(Traj)
    BY <1>1
  <2> QED  BY <2>1 DEF Save, TypeOK
<1>5. /\ life' = [life EXCEPT ![tr] = "closed"]
      /\ UNCHANGED <<current, started, base, token, status, drain, since, steps,
                     openSpans, spans, rec, begun>>
  BY DEF Save
<1> HIDE DEF tr
<1>6. /\ life' \in [Traj -> {"new", "open", "draining", "saving", "closed"}]
      /\ \A r \in Traj : \/ life'[r] \in {"new", "open", "draining"}
                         \/ life[r] \in {"new", "open", "draining"}
                         => life'[r] = life[r]
  BY <1>1, <1>5 DEF TypeOK
<1> QED
  BY <1>3, <1>4, <1>5, <1>6 DEF TypeOK

\* The beginning of a recording, given the types of the steps after it.
LEMMA BeginsType ==
    ASSUME TypeOK, NEW c \in Ctx, NEW tr \in Traj,
           NEW kind \in {"STEP", "ERROR", "CALL", "RESULT"},
           NEW call \in 0..MaxSteps,
           NEW pc \in {"check", "start", "append", "pop"},
           Begins(c, tr, kind, call, pc), steps' \in [Traj -> Seq(StepRecord)]
    PROVE  TypeOK' /\ begun' \in Id
<1> DEFINE r == [pc |-> pc, tr |-> tr, kind |-> kind, id |-> begun',
                 call |-> call]
<1>1. begun' \in Id /\ begun' \in 0..MaxSteps /\ begun' # 0
  BY TrajectoryAssumption DEF Begins, TypeOK, Id
<1>2. r.pc # "idle" /\ r.id # 0 /\ r.tr \in Traj
  BY <1>1
<1>3. r \in Recording
  BY <1>1 DEF Kind, Recording
<1>4. /\ rec' = [rec EXCEPT ![c] = r]
      /\ UNCHANGED <<scopeVars, exitVars, openSpans, spans>>
  BY DEF Begins
<1> HIDE DEF r
<1> QED
  BY <1>1, <1>2, <1>3, <1>4 DEF TypeOK, scopeVars, exitVars

\* Adding a step keeps the types.
LEMMA AddStepType ==
    ASSUME TypeOK, NEW c \in Ctx, NEW tr \in Traj, AddStep(c, tr)  PROVE TypeOK'
<1>1. begun' \in 0..MaxSteps /\ begun' = begun + 1
  BY TrajectoryAssumption DEF AddStep, Begins, TypeOK
<1>2. PICK kind \in {"STEP", "ERROR"} :
          Begins(c, tr, kind, 0, "check") /\ AddTo(tr, kind, begun', 0)
  BY DEF AddStep
<1>3. [kind |-> kind, id |-> begun', call |-> 0] \in StepRecord
  BY <1>1, TrajectoryAssumption DEF StepRecord, Kind
<1>4. steps' \in [Traj -> Seq(StepRecord)]
  BY <1>2, <1>3 DEF AddTo, TypeOK
<1> QED
  BY <1>2, <1>4, BeginsType, TrajectoryAssumption

\* Beginning to record a call keeps the types.
LEMMA RecordCallType ==
    ASSUME TypeOK, NEW c \in Ctx, NEW tr \in Traj, RecordCall(c, tr)
    PROVE  TypeOK'
<1>1. steps' \in [Traj -> Seq(StepRecord)]
  BY DEF RecordCall, TypeOK
<1>2. CASE HasSpan(tr)
  BY <1>1, <1>2, BeginsType, TrajectoryAssumption DEF RecordCall
<1>3. CASE ~HasSpan(tr)
  BY <1>1, <1>3, BeginsType, TrajectoryAssumption DEF RecordCall
<1> QED
  BY <1>2, <1>3

\* Beginning to record a result keeps the types.
LEMMA RecordResultType ==
    ASSUME TypeOK, NEW c \in Ctx, NEW tr \in Traj, RecordResult(c, tr)
    PROVE  TypeOK'
<1>1. steps' \in [Traj -> Seq(StepRecord)]
  BY DEF RecordResult, TypeOK
<1>2. PICK k \in DOMAIN steps[tr] :
          Begins(c, tr, "RESULT", steps[tr][k].id,
                 IF HasSpan(tr) THEN "pop" ELSE "append")
  BY DEF RecordResult
<1>3. steps[tr][k].id \in 0..MaxSteps
  <2>1. steps[tr] \in Seq(StepRecord)
    BY DEF TypeOK
  <2>2. steps[tr][k] \in StepRecord
    BY <1>2, <2>1
  <2> QED
    BY <2>2 DEF StepRecord
<1>4. CASE HasSpan(tr)
  BY <1>1, <1>2, <1>3, <1>4, BeginsType
<1>5. CASE ~HasSpan(tr)
  BY <1>1, <1>2, <1>3, <1>5, BeginsType
<1> QED
  BY <1>4, <1>5

\* Where the recording goes keeps its type.
LEMMA GoesType ==
    ASSUME TypeOK, NEW c \in Ctx,
           NEW pc \in {"check", "event", "start", "append", "pop", "end", "raised"},
           rec[c].pc # "idle", Goes(c, pc)
    PROVE  /\ rec' \in [Ctx -> Recording]
           /\ \A d \in Ctx : rec'[d].pc # "idle" =>
                                 rec'[d].id # 0 /\ rec'[d].tr \in Traj
           /\ \A d \in Ctx : /\ rec'[d].id = rec[d].id /\ rec'[d].tr = rec[d].tr
                             /\ d # c => rec'[d] = rec[d]
           /\ rec'[c].pc = pc
<1>1. rec[c].id # 0 /\ rec[c].tr \in Traj
  BY DEF TypeOK
<1>2. rec' = [rec EXCEPT ![c].pc = pc]
  BY DEF Goes
<1>3. rec' \in [Ctx -> Recording]
  <2>1. [rec[c] EXCEPT !.pc = pc] \in Recording
    <3>1. ASSUME NEW q \in Recording  PROVE [q EXCEPT !.pc = pc] \in Recording
      BY DEF Recording
    <3>2. rec[c] \in Recording
      BY DEF TypeOK
    <3> QED
      BY <3>1, <3>2
  <2>2. rec' = [rec EXCEPT ![c] = [rec[c] EXCEPT !.pc = pc]]
    BY <1>2
  <2> QED
    BY <2>1, <2>2 DEF TypeOK
<1>4. \A d \in Ctx : d # c => rec'[d] = rec[d]
  BY <1>2 DEF TypeOK
<1>5. rec'[c].id = rec[c].id /\ rec'[c].tr = rec[c].tr /\ rec'[c].pc = pc
  BY <1>2 DEF TypeOK
<1>6. \A d \in Ctx : rec'[d].id = rec[d].id /\ rec'[d].tr = rec[d].tr
  BY <1>4, <1>5
<1>7. ASSUME NEW d \in Ctx, rec'[d].pc # "idle"
      PROVE  rec'[d].id # 0 /\ rec'[d].tr \in Traj
  <2>1. CASE d = c
    BY <1>1, <1>5, <2>1
  <2>2. CASE d # c
    <3>1. rec'[d] = rec[d]
      BY <1>4, <2>2
    <3> QED
      BY <1>7, <3>1 DEF TypeOK
  <2> QED
    BY <2>1, <2>2
<1> QED
  BY <1>3, <1>4, <1>5, <1>6, <1>7

\* The end of a recording keeps its type.
LEMMA RestType ==
    ASSUME TypeOK, NEW c \in Ctx, rec' = [rec EXCEPT ![c] = Idle]
    PROVE  /\ rec' \in [Ctx -> Recording]
           /\ \A d \in Ctx : rec'[d].pc # "idle" =>
                                 rec'[d].id # 0 /\ rec'[d].tr \in Traj
<1>1. Idle \in Recording /\ Idle.pc = "idle"
  BY TrajectoryAssumption DEF Idle, Kind, Recording
<1> QED
  BY <1>1 DEF TypeOK

\* The steps of a recording after its first keep the types.
LEMMA RecordingType ==
    ASSUME TypeOK, NEW c \in Ctx,
           \/ CheckSpan(c) \/ AddEvent(c) \/ StartSpan(c) \/ PopSpan(c)
           \/ EndSpan(c) \/ AppendStep(c) \/ Catch(c)
    PROVE  TypeOK'
<1> DEFINE r == rec[c]
<1>1. CASE CheckSpan(c)
  BY <1>1, GoesType, RestType DEF CheckSpan, Checks, TypeOK, scopeVars, exitVars
<1>2. CASE AddEvent(c)
  BY <1>2, GoesType, RestType DEF AddEvent, TypeOK, scopeVars, exitVars
<1>3. CASE StartSpan(c)
  <2>1. r.id \in Id /\ r.tr \in Traj
    <3>1. r \in Recording /\ r.id # 0 /\ r.tr \in Traj
      BY <1>3 DEF StartSpan, TypeOK
    <3>2. r.id \in 0..MaxSteps
      BY <3>1 DEF Recording
    <3> HIDE DEF r
    <3> QED
      BY <3>1, <3>2, TrajectoryAssumption DEF Id
  <2>2. /\ spans' = [spans EXCEPT ![r.id] = "open"]
        /\ openSpans' = [openSpans EXCEPT ![r.tr] = @ \cup {r.id}]
        /\ UNCHANGED <<scopeVars, exitVars, steps, begun>>
    BY <1>3 DEF StartSpan
  <2>3. /\ spans' \in [Id -> {"none", "open", "ended", "orphaned"}]
        /\ openSpans' \in [Traj -> SUBSET Id]
        /\ \A t \in Traj : \A i \in openSpans'[t] : spans'[i] # "none"
    <3> HIDE DEF r
    <3> QED  BY <2>1, <2>2 DEF TypeOK
  <2>4. rec[c].pc # "idle" /\ Goes(c, "append")
    BY <1>3 DEF StartSpan
  <2> HIDE DEF r
  <2> QED
    BY <2>2, <2>3, <2>4, GoesType DEF TypeOK, scopeVars, exitVars
<1>4. CASE PopSpan(c)
  <2>1. /\ r.tr \in Traj
        /\ openSpans' = [openSpans EXCEPT ![r.tr] = @ \ {r.call}]
        /\ UNCHANGED <<scopeVars, exitVars, steps, spans, begun>>
    BY <1>4 DEF PopSpan, TypeOK, Recording
  <2>2. /\ openSpans' \in [Traj -> SUBSET Id]
        /\ \A t \in Traj : openSpans'[t] \subseteq openSpans[t]
    <3> HIDE DEF r
    <3> QED  BY <2>1 DEF TypeOK
  <2>4. /\ \A t \in Traj : \A i \in openSpans'[t] : spans'[i] # "none"
        /\ spans' = spans
    BY <2>1, <2>2 DEF TypeOK
  <2>3. PICK pc \in {"end", "append"} : Goes(c, pc)
    BY <1>4 DEF PopSpan
  <2>5. rec[c].pc # "idle"
    BY <1>4 DEF PopSpan
  <2>6. /\ rec' \in [Ctx -> Recording]
        /\ \A d \in Ctx : rec'[d].pc # "idle" =>
                              rec'[d].id # 0 /\ rec'[d].tr \in Traj
    BY <2>3, <2>5, GoesType
  <2> HIDE DEF r
  <2> QED
    BY <2>1, <2>2, <2>4, <2>6 DEF TypeOK, scopeVars, exitVars
<1>5. CASE EndSpan(c)
  <2>1. /\ spans' \in [Id -> {"none", "open", "ended", "orphaned"}]
        /\ \A i \in Id : spans[i] # "none" => spans'[i] # "none"
    BY <1>5 DEF EndSpan, Ends, TypeOK
  <2>2. rec[c].pc # "idle" /\ Goes(c, "append")
    BY <1>5 DEF EndSpan
  <2>3. UNCHANGED <<scopeVars, exitVars, steps, openSpans, begun>>
    BY <1>5 DEF EndSpan
  <2> QED
    BY <2>1, <2>2, <2>3, GoesType DEF TypeOK, scopeVars, exitVars
<1>6. CASE AppendStep(c)
  <2>1. /\ r.tr \in Traj /\ steps[r.tr] \in Seq(StepRecord)
        /\ [kind |-> r.kind, id |-> r.id, call |-> r.call] \in StepRecord
    BY <1>6 DEF AppendStep, TypeOK, StepRecord, Recording
  <2>2. steps' \in [Traj -> Seq(StepRecord)]
    <3>1. steps' = [steps EXCEPT ![r.tr] =
            Append(@, [kind |-> r.kind, id |-> r.id, call |-> r.call])]
      BY <1>6 DEF AppendStep, AddTo
    <3> DEFINE s == [kind |-> r.kind, id |-> r.id, call |-> r.call]
    <3> HIDE DEF s, r
    <3> QED  BY <2>1, <3>1 DEF TypeOK, s
  <2>3. /\ rec' = [rec EXCEPT ![c] = Idle]
        /\ UNCHANGED <<scopeVars, exitVars, openSpans, spans, begun>>
    BY <1>6 DEF AppendStep
  <2> QED
    BY <2>2, <2>3, RestType DEF TypeOK, scopeVars, exitVars
<1>7. CASE Catch(c)
  BY <1>7, RestType DEF Catch, TypeOK, scopeVars, exitVars
<1> QED
  BY <1>1, <1>2, <1>3, <1>4, <1>5, <1>6, <1>7

\* Every step keeps the types.
LEMMA TypeNext == TypeOK /\ [Next]_vars => TypeOK'
<1> SUFFICES ASSUME TypeOK, [Next]_vars  PROVE TypeOK'
  OBVIOUS
<1>1. CASE UNCHANGED vars
  BY <1>1 DEF TypeOK, vars, scopeVars, exitVars
<1>2. ASSUME NEW c \in Ctx, NEW tr \in Traj, Enter(c, tr)  PROVE TypeOK'
  BY <1>2, EnterType
<1>3. ASSUME NEW c \in Ctx, NEW d \in Ctx, Spawn(c, d)  PROVE TypeOK'
  BY <1>3, SpawnType
<1>4. ASSUME NEW c \in Ctx, NEW raised \in BOOLEAN, Exit(c, raised)  PROVE TypeOK'
  BY <1>4, ExitType
<1>5. ASSUME NEW c \in Ctx, Drain(c) \/ Close(c) \/ Save(c)  PROVE TypeOK'
  BY <1>5, DrainType, CloseType, SaveType
<1>6. ASSUME NEW c \in Ctx, RecordStep(c)  PROVE TypeOK'
  BY <1>6, AddStepType, RecordCallType, RecordResultType, RecordingType
     DEF RecordStep
<1> QED
  BY <1>1, <1>2, <1>3, <1>4, <1>5, <1>6 DEF Next

\* The types hold in every state of the system, whatever the contexts, the
\* trajectories and the number of recordings.
THEOREM TypeCorrect == Spec => []TypeOK
  BY TypeInit, TypeNext, PTL DEF Spec

-----------------------------------------------------------------------------
(* When a recording raises                                                 *)

\* A list with one more step.
LEMMA Appended ==
    ASSUME TypeOK, NEW tr \in Traj, NEW s \in StepRecord,
           steps' = [steps EXCEPT ![tr] = Append(@, s)]
    PROVE  /\ Len(steps[tr]) \in Nat
           /\ Len(steps'[tr]) = Len(steps[tr]) + 1
           /\ steps'[tr][Len(steps[tr]) + 1] = s
           /\ \A k \in 1..Len(steps[tr]) : steps'[tr][k] = steps[tr][k]
           /\ \A q \in Traj : q # tr => steps'[q] = steps[q]
<1>1. steps[tr] \in Seq(StepRecord) /\ steps'[tr] = Append(steps[tr], s)
  BY DEF TypeOK
<1> QED
  BY <1>1 DEF TypeOK

\* A recording has a number that was given out; a session that is not closed
\* yet is closed after any of them; what found the session's span open began
\* before it was closed.
RaisesInv ==
    /\ \A c \in Ctx : rec[c].id <= begun
    /\ \A tr \in Traj : life[tr] \in {"new", "open", "draining"} =>
                            since[tr].closed = MaxSteps
    /\ \A c \in Ctx : rec[c].pc \in {"event", "raised"} =>
                            rec[c].id <= since[rec[c].tr].closed

\* No recording is being made initially.
LEMMA RaisesInit == Init => RaisesInv
  BY TrajectoryAssumption DEF Init, RaisesInv, Idle

\* Entering and leaving a block keep RaisesInv: only Close changes when a
\* session was closed, and no number is beyond those begun by then.
LEMMA ScopeKeepsRaises ==
    ASSUME TypeOK, RaisesInv, NEW c \in Ctx,
           \/ \E tr \in Traj : Enter(c, tr)
           \/ \E d \in Ctx : Spawn(c, d)
           \/ \E raised \in BOOLEAN : Exit(c, raised)
           \/ Drain(c) \/ Close(c) \/ Save(c)
    PROVE  RaisesInv'
<1>1. CASE \E tr \in Traj : Enter(c, tr)
  BY <1>1 DEF TypeOK, RaisesInv, Enter
<1>2. CASE \E d \in Ctx : Spawn(c, d)
  BY <1>2 DEF RaisesInv, Spawn, exitVars
<1>3. ASSUME NEW raised \in BOOLEAN, Exit(c, raised)  PROVE RaisesInv'
  <2>1. /\ Innermost(c) \in Traj /\ life[Innermost(c)] = "open"
        /\ life' = [life EXCEPT ![Innermost(c)] = "draining"]
        /\ since' = [since EXCEPT ![Innermost(c)].steps =
                        Len(WithError(Innermost(c), raised))]
        /\ rec' = rec /\ begun' = begun
    BY <1>3, InnermostType DEF Exit, Free
  <2>2. \A tr \in Traj : since'[tr].closed = since[tr].closed
    BY <2>1 DEF TypeOK
  <2>3. \A tr \in Traj : life'[tr] \in {"new", "open", "draining"} =>
                            life[tr] \in {"new", "open", "draining"}
    BY <2>1 DEF TypeOK
  <2>4. \A d \in Ctx : rec[d].pc \in {"event", "raised"} => rec[d].tr \in Traj
    BY DEF TypeOK
  <2> QED
    BY <2>1, <2>2, <2>3, <2>4 DEF RaisesInv
<1>4. CASE Drain(c)
  BY <1>4 DEF RaisesInv, Drain
<1>5. CASE Close(c)
  <2>1. /\ Innermost(c) \in Traj
        /\ life' = [life EXCEPT ![Innermost(c)] = "saving"]
        /\ since' = [since EXCEPT ![Innermost(c)].closed = begun]
        /\ rec' = rec /\ begun' = begun
    BY <1>5, InnermostType DEF Close, Closes
  <2>2. \A tr \in Traj : since'[tr].closed =
                            IF tr = Innermost(c) THEN begun ELSE since[tr].closed
    BY <2>1 DEF TypeOK
  <2>3. \A tr \in Traj : life'[tr] = IF tr = Innermost(c) THEN "saving" ELSE life[tr]
    BY <2>1 DEF TypeOK
  <2>4. \A d \in Ctx : rec[d].pc \in {"event", "raised"} => rec[d].tr \in Traj
    BY DEF TypeOK
  <2> QED
    BY <2>1, <2>2, <2>3, <2>4 DEF RaisesInv
<1>6. CASE Save(c)
  BY <1>6, InnermostType DEF TypeOK, RaisesInv, Save
<1> QED
  BY <1>1, <1>2, <1>3, <1>4, <1>5, <1>6

\* A recording begins with the last number and without having seen a span open.
LEMMA BeginsKeepsRaises ==
    ASSUME TypeOK, RaisesInv, NEW c \in Ctx, NEW tr \in Traj, NEW kind, NEW call,
           NEW pc \in {"check", "start", "append", "pop"},
           Begins(c, tr, kind, call, pc)
    PROVE  RaisesInv'
<1> DEFINE r == [pc |-> pc, tr |-> tr, kind |-> kind, id |-> begun', call |-> call]
<1>1. /\ rec' = [rec EXCEPT ![c] = r] /\ begun' = begun + 1
      /\ life' = life /\ since' = since
  BY DEF Begins, exitVars
<1>2. r.id = begun' /\ r.pc = pc
  OBVIOUS
<1> HIDE DEF r
<1>3. \A d \in Ctx : rec'[d] = IF d = c THEN r ELSE rec[d]
  BY <1>1 DEF TypeOK
<1>4. \A d \in Ctx : rec[d].id \in Nat /\ begun \in Nat
  BY TrajectoryAssumption DEF TypeOK, Recording
<1>5. \A d \in Ctx : rec'[d].id <= begun'
  BY <1>1, <1>2, <1>3, <1>4 DEF RaisesInv
<1>6. \A d \in Ctx : rec'[d].pc \in {"event", "raised"} => rec'[d] = rec[d]
  BY <1>2, <1>3
<1> QED
  BY <1>1, <1>5, <1>6 DEF RaisesInv

\* The other steps of a recording keep RaisesInv: the span they find open was
\* not closed before they began.
LEMMA RecordingKeepsRaises ==
    ASSUME TypeOK, RaisesInv, NEW c \in Ctx,
           \/ CheckSpan(c) \/ AddEvent(c) \/ StartSpan(c) \/ PopSpan(c)
           \/ EndSpan(c) \/ AppendStep(c) \/ Catch(c)
    PROVE  RaisesInv'
<1>1. life' = life /\ since' = since /\ begun' = begun
  BY DEF CheckSpan, AddEvent, StartSpan, PopSpan, EndSpan, AppendStep, Catch, exitVars
<1>2. ASSUME rec' = [rec EXCEPT ![c] = Idle]  PROVE RaisesInv'
  <2>1. \A d \in Ctx : rec'[d] = IF d = c THEN Idle ELSE rec[d]
    BY <1>2 DEF TypeOK
  <2>2. Idle.id = 0 /\ Idle.pc = "idle" /\ 0 <= begun
    BY TrajectoryAssumption DEF Idle, TypeOK
  <2>3. \A d \in Ctx : rec'[d].id <= begun'
    BY <1>1, <2>1, <2>2 DEF RaisesInv
  <2>4. \A d \in Ctx : rec'[d].pc \in {"event", "raised"} => rec'[d] = rec[d]
    BY <2>1, <2>2
  <2> QED
    BY <1>1, <2>3, <2>4 DEF RaisesInv
<1>3. ASSUME NEW pc \in {"check", "event", "start", "append", "pop", "end", "raised"},
             Goes(c, pc), rec[c].pc # "idle",
             pc \in {"event", "raised"} => rec[c].id <= since[rec[c].tr].closed
      PROVE  RaisesInv'
  <2>1. /\ \A d \in Ctx : /\ rec'[d].id = rec[d].id /\ rec'[d].tr = rec[d].tr
                          /\ d # c => rec'[d] = rec[d]
        /\ rec'[c].pc = pc
    BY <1>3, GoesType
  <2>2. \A d \in Ctx : rec'[d].pc \in {"event", "raised"} =>
                          rec[d].id <= since[rec[d].tr].closed
    BY <1>3, <2>1 DEF RaisesInv
  <2> QED
    BY <1>1, <2>1, <2>2 DEF RaisesInv
<1>4. CASE CheckSpan(c)
  <2>1. CASE HasSpan(rec[c].tr)
    <3>1. rec[c].tr \in Traj /\ rec[c].id <= MaxSteps /\ rec[c].pc # "idle"
      BY <1>4, TrajectoryAssumption DEF CheckSpan, TypeOK, Recording
    <3>2. since[rec[c].tr].closed = MaxSteps
      BY <2>1, <3>1 DEF RaisesInv, HasSpan
    <3> QED
      BY <1>3, <1>4, <2>1, <3>1, <3>2 DEF CheckSpan, Checks
  <2>2. CASE ~HasSpan(rec[c].tr)
    BY <1>2, <1>4, <2>2 DEF CheckSpan, Checks
  <2> QED
    BY <2>1, <2>2
<1>5. CASE AddEvent(c)
  BY <1>2, <1>3, <1>5 DEF AddEvent, RaisesInv
<1>6. CASE StartSpan(c)
  BY <1>3, <1>6 DEF StartSpan
<1>7. CASE PopSpan(c)
  BY <1>3, <1>7 DEF PopSpan
<1>8. CASE EndSpan(c)
  BY <1>3, <1>8 DEF EndSpan
<1>9. CASE AppendStep(c) \/ Catch(c)
  BY <1>2, <1>9 DEF AppendStep, Catch
<1> QED
  BY <1>4, <1>5, <1>6, <1>7, <1>8, <1>9

\* Every step keeps RaisesInv.
LEMMA RaisesNext == TypeOK /\ RaisesInv /\ [Next]_vars => RaisesInv'
<1> SUFFICES ASSUME TypeOK, RaisesInv, [Next]_vars  PROVE RaisesInv'
  OBVIOUS
<1>1. CASE UNCHANGED vars
  BY <1>1 DEF RaisesInv, vars, exitVars
<1>2. ASSUME NEW c \in Ctx, NEW tr \in Traj,
             AddStep(c, tr) \/ RecordCall(c, tr) \/ RecordResult(c, tr)
      PROVE  RaisesInv'
  <2>1. \E kind, call : \E pc \in {"check", "start", "append", "pop"} :
            Begins(c, tr, kind, call, pc)
    <3>1. CASE AddStep(c, tr)
      BY <3>1 DEF AddStep
    <3>2. CASE RecordCall(c, tr)
      <4>1. Begins(c, tr, "CALL", 0, "start") \/ Begins(c, tr, "CALL", 0, "append")
        BY <3>2 DEF RecordCall
      <4> QED
        BY <4>1
    <3>3. CASE RecordResult(c, tr)
      <4>1. PICK k \in DOMAIN steps[tr] :
                \/ Begins(c, tr, "RESULT", steps[tr][k].id, "pop")
                \/ Begins(c, tr, "RESULT", steps[tr][k].id, "append")
        BY <3>3 DEF RecordResult
      <4> QED
        BY <4>1
    <3> QED
      BY <1>2, <3>1, <3>2, <3>3
  <2> QED
    BY <2>1, BeginsKeepsRaises
<1> QED
  BY <1>1, <1>2, ScopeKeepsRaises, RecordingKeepsRaises DEF Next, RecordStep

\* The step numbered i is among those of the trajectory.
Listed(tr, i) == \E k \in DOMAIN steps[tr] : steps[tr][k].id = i

\* What asks for the span of the session has recorded its step.
ListedInv ==
    \A c \in Ctx : rec[c].pc \in {"check", "event", "raised"} =>
                      Listed(rec[c].tr, rec[c].id)

\* A list that has one more step has the numbers it had, and that one.
LEMMA ListedGrows ==
    ASSUME TypeOK, NEW tr \in Traj, NEW s \in StepRecord,
           steps' = [steps EXCEPT ![tr] = Append(@, s)]
    PROVE  /\ \A q \in Traj : \A i : Listed(q, i) => Listed(q, i)'
           /\ Listed(tr, s.id)'
<1> DEFINE n == Len(steps[tr])
<1>1. /\ n \in Nat /\ Len(steps'[tr]) = n + 1 /\ steps'[tr][n + 1] = s
      /\ \A k \in 1..n : steps'[tr][k] = steps[tr][k]
      /\ \A q \in Traj : q # tr => steps'[q] = steps[q]
  BY Appended
<1>2. /\ DOMAIN steps[tr] = 1..n /\ DOMAIN steps'[tr] = 1..(n + 1)
  <2>1. steps[tr] \in Seq(StepRecord) /\ steps'[tr] = Append(steps[tr], s)
    BY DEF TypeOK
  <2> QED
    BY <2>1
<1> HIDE DEF n
<1>3. \A k \in 1..n : k \in 1..(n + 1)
  BY <1>1
<1>4. n + 1 \in 1..(n + 1)
  BY <1>1
<1>5. ASSUME NEW q \in Traj, NEW i, Listed(q, i)  PROVE Listed(q, i)'
  <2>1. CASE q = tr
    BY <1>1, <1>2, <1>3, <1>5, <2>1 DEF Listed
  <2>2. CASE q # tr
    BY <1>1, <1>5, <2>2 DEF Listed
  <2> QED
    BY <2>1, <2>2
<1>6. Listed(tr, s.id)'
  BY <1>1, <1>2, <1>4 DEF Listed
<1> QED
  BY <1>5, <1>6

\* What is recorded stays recorded.
LEMMA ListedStays ==
    ASSUME TypeOK, [Next]_vars
    PROVE  \A q \in Traj : \A i : Listed(q, i) => Listed(q, i)'
<1>1. ASSUME steps' = steps  PROVE \A q \in Traj : \A i : Listed(q, i) => Listed(q, i)'
  BY <1>1 DEF Listed
<1>2. ASSUME NEW c \in Ctx, NEW raised \in BOOLEAN, Exit(c, raised)
      PROVE  \A q \in Traj : \A i : Listed(q, i) => Listed(q, i)'
  <2>1. PICK tr : tr = Innermost(c)
    OBVIOUS
  <2>2. tr \in Traj /\ steps' = [steps EXCEPT ![tr] = WithError(tr, raised)]
    BY <1>2, <2>1, InnermostType DEF Exit
  <2>3. PICK s : s = [kind |-> "ERROR", id |-> 0, call |-> 0]
    OBVIOUS
  <2>4. s \in StepRecord
    BY <2>3, TrajectoryAssumption DEF StepRecord, Kind
  <2>5. CASE raised
    <3>1. steps' = [steps EXCEPT ![tr] = Append(@, s)]
      BY <2>2, <2>3, <2>5 DEF WithError
    <3> QED
      BY <2>2, <2>4, <3>1, ListedGrows
  <2>6. CASE ~raised
    <3>1. steps' = steps
      BY <2>2, <2>6 DEF WithError, TypeOK
    <3> QED
      BY <1>1, <3>1
  <2> QED
    BY <2>5, <2>6
<1>3. ASSUME NEW c \in Ctx, NEW tr \in Traj, AddStep(c, tr)
      PROVE  \A q \in Traj : \A i : Listed(q, i) => Listed(q, i)'
  <2>1. PICK kind \in {"STEP", "ERROR"} :
            Begins(c, tr, kind, 0, "check") /\ AddTo(tr, kind, begun', 0)
    BY <1>3 DEF AddStep
  <2>2. PICK s : s = [kind |-> kind, id |-> begun', call |-> 0]
    OBVIOUS
  <2>3. s \in StepRecord
    BY <2>1, <2>2, TrajectoryAssumption DEF Begins, TypeOK, StepRecord, Kind
  <2>4. steps' = [steps EXCEPT ![tr] = Append(@, s)]
    BY <2>1, <2>2 DEF AddTo
  <2> QED
    BY <2>3, <2>4, ListedGrows
<1>4. ASSUME NEW c \in Ctx, AppendStep(c)
      PROVE  \A q \in Traj : \A i : Listed(q, i) => Listed(q, i)'
  <2>1. PICK r : r = rec[c]
    OBVIOUS
  <2>2. PICK s : s = [kind |-> r.kind, id |-> r.id, call |-> r.call]
    OBVIOUS
  <2>3. r \in Recording /\ r.tr \in Traj
    BY <1>4, <2>1 DEF AppendStep, TypeOK
  <2>4. s \in StepRecord
    BY <2>2, <2>3 DEF Recording, StepRecord
  <2>5. steps' = [steps EXCEPT ![r.tr] = Append(@, s)]
    BY <1>4, <2>1, <2>2 DEF AppendStep, AddTo
  <2> QED
    BY <2>3, <2>4, <2>5, ListedGrows
<1>5. CASE UNCHANGED vars
  BY <1>1, <1>5 DEF vars
<1>6. ASSUME NEW c \in Ctx,
             \/ \E tr \in Traj : Enter(c, tr) \/ RecordCall(c, tr)
                                 \/ RecordResult(c, tr)
             \/ \E d \in Ctx : Spawn(c, d)
             \/ Drain(c) \/ Close(c) \/ Save(c)
             \/ CheckSpan(c) \/ AddEvent(c) \/ StartSpan(c) \/ PopSpan(c)
             \/ EndSpan(c) \/ Catch(c)
      PROVE  steps' = steps
  BY <1>6 DEF Enter, RecordCall, RecordResult, Spawn, Drain, Close, Closes, Save,
              CheckSpan, AddEvent, StartSpan, PopSpan, EndSpan, Catch
<1> QED
  BY <1>1, <1>2, <1>3, <1>4, <1>5, <1>6 DEF Next, RecordStep

\* Every step keeps ListedInv: add_step appends before it asks for the span, and
\* no other recording asks for it.
LEMMA ListedNext == TypeOK /\ ListedInv /\ [Next]_vars => ListedInv'
<1> SUFFICES ASSUME TypeOK, ListedInv, [Next]_vars  PROVE ListedInv'
  OBVIOUS
<1>1. \A q \in Traj : \A i : Listed(q, i) => Listed(q, i)'
  BY ListedStays
<1>2. ASSUME NEW d \in Ctx, rec'[d].pc \in {"check", "event", "raised"},
             rec'[d].id = rec[d].id, rec'[d].tr = rec[d].tr,
             rec[d].pc \in {"check", "event", "raised"}
      PROVE  Listed(rec[d].tr, rec[d].id)'
  <2>1. PICK q \in Traj : q = rec[d].tr
    BY <1>2 DEF TypeOK
  <2>2. PICK i : i = rec[d].id
    OBVIOUS
  <2>3. Listed(q, i)'
    BY <1>1, <1>2, <2>1, <2>2 DEF ListedInv
  <2>4. rec'[d].tr = q /\ rec'[d].id = i
    BY <1>2, <2>1, <2>2
  <2> QED
    BY <2>3, <2>4 DEF Listed
<1>3. ASSUME rec' = rec  PROVE ListedInv'
  BY <1>2, <1>3 DEF ListedInv
<1>4. ASSUME NEW c \in Ctx, \A d \in Ctx : d # c => rec'[d] = rec[d],
             rec'[c].pc \notin {"check", "event", "raised"}
      PROVE  ListedInv'
  BY <1>2, <1>4 DEF ListedInv
<1>5. ASSUME NEW c \in Ctx, NEW tr \in Traj, AddStep(c, tr)  PROVE ListedInv'
  <2>1. PICK kind \in {"STEP", "ERROR"} :
            Begins(c, tr, kind, 0, "check") /\ AddTo(tr, kind, begun', 0)
    BY <1>5 DEF AddStep
  <2>2. PICK s : s = [kind |-> kind, id |-> begun', call |-> 0]
    OBVIOUS
  <2>3. s \in StepRecord
    BY <2>1, <2>2, TrajectoryAssumption DEF Begins, TypeOK, StepRecord, Kind
  <2>4. steps' = [steps EXCEPT ![tr] = Append(@, s)]
    BY <2>1, <2>2 DEF AddTo
  <2>5. PICK i : i = begun'
    OBVIOUS
  <2>6. s.id = i
    BY <2>2, <2>5
  <2>7. Listed(tr, s.id)'
    BY <2>3, <2>4, ListedGrows
  <2>8. Listed(tr, i)'
    BY <2>6, <2>7 DEF Listed
  <2>9. /\ \A d \in Ctx : d # c => rec'[d] = rec[d]
        /\ rec'[c].tr = tr /\ rec'[c].id = i
    BY <2>1, <2>5 DEF Begins, TypeOK
  <2>10. Listed(rec[c].tr, rec[c].id)'
    BY <2>8, <2>9 DEF Listed
  <2> QED
    BY <1>2, <2>9, <2>10 DEF ListedInv
<1>6. ASSUME NEW c \in Ctx, NEW tr \in Traj, NEW kind, NEW call,
             NEW pc \in {"start", "append", "pop"}, Begins(c, tr, kind, call, pc)
      PROVE  ListedInv'
  <2>1. /\ \A d \in Ctx : d # c => rec'[d] = rec[d]
        /\ rec'[c].pc = pc
    BY <1>6 DEF Begins, TypeOK
  <2> QED
    BY <1>4, <2>1
<1>7. ASSUME NEW c \in Ctx, NEW tr \in Traj, RecordCall(c, tr) \/ RecordResult(c, tr)
      PROVE  ListedInv'
  <2>1. \E kind, call : \E pc \in {"start", "append", "pop"} :
            Begins(c, tr, kind, call, pc)
    <3>1. CASE RecordCall(c, tr)
      <4>1. Begins(c, tr, "CALL", 0, "start") \/ Begins(c, tr, "CALL", 0, "append")
        BY <3>1 DEF RecordCall
      <4> QED
        BY <4>1
    <3>2. CASE RecordResult(c, tr)
      <4>1. PICK k \in DOMAIN steps[tr] :
                \/ Begins(c, tr, "RESULT", steps[tr][k].id, "pop")
                \/ Begins(c, tr, "RESULT", steps[tr][k].id, "append")
        BY <3>2 DEF RecordResult
      <4> QED
        BY <4>1
    <3> QED
      BY <1>7, <3>1, <3>2
  <2> QED
    BY <1>6, <2>1
<1>8. ASSUME NEW c \in Ctx, rec' = [rec EXCEPT ![c] = Idle]  PROVE ListedInv'
  <2>1. /\ \A d \in Ctx : d # c => rec'[d] = rec[d]
        /\ rec'[c].pc = "idle"
    BY <1>8 DEF TypeOK, Idle
  <2> QED
    BY <1>4, <2>1
<1>9. ASSUME NEW c \in Ctx, rec[c].pc # "idle",
             NEW pc \in {"event", "append", "end", "raised"}, Goes(c, pc),
             pc \in {"event", "raised"} => rec[c].pc \in {"check", "event"}
      PROVE  ListedInv'
  <2>1. /\ \A d \in Ctx : /\ rec'[d].id = rec[d].id /\ rec'[d].tr = rec[d].tr
                          /\ d # c => rec'[d] = rec[d]
        /\ rec'[c].pc = pc
    BY <1>9, GoesType
  <2> QED
    BY <1>2, <1>9, <2>1 DEF ListedInv
<1>10. ASSUME NEW c \in Ctx,
              \/ CheckSpan(c) \/ AddEvent(c) \/ StartSpan(c) \/ PopSpan(c)
              \/ EndSpan(c) \/ AppendStep(c) \/ Catch(c)
       PROVE  ListedInv'
  <2>1. CASE CheckSpan(c)
    BY <1>8, <1>9, <2>1 DEF CheckSpan, Checks
  <2>2. CASE AddEvent(c)
    BY <1>8, <1>9, <2>2 DEF AddEvent
  <2>3. CASE StartSpan(c)
    BY <1>9, <2>3 DEF StartSpan
  <2>4. CASE PopSpan(c)
    BY <1>9, <2>4 DEF PopSpan
  <2>5. CASE EndSpan(c)
    BY <1>9, <2>5 DEF EndSpan
  <2>6. CASE AppendStep(c) \/ Catch(c)
    BY <1>8, <2>6 DEF AppendStep, Catch
  <2> QED
    BY <1>10, <2>1, <2>2, <2>3, <2>4, <2>5, <2>6
<1>11. CASE UNCHANGED vars
  BY <1>3, <1>11 DEF vars
<1>12. ASSUME NEW c \in Ctx,
              \/ \E tr \in Traj : Enter(c, tr)
              \/ \E d \in Ctx : Spawn(c, d)
              \/ \E raised \in BOOLEAN : Exit(c, raised)
              \/ Drain(c) \/ Close(c) \/ Save(c)
       PROVE  rec' = rec
  BY <1>12 DEF Enter, Spawn, Exit, Drain, Close, Closes, Save
<1> QED
  BY <1>3, <1>5, <1>7, <1>10, <1>11, <1>12 DEF Next, RecordStep

\* A recording raises only if the session was closed in the middle of it, and
\* its step is recorded then.
THEOREM RaisesCorrect == Spec => []RaisesOnlyAcrossExit
<1>1. Init => ListedInv
  BY DEF Init, Idle, ListedInv
<1>2. RaisesInv /\ ListedInv => RaisesOnlyAcrossExit
  BY DEF RaisesInv, ListedInv, Listed, RaisesOnlyAcrossExit
<1> QED
  BY <1>1, <1>2, RaisesInit, RaisesNext, ListedNext, TypeInit, TypeNext, PTL DEF Spec

-----------------------------------------------------------------------------
(* The current trajectory                                                  *)

\* What is current outside of the first n of the context's blocks.
Outer(c, n) == IF n = 0 THEN base[c] ELSE blocks[c][n]

\* Every context's blocks are different trajectories.
Distinct ==
    \A c, d \in Ctx : \A i \in 1..Len(blocks[c]), j \in 1..Len(blocks[d]) :
        blocks[c][i] = blocks[d][j] => c = d /\ i = j

\* A block is entered and not yet saved, only the last one of a context may be
\* on its way out, and each holds what is current outside of it.
Nested ==
    \A c \in Ctx : \A i \in 1..Len(blocks[c]) :
        /\ life[blocks[c][i]] \in {"open", "draining", "saving"}
        /\ i < Len(blocks[c]) => life[blocks[c][i]] = "open"
        /\ token[blocks[c][i]] = Outer(c, i - 1)

\* A context that does not exist is in no block; one that does has the
\* trajectory of the last of its blocks that it has not begun to leave.
ScopeInv ==
    /\ Distinct
    /\ Nested
    /\ \A c \in Ctx \ started : blocks[c] = <<>>
    /\ \A c \in started : current[c] = Outer(c, Depth(c))

\* No context is in a block initially.
LEMMA ScopeInit == Init => ScopeInv
<1> SUFFICES ASSUME Init  PROVE ScopeInv
  OBVIOUS
<1>1. \A c \in Ctx : blocks[c] = <<>> /\ Len(blocks[c]) = 0 /\ 1..Len(blocks[c]) = {}
  BY DEF Init
<1>2. Distinct /\ Nested
  BY <1>1 DEF Distinct, Nested
<1>3. \A c \in started : c \in Ctx /\ current[c] = NoTraj /\ base[c] = NoTraj
  BY TrajectoryAssumption DEF Init
<1> QED
  BY <1>1, <1>2, <1>3 DEF ScopeInv, Outer, Depth

\* The depth of a context, by the life of its last block.
LEMMA DepthIs ==
    ASSUME TypeOK, NEW c \in Ctx
    PROVE  /\ Depth(c) \in 0..Len(blocks[c])
           /\ blocks[c] = <<>> => Depth(c) = 0
           /\ (blocks[c] # <<>> => life[Innermost(c)] = "open") =>
                 Depth(c) = Len(blocks[c])
           /\ blocks[c] # <<>> /\ life[Innermost(c)] # "open" =>
                 Depth(c) = Len(blocks[c]) - 1
<1>1. blocks[c] \in Seq(Traj) /\ Len(blocks[c]) \in Nat
      /\ (blocks[c] = <<>> <=> Len(blocks[c]) = 0)
  BY DEF TypeOK
<1> QED
  BY <1>1 DEF Depth

\* A step that leaves the blocks and the places of the trajectories alone, but
\* for one that goes on with its exit, keeps the scopes.
LEMMA ExitKeepsScope ==
    ASSUME TypeOK, ScopeInv, UNCHANGED scopeVars,
           \A tr \in Traj : \/ life'[tr] = life[tr]
                             \/ /\ life[tr] \in {"draining", "saving"}
                                /\ life'[tr] \in {"draining", "saving"}
    PROVE  ScopeInv'
<1>1. \A c \in Ctx : \A i \in 1..Len(blocks[c]) : blocks[c][i] \in Traj
  BY DEF TypeOK
<1>2. Nested'
  BY <1>1 DEF ScopeInv, Nested, Outer, scopeVars
<1>3. \A c \in Ctx : Depth(c)' = Depth(c)
  <2> TAKE c \in Ctx
  <2>1. CASE blocks[c] = <<>>
    BY <2>1 DEF Depth, scopeVars
  <2>2. CASE blocks[c] # <<>>
    <3>1. Innermost(c) \in Traj /\ Innermost(c)' = Innermost(c)
      BY <2>2, InnermostType DEF Innermost, scopeVars
    <3> QED
      BY <2>2, <3>1 DEF Depth, scopeVars
  <2> QED
    BY <2>1, <2>2
<1>4. \A c \in started : c \in Ctx
  BY DEF TypeOK
<1> QED
  BY <1>2, <1>3, <1>4 DEF ScopeInv, Distinct, Outer, scopeVars

\* Entering a block: it is in no other one, holds what was current, and is.
LEMMA EnterKeepsScope ==
    ASSUME TypeOK, ScopeInv, NEW c \in Ctx, NEW tr \in Traj, Enter(c, tr)
    PROVE  ScopeInv'
<1> DEFINE n == Len(blocks[c])
<1>1. /\ c \in started /\ life[tr] = "new" /\ rec[c] = Idle
      /\ blocks[c] # <<>> => life[Innermost(c)] = "open"
      /\ life' = [life EXCEPT ![tr] = "open"]
      /\ token' = [token EXCEPT ![tr] = current[c]]
      /\ current' = [current EXCEPT ![c] = tr]
      /\ blocks' = [blocks EXCEPT ![c] = Append(@, tr)]
      /\ started' = started /\ base' = base
  BY DEF Enter, Free
<1>2. /\ n \in Nat /\ n = Len(blocks[c])
      /\ \A d \in Ctx : blocks[d] \in Seq(Traj) /\ Len(blocks[d]) \in Nat
  BY DEF TypeOK
<1>3. /\ \A d \in Ctx : d # c => blocks'[d] = blocks[d]
      /\ Len(blocks'[c]) = n + 1 /\ blocks'[c][n + 1] = tr
      /\ \A i \in 1..n : blocks'[c][i] = blocks[c][i]
  <2>1. blocks'[c] = Append(blocks[c], tr)
    BY <1>1 DEF TypeOK
  <2>2. \A d \in Ctx : d # c => blocks'[d] = blocks[d]
    BY <1>1 DEF TypeOK
  <2> QED
    BY <1>2, <2>1, <2>2
<1>4. \A d \in Ctx : \A i \in 1..Len(blocks[d]) :
          blocks[d][i] # tr /\ blocks[d][i] \in Traj
  <2> TAKE d \in Ctx
  <2> TAKE i \in 1..Len(blocks[d])
  <2>1. blocks[d][i] \in Traj
    BY <1>2
  <2>2. life[blocks[d][i]] # "new"
    BY DEF ScopeInv, Nested
  <2> QED
    BY <1>1, <2>1, <2>2
<1>5. /\ life'[tr] = "open" /\ token'[tr] = current[c] /\ current'[c] = tr
      /\ \A r \in Traj : r # tr => life'[r] = life[r] /\ token'[r] = token[r]
      /\ \A d \in Ctx : d # c => current'[d] = current[d]
  BY <1>1 DEF TypeOK
<1>6. current[c] = Outer(c, n)
  BY <1>1, DepthIs DEF ScopeInv
<1>7. blocks[c] # <<>> => n >= 1 /\ life[blocks[c][n]] = "open"
  BY <1>1, <1>2 DEF Innermost
<1> HIDE DEF n
<1>8. \A d \in Ctx : \A k \in 0..Len(blocks[d]) : Outer(d, k)' = Outer(d, k)
  BY <1>1, <1>2, <1>3 DEF Outer
<1>9. Distinct'
  <2> SUFFICES ASSUME NEW d \in Ctx, NEW e \in Ctx,
                      NEW i \in 1..Len(blocks'[d]), NEW j \in 1..Len(blocks'[e]),
                      blocks'[d][i] = blocks'[e][j]
               PROVE  d = e /\ i = j
    BY DEF Distinct
  <2>1. ASSUME NEW b \in Ctx, NEW k \in 1..Len(blocks'[b])
        PROVE  \/ b = c /\ k = n + 1 /\ blocks'[b][k] = tr
               \/ k \in 1..Len(blocks[b]) /\ blocks'[b][k] = blocks[b][k]
    <3>1. CASE b = c
      <4>1. k \in 1..(n + 1)
        BY <1>3, <3>1
      <4>2. k = n + 1 \/ k \in 1..n
        BY <1>2, <4>1
      <4> QED
        BY <1>2, <1>3, <3>1, <4>2
    <3>2. CASE b # c
      BY <1>3, <3>2
    <3> QED
      BY <3>1, <3>2
  <2>2. \/ d = c /\ i = n + 1 /\ blocks'[d][i] = tr
        \/ i \in 1..Len(blocks[d]) /\ blocks'[d][i] = blocks[d][i]
    BY <2>1
  <2>3. \/ e = c /\ j = n + 1 /\ blocks'[e][j] = tr
        \/ j \in 1..Len(blocks[e]) /\ blocks'[e][j] = blocks[e][j]
    BY <2>1
  <2> QED
    BY <1>4, <2>2, <2>3 DEF ScopeInv, Distinct
<1>10. Nested'
  <2> SUFFICES ASSUME NEW d \in Ctx, NEW i \in 1..Len(blocks'[d])
               PROVE  /\ life'[blocks'[d][i]] \in {"open", "draining", "saving"}
                      /\ i < Len(blocks'[d]) => life'[blocks'[d][i]] = "open"
                      /\ token'[blocks'[d][i]] = Outer(d, i - 1)'
    BY DEF Nested
  <2>1. CASE d = c /\ i = n + 1
    <3>1. i - 1 = n /\ i - 1 \in 0..Len(blocks[d])
      BY <1>2, <2>1
    <3>2. Outer(d, i - 1)' = Outer(d, i - 1)
      BY <1>8, <3>1
    <3> QED
      BY <1>2, <1>3, <1>5, <1>6, <2>1, <3>1, <3>2
  <2>2. CASE ~(d = c /\ i = n + 1)
    <3>1. /\ i \in 1..Len(blocks[d]) /\ blocks'[d][i] = blocks[d][i]
          /\ d # c => Len(blocks'[d]) = Len(blocks[d])
      BY <1>2, <1>3, <2>2
    <3>2. Outer(d, i - 1)' = Outer(d, i - 1)
      <4>1. i - 1 \in 0..Len(blocks[d])
        BY <3>1 DEF TypeOK
      <4> QED
        BY <1>8, <4>1
    <3>3. /\ life[blocks[d][i]] \in {"open", "draining", "saving"}
          /\ i < Len(blocks[d]) => life[blocks[d][i]] = "open"
          /\ token[blocks[d][i]] = Outer(d, i - 1)
      BY <3>1 DEF ScopeInv, Nested
    <3>4. blocks[d][i] # tr /\ blocks[d][i] \in Traj
      BY <1>4, <3>1
    <3>5. d = c /\ ~(i < Len(blocks[d])) => life[blocks[d][i]] = "open"
      BY <1>2, <1>7, <3>1
    <3> QED
      BY <1>5, <3>1, <3>2, <3>3, <3>4, <3>5
  <2> QED
    BY <2>1, <2>2
<1>11. \A d \in Ctx \ started' : blocks'[d] = <<>>
  BY <1>1, <1>3 DEF ScopeInv
<1>12. ASSUME NEW d \in started'  PROVE current'[d] = Outer(d, Depth(d))'
  <2>1. CASE d = c
    <3>1. Depth(c)' = n + 1
      BY <1>2, <1>3, <1>5 DEF Depth, Innermost
    <3> QED
      BY <1>2, <1>3, <1>5, <2>1, <3>1 DEF Outer
  <2>2. CASE d # c
    <3>1. d \in Ctx /\ d \in started /\ blocks'[d] = blocks[d]
      BY <1>1, <1>3, <1>12, <2>2 DEF TypeOK
    <3>2. Depth(d)' = Depth(d) /\ Depth(d) \in 0..Len(blocks[d])
      <4>1. blocks[d] # <<>> => life'[Innermost(d)'] = life[Innermost(d)]
        <5> SUFFICES ASSUME blocks[d] # <<>>
                     PROVE  life'[Innermost(d)'] = life[Innermost(d)]
          OBVIOUS
        <5>1. Len(blocks[d]) \in 1..Len(blocks[d])
          BY <3>1 DEF TypeOK
        <5>2. Innermost(d)' = Innermost(d) /\ Innermost(d) # tr /\ Innermost(d) \in Traj
          BY <1>4, <3>1, <5>1 DEF Innermost
        <5> QED
          BY <1>5, <5>2
      <4> QED
        BY <3>1, <4>1, DepthIs DEF Depth
    <3>3. Outer(d, Depth(d))' = Outer(d, Depth(d))
      BY <1>1, <3>1, <3>2 DEF Outer
    <3> QED
      BY <1>5, <2>2, <3>1, <3>3 DEF ScopeInv
  <2> QED
    BY <2>1, <2>2
<1> QED
  BY <1>9, <1>10, <1>11, <1>12 DEF ScopeInv

\* Making a task: it is in no block, and begins with its creator's.
LEMMA SpawnKeepsScope ==
    ASSUME TypeOK, ScopeInv, NEW c \in Ctx, NEW d \in Ctx, Spawn(c, d)
    PROVE  ScopeInv'
<1>1. /\ d \notin started /\ started' = started \cup {d}
      /\ current' = [current EXCEPT ![d] = current[c]]
      /\ base' = [base EXCEPT ![d] = current[c]]
      /\ blocks' = blocks /\ token' = token /\ life' = life
  BY DEF Spawn, exitVars
<1>2. /\ blocks[d] = <<>> /\ Len(blocks[d]) = 0
      /\ current'[d] = current[c] /\ base'[d] = current[c]
      /\ \A e \in Ctx : e # d => current'[e] = current[e] /\ base'[e] = base[e]
  BY <1>1 DEF ScopeInv, TypeOK
<1>3. \A e \in Ctx : \A i \in 1..Len(blocks[e]) : e # d
  BY <1>2
<1>4. Distinct' /\ Nested'
  BY <1>1, <1>2, <1>3 DEF ScopeInv, Distinct, Nested, Outer
<1>5. \A e \in Ctx : Depth(e)' = Depth(e)
  BY <1>1 DEF Depth, Innermost
<1>6. \A e \in Ctx \ started' : blocks'[e] = <<>>
  BY <1>1 DEF ScopeInv
<1>7. ASSUME NEW e \in started'  PROVE current'[e] = Outer(e, Depth(e))'
  <2>1. CASE e = d
    BY <1>2, <1>5, <2>1, DepthIs DEF Outer
  <2>2. CASE e # d
    BY <1>1, <1>2, <1>5, <1>7, <2>2 DEF ScopeInv, Outer, TypeOK
  <2> QED
    BY <2>1, <2>2
<1> QED
  BY <1>4, <1>6, <1>7 DEF ScopeInv

\* Beginning to leave the last block: what it holds is current again.
LEMMA LeaveKeepsScope ==
    ASSUME TypeOK, ScopeInv, NEW c \in Ctx, NEW raised \in BOOLEAN, Exit(c, raised)
    PROVE  ScopeInv'
<1> DEFINE tr == Innermost(c)
           n == Len(blocks[c])
<1>1. /\ blocks[c] # <<>> /\ c \in started /\ tr \in Traj /\ life[tr] = "open"
      /\ current' = [current EXCEPT ![c] = token[tr]]
      /\ life' = [life EXCEPT ![tr] = "draining"]
      /\ UNCHANGED <<started, base, blocks, token>>
  BY InnermostType DEF Exit, Free, LeaveScope
<1>2. /\ n \in 1..Len(blocks[c]) /\ blocks[c][n] = tr /\ n = Len(blocks[c])
      /\ \A d \in Ctx : blocks[d] \in Seq(Traj) /\ Len(blocks[d]) \in Nat
  BY <1>1 DEF TypeOK, Innermost
<1>3. \A d \in Ctx : \A i \in 1..Len(blocks[d]) :
          /\ blocks[d][i] \in Traj
          /\ blocks[d][i] = tr => d = c /\ i = n
  BY <1>2 DEF ScopeInv, Distinct
<1> HIDE DEF tr, n
<1>4. /\ life'[tr] = "draining" /\ current'[c] = token[tr]
      /\ \A r \in Traj : r # tr => life'[r] = life[r]
      /\ \A d \in Ctx : d # c => current'[d] = current[d]
  BY <1>1 DEF TypeOK
<1>5. Distinct'
  BY <1>1 DEF ScopeInv, Distinct
<1>6. Nested'
  <2> SUFFICES ASSUME NEW d \in Ctx, NEW i \in 1..Len(blocks[d])
               PROVE  /\ life'[blocks[d][i]] \in {"open", "draining", "saving"}
                      /\ i < Len(blocks[d]) => life'[blocks[d][i]] = "open"
                      /\ token[blocks[d][i]] = Outer(d, i - 1)
    BY <1>1 DEF Nested, Outer
  <2>1. /\ life[blocks[d][i]] \in {"open", "draining", "saving"}
        /\ i < Len(blocks[d]) => life[blocks[d][i]] = "open"
        /\ token[blocks[d][i]] = Outer(d, i - 1)
    BY DEF ScopeInv, Nested
  <2>2. CASE blocks[d][i] = tr
    <3>1. d = c /\ i = n
      BY <1>3, <2>2
    <3> QED
      BY <1>2, <1>4, <2>1, <2>2, <3>1
  <2>3. CASE blocks[d][i] # tr
    BY <1>3, <1>4, <2>1, <2>3
  <2> QED
    BY <2>2, <2>3
<1>7. ASSUME NEW d \in started  PROVE current'[d] = Outer(d, Depth(d))'
  <2>1. CASE d = c
    <3>1. Depth(c)' = n - 1
      BY <1>1, <1>2, <1>4 DEF Depth, Innermost, tr
    <3>2. token[tr] = IF n - 1 = 0 THEN base[c] ELSE blocks[c][n - 1]
      BY <1>2 DEF ScopeInv, Nested, Outer
    <3> QED
      BY <1>1, <1>4, <2>1, <3>1, <3>2 DEF Outer
  <2>2. CASE d # c
    <3>1. d \in Ctx
      BY DEF TypeOK
    <3>2. blocks[d] # <<>> => Innermost(d) # tr /\ Innermost(d) \in Traj
      <4>1. blocks[d] # <<>> => Len(blocks[d]) \in 1..Len(blocks[d])
        BY <3>1 DEF TypeOK
      <4> QED
        BY <1>3, <2>2, <3>1, <4>1 DEF Innermost
    <3>3. Depth(d)' = Depth(d)
      BY <1>1, <1>4, <3>2 DEF Depth, Innermost
    <3> QED
      BY <1>1, <1>4, <2>2, <3>1, <3>3 DEF ScopeInv, Outer
  <2> QED
    BY <2>1, <2>2
<1> QED
  BY <1>1, <1>5, <1>6, <1>7 DEF ScopeInv

\* The end of an exit: the block it leaves was not counted any more.
LEMMA SaveKeepsScope ==
    ASSUME TypeOK, ScopeInv, NEW c \in Ctx, Save(c)
    PROVE  ScopeInv'
<1> DEFINE tr == Innermost(c)
           n == Len(blocks[c])
<1>1. /\ blocks[c] # <<>> /\ tr \in Traj /\ life[tr] = "saving"
      /\ life' = [life EXCEPT ![tr] = "closed"]
      /\ blocks' = [blocks EXCEPT ![c] = SubSeq(@, 1, Len(@) - 1)]
      /\ UNCHANGED <<current, started, base, token>>
  BY InnermostType DEF Save
<1>2. /\ n \in 1..Len(blocks[c]) /\ blocks[c][n] = tr /\ n = Len(blocks[c])
      /\ \A d \in Ctx : blocks[d] \in Seq(Traj) /\ Len(blocks[d]) \in Nat
  BY <1>1 DEF TypeOK, Innermost
<1>3. \A d \in Ctx : \A i \in 1..Len(blocks[d]) :
          /\ blocks[d][i] \in Traj
          /\ blocks[d][i] = tr => d = c /\ i = n
  BY <1>2 DEF ScopeInv, Distinct
<1>4. /\ \A d \in Ctx : d # c => blocks'[d] = blocks[d]
      /\ Len(blocks'[c]) = n - 1 /\ blocks'[c] \in Seq(Traj)
      /\ \A i \in 1..(n - 1) : blocks'[c][i] = blocks[c][i]
  <2>1. /\ blocks'[c] = SubSeq(blocks[c], 1, Len(blocks[c]) - 1)
        /\ \A d \in Ctx : d # c => blocks'[d] = blocks[d]
    BY <1>1 DEF TypeOK
  <2> QED
    BY <1>2, <2>1
<1> HIDE DEF tr, n
<1>5. \A r \in Traj : r # tr => life'[r] = life[r]
  BY <1>1 DEF TypeOK
<1>6. \A d \in Ctx : \A i \in 1..Len(blocks'[d]) :
          /\ i \in 1..Len(blocks[d]) /\ blocks'[d][i] = blocks[d][i]
          /\ blocks[d][i] # tr /\ blocks[d][i] \in Traj
          /\ d = c => i < Len(blocks[d])
          /\ d # c => Len(blocks'[d]) = Len(blocks[d])
  <2> TAKE d \in Ctx
  <2> TAKE i \in 1..Len(blocks'[d])
  <2>1. /\ i \in 1..Len(blocks[d]) /\ blocks'[d][i] = blocks[d][i]
        /\ d = c => i < n /\ i < Len(blocks[d])
        /\ d # c => Len(blocks'[d]) = Len(blocks[d])
    BY <1>2, <1>4
  <2> QED
    BY <1>2, <1>3, <2>1
<1>7. Distinct'
  BY <1>6 DEF ScopeInv, Distinct
<1>8. Nested'
  <2> SUFFICES ASSUME NEW d \in Ctx, NEW i \in 1..Len(blocks'[d])
               PROVE  /\ life'[blocks'[d][i]] \in {"open", "draining", "saving"}
                      /\ i < Len(blocks'[d]) => life'[blocks'[d][i]] = "open"
                      /\ token'[blocks'[d][i]] = Outer(d, i - 1)'
    BY DEF Nested
  <2>1. /\ i \in 1..Len(blocks[d]) /\ blocks'[d][i] = blocks[d][i]
        /\ blocks[d][i] # tr /\ blocks[d][i] \in Traj
        /\ d = c => i < Len(blocks[d])
        /\ d # c => Len(blocks'[d]) = Len(blocks[d])
    BY <1>6
  <2>2. /\ life[blocks[d][i]] \in {"open", "draining", "saving"}
        /\ i < Len(blocks[d]) => life[blocks[d][i]] = "open"
        /\ token[blocks[d][i]] = Outer(d, i - 1)
    BY <2>1 DEF ScopeInv, Nested
  <2>3. Outer(d, i - 1)' = Outer(d, i - 1)
    <3>1. CASE i = 1
      BY <1>1, <3>1 DEF Outer
    <3>2. CASE i # 1
      <4>1. Len(blocks'[d]) \in Nat
        BY <1>2, <1>4
      <4>2. i - 1 \in 1..Len(blocks'[d])
        BY <3>2, <4>1
      <4>3. blocks'[d][i - 1] = blocks[d][i - 1]
        BY <1>6, <4>2
      <4> QED
        BY <1>1, <4>3 DEF Outer
    <3> QED
      BY <3>1, <3>2
  <2> QED
    BY <1>1, <1>5, <2>1, <2>2, <2>3
<1>9. \A d \in Ctx \ started' : blocks'[d] = <<>>
  BY <1>1, <1>4 DEF ScopeInv
<1>10. ASSUME NEW d \in started'  PROVE current'[d] = Outer(d, Depth(d))'
  <2>1. CASE d = c
    <3>0. n \in Nat /\ n >= 1
      <4>1. Len(blocks[c]) \in Nat
        BY <1>2
      <4> QED
        BY <1>2, <4>1
    <3>1. Depth(c) = n - 1
      BY <1>1, <1>2, DepthIs DEF tr
    <3>2. Depth(c)' = n - 1
      <4>1. CASE n = 1
        BY <1>2, <1>4, <4>1 DEF Depth
      <4>2. CASE n # 1
        <5>1. n - 1 \in 1..Len(blocks'[c]) /\ n - 1 \in 1..Len(blocks[c])
          <6>1. n - 1 \in 1..(n - 1) /\ n - 1 \in 1..n
            BY <3>0, <4>2
          <6> QED
            BY <1>2, <1>4, <6>1
        <5>2. life[blocks[c][n - 1]] = "open"
          BY <1>2, <5>1 DEF ScopeInv, Nested
        <5>3. life'[blocks'[c][n - 1]] = "open"
          BY <1>5, <1>6, <5>1, <5>2
        <5>4. blocks'[c] # <<>>
          BY <1>4, <5>1
        <5> QED
          BY <1>4, <5>3, <5>4 DEF Depth, Innermost
      <4> QED
        BY <4>1, <4>2
    <3>3. current[c] = IF n - 1 = 0 THEN base[c] ELSE blocks[c][n - 1]
      <4>1. c \in started
        BY <1>1, <1>10, <2>1
      <4>2. current[c] = Outer(c, Depth(c))
        BY <4>1 DEF ScopeInv
      <4>3. Depth(c) = 0 <=> n - 1 = 0
        BY <3>1
      <4>4. blocks[c][Depth(c)] = blocks[c][n - 1]
        BY <3>1
      <4> QED
        BY <4>2, <4>3, <4>4 DEF Outer
    <3>4. n - 1 # 0 => blocks'[c][n - 1] = blocks[c][n - 1]
      <4>1. n - 1 # 0 => n - 1 \in 1..(n - 1)
        BY <3>0
      <4> QED
        BY <1>4, <4>1
    <3> QED
      BY <1>1, <2>1, <3>2, <3>3, <3>4 DEF Outer
  <2>2. CASE d # c
    <3>1. d \in Ctx /\ d \in started /\ blocks'[d] = blocks[d]
      BY <1>1, <1>4, <1>10, <2>2 DEF TypeOK
    <3>2. blocks[d] # <<>> => Innermost(d) # tr /\ Innermost(d) \in Traj
      <4>1. blocks[d] # <<>> => Len(blocks[d]) \in 1..Len(blocks[d])
        BY <1>2, <3>1
      <4> QED
        BY <1>3, <2>2, <3>1, <4>1 DEF Innermost
    <3>3. Depth(d)' = Depth(d)
      BY <1>5, <3>1, <3>2 DEF Depth, Innermost
    <3> QED
      BY <1>1, <3>1, <3>3 DEF ScopeInv, Outer
  <2> QED
    BY <2>1, <2>2
<1> QED
  BY <1>7, <1>8, <1>9, <1>10 DEF ScopeInv

\* Every step keeps the scopes.
LEMMA ScopeNext == TypeOK /\ ScopeInv /\ [Next]_vars => ScopeInv'
<1> SUFFICES ASSUME TypeOK, ScopeInv, [Next]_vars  PROVE ScopeInv'
  OBVIOUS
<1>1. CASE UNCHANGED vars
  BY <1>1, ExitKeepsScope DEF vars, scopeVars, exitVars
<1>2. ASSUME NEW c \in Ctx, RecordStep(c)  PROVE ScopeInv'
  <2>1. UNCHANGED scopeVars /\ UNCHANGED life
    BY <1>2 DEF RecordStep, AddStep, RecordCall, RecordResult, Begins, CheckSpan,
                AddEvent, StartSpan, PopSpan, EndSpan, AppendStep, Catch, exitVars
  <2> QED
    BY <2>1, ExitKeepsScope
<1>3. ASSUME NEW c \in Ctx, Drain(c)  PROVE ScopeInv'
  BY <1>3, ExitKeepsScope DEF Drain
<1>4. ASSUME NEW c \in Ctx, Close(c)  PROVE ScopeInv'
  <2>1. /\ UNCHANGED scopeVars /\ life[Innermost(c)] = "draining"
        /\ life' = [life EXCEPT ![Innermost(c)] = "saving"]
        /\ Innermost(c) \in Traj
    BY <1>4, InnermostType DEF Close, Closes
  <2>2. \A tr \in Traj : \/ life'[tr] = life[tr]
                          \/ /\ life[tr] \in {"draining", "saving"}
                             /\ life'[tr] \in {"draining", "saving"}
    BY <2>1 DEF TypeOK
  <2> QED
    BY <2>1, <2>2, ExitKeepsScope
<1> QED
  BY <1>1, <1>2, <1>3, <1>4, EnterKeepsScope, SpawnKeepsScope, LeaveKeepsScope,
     SaveKeepsScope
     DEF Next

\* The current trajectory of a context is the innermost block it is in, or what
\* it was made with: an exit gives back what its enter took.
THEOREM ScopesCorrect == Spec => []CurrentIsInnermost
<1>1. ScopeInv => CurrentIsInnermost
  BY DEF ScopeInv, CurrentIsInnermost, Outer
<1> QED
  BY <1>1, ScopeInit, ScopeNext, TypeInit, TypeNext, PTL DEF Spec

-----------------------------------------------------------------------------
(* What is saved                                                           *)

\* The trajectory is not being left.
Open(tr) == life[tr] \in {"new", "open"}

\* The call numbered i is among the steps of the trajectory.
Called(tr, i) ==
    \E k \in 1..Len(steps[tr]) : steps[tr][k].kind = "CALL" /\ steps[tr][k].id = i

\* The steps have the call of each result before the result, and the error of an
\* exit only once the trajectory is being left, which the status tells.
Story(tr) ==
    /\ \A k \in 1..Len(steps[tr]) : steps[tr][k].kind = "RESULT" =>
          \E j \in 1..(k - 1) : /\ steps[tr][j].kind = "CALL"
                                /\ steps[tr][j].id = steps[tr][k].call
    /\ since[tr].steps <= Len(steps[tr])
    /\ Open(tr) =>
          /\ since[tr].steps = 0
          /\ \A k \in 1..Len(steps[tr]) : ~IsExitError(steps[tr][k])
    /\ ~Open(tr) =>
          (status[tr] = "FAILED" <=>
              \E k \in 1..since[tr].steps : IsExitError(steps[tr][k]))

\* What is saved is what there was at one moment after the exit had begun.
Kept(tr) ==
    saved[tr] # NotSaved =>
        /\ life[tr] = "closed"
        /\ saved[tr].status = status[tr]
        /\ since[tr].steps <= Len(saved[tr].steps)
        /\ Len(saved[tr].steps) <= Len(steps[tr])
        /\ \A k \in 1..Len(saved[tr].steps) : saved[tr].steps[k] = steps[tr][k]

\* A recording is of a step, an error, a call, or the result of a call that was recorded.
Recorded(c) ==
    rec[c].pc # "idle" =>
        /\ rec[c].kind \in {"STEP", "ERROR", "CALL", "RESULT"}
        /\ rec[c].kind = "RESULT" => Called(rec[c].tr, rec[c].call)
        /\ rec[c].pc = "start" => rec[c].kind = "CALL"
        /\ rec[c].pc \in {"pop", "end"} => rec[c].kind = "RESULT"

StoryInv ==
    /\ \A tr \in Traj : Story(tr) /\ Kept(tr)
    /\ \A c \in Ctx : Recorded(c)

USE DEF IsExitError

\* Nothing has been recorded initially.
LEMMA StoryInit == Init => StoryInv
<1> SUFFICES ASSUME Init  PROVE StoryInv
  OBVIOUS
<1>1. \A tr \in Traj : /\ steps[tr] = <<>> /\ Len(steps[tr]) = 0 /\ life[tr] = "new"
                       /\ since[tr].steps = 0 /\ saved[tr] = NotSaved
  BY DEF Init
<1>2. \A c \in Ctx : rec[c].pc = "idle"
  BY DEF Init, Idle
<1> QED
  BY <1>1, <1>2 DEF StoryInv, Story, Kept, Recorded, Open

\* The lists and their histories are finite.
LEMMA Lengths ==
    ASSUME TypeOK, NEW tr \in Traj
    PROVE  Len(steps[tr]) \in Nat /\ since[tr].steps \in Nat /\ begun \in Nat
  BY TrajectoryAssumption DEF TypeOK

\* A list that has one more step has the calls it had, and perhaps that one.
LEMMA CalledGrows ==
    ASSUME TypeOK, NEW tr \in Traj, NEW s \in StepRecord,
           steps' = [steps EXCEPT ![tr] = Append(@, s)]
    PROVE  \A q \in Traj : \A i :
              Called(q, i)' <=> \/ Called(q, i)
                                \/ q = tr /\ s.kind = "CALL" /\ s.id = i
<1> DEFINE n == Len(steps[tr])
<1>1. /\ n \in Nat /\ Len(steps'[tr]) = n + 1 /\ steps'[tr][n + 1] = s
      /\ \A k \in 1..n : steps'[tr][k] = steps[tr][k]
      /\ \A q \in Traj : q # tr => steps'[q] = steps[q]
  BY Appended
<1> SUFFICES ASSUME NEW q \in Traj, NEW i
             PROVE  Called(q, i)' <=> \/ Called(q, i)
                                      \/ q = tr /\ s.kind = "CALL" /\ s.id = i
  OBVIOUS
<1>2. CASE q # tr
  BY <1>1, <1>2 DEF Called
<1>3. CASE q = tr
  <2>1. Called(tr, i) <=> \E k \in 1..n : steps[tr][k].kind = "CALL" /\ steps[tr][k].id = i
    BY DEF Called
  <2>2. Called(tr, i)' <=> \E k \in 1..(n + 1) : steps'[tr][k].kind = "CALL"
                                                  /\ steps'[tr][k].id = i
    BY <1>1 DEF Called
  <2> HIDE DEF n
  <2>3. \A k : k \in 1..(n + 1) <=> k \in 1..n \/ k = n + 1
    BY <1>1
  <2> QED
    BY <1>1, <1>3, <2>1, <2>2, <2>3
<1> QED
  BY <1>2, <1>3

\* What a step does to other trajectories keeps the story of this one.
LEMMA StoryOther ==
    ASSUME StoryInv, NEW q \in Traj,
           steps'[q] = steps[q], since'[q].steps = since[q].steps,
           life'[q] = life[q], status'[q] = status[q], saved'[q] = saved[q]
    PROVE  Story(q)' /\ Kept(q)'
<1>1. Open(q)' <=> Open(q)
  BY DEF Open
<1>2. Story(q)'
  BY <1>1 DEF StoryInv, Story
<1>3. Kept(q)'
  BY DEF StoryInv, Kept
<1> QED
  BY <1>2, <1>3

\* A step that is not an exit's error, and a result only of a call in the list,
\* keeps the story, and what is saved.
LEMMA StoryAppend ==
    ASSUME TypeOK, StoryInv, NEW tr \in Traj, NEW s \in StepRecord,
           steps' = [steps EXCEPT ![tr] = Append(@, s)],
           ~IsExitError(s), s.kind = "RESULT" => Called(tr, s.call),
           UNCHANGED exitVars
    PROVE  \A q \in Traj : Story(q)' /\ Kept(q)'
<1> DEFINE n == Len(steps[tr])
           t == since[tr].steps
<1>1. /\ n \in Nat /\ Len(steps'[tr]) = n + 1 /\ steps'[tr][n + 1] = s
      /\ \A k \in 1..n : steps'[tr][k] = steps[tr][k]
      /\ \A q \in Traj : q # tr => steps'[q] = steps[q]
  BY Appended
<1>2. t \in Nat /\ t <= n
  BY Lengths DEF StoryInv, Story
<1>3. life' = life /\ status' = status /\ since' = since /\ saved' = saved
  BY DEF exitVars
<1>4. ASSUME NEW q \in Traj, q # tr  PROVE Story(q)' /\ Kept(q)'
  <2>1. /\ steps'[q] = steps[q] /\ since'[q].steps = since[q].steps
        /\ life'[q] = life[q] /\ status'[q] = status[q] /\ saved'[q] = saved[q]
    BY <1>1, <1>3, <1>4
  <2> QED
    BY <2>1, StoryOther
<1>5. Story(tr)'
  <2>1. ASSUME NEW k \in 1..Len(steps'[tr]), steps'[tr][k].kind = "RESULT"
        PROVE  \E j \in 1..(k - 1) : /\ steps'[tr][j].kind = "CALL"
                                     /\ steps'[tr][j].id = steps'[tr][k].call
    <3>1. CASE k = n + 1
      <4>1. Called(tr, s.call) /\ s = steps'[tr][k]
        BY <1>1, <2>1, <3>1
      <4>2. PICK j \in 1..n : steps[tr][j].kind = "CALL" /\ steps[tr][j].id = s.call
        BY <4>1 DEF Called
      <4>3. j \in 1..(k - 1)
        BY <1>1, <3>1
      <4> QED
        BY <1>1, <4>1, <4>2, <4>3
    <3>2. CASE k # n + 1
      <4>1. k \in 1..n
        BY <1>1, <3>2
      <4>2. steps[tr][k].kind = "RESULT" /\ steps'[tr][k] = steps[tr][k]
        BY <1>1, <2>1, <4>1
      <4>3. PICK j \in 1..(k - 1) : /\ steps[tr][j].kind = "CALL"
                                    /\ steps[tr][j].id = steps[tr][k].call
        BY <4>1, <4>2 DEF StoryInv, Story
      <4>4. j \in 1..n
        BY <1>1, <4>1
      <4>5. steps'[tr][j] = steps[tr][j]
        BY <1>1, <4>4
      <4> QED
        BY <4>2, <4>3, <4>5
    <3> QED
      BY <3>1, <3>2
  <2>2. since'[tr].steps <= Len(steps'[tr])
    BY <1>1, <1>2, <1>3
  <2>3. Open(tr)' => /\ since'[tr].steps = 0
                     /\ \A k \in 1..Len(steps'[tr]) : ~IsExitError(steps'[tr][k])
    <3> SUFFICES ASSUME Open(tr), NEW k \in 1..(n + 1)
                 PROVE  t = 0 /\ ~IsExitError(steps'[tr][k])
      BY <1>1, <1>3 DEF Open
    <3>1. CASE k = n + 1
      BY <1>1, <3>1 DEF StoryInv, Story
    <3>2. CASE k # n + 1
      <4>1. k \in 1..n
        BY <1>1, <3>2
      <4> QED
        BY <1>1, <4>1 DEF StoryInv, Story
    <3> QED
      BY <3>1, <3>2
  <2>4. ~Open(tr)' => (status'[tr] = "FAILED" <=>
              \E k \in 1..since'[tr].steps : IsExitError(steps'[tr][k]))
    <3>1. \A k \in 1..t : steps'[tr][k] = steps[tr][k]
      <4> HIDE DEF n, t
      <4>1. \A k \in 1..t : k \in 1..n
        BY <1>1, <1>2
      <4> QED
        BY <1>1, <4>1
    <3>2. Open(tr)' <=> Open(tr)
      BY <1>3 DEF Open
    <3>3. ~Open(tr) => (status[tr] = "FAILED" <=>
              \E k \in 1..t : IsExitError(steps[tr][k]))
      BY DEF StoryInv, Story
    <3>4. since'[tr].steps = t /\ status'[tr] = status[tr]
      BY <1>3
    <3> HIDE DEF t
    <3> QED
      BY <3>1, <3>2, <3>3, <3>4
  <2> QED
    BY <2>1, <2>2, <2>3, <2>4 DEF Story
<1>6. Kept(tr)'
  <2> SUFFICES ASSUME saved[tr] # NotSaved  PROVE Kept(tr)'
    BY <1>3 DEF Kept
  <2> DEFINE m == Len(saved[tr].steps)
  <2>1. /\ life[tr] = "closed" /\ saved[tr].status = status[tr]
        /\ t <= m /\ m <= n
        /\ \A k \in 1..m : saved[tr].steps[k] = steps[tr][k]
    BY DEF StoryInv, Kept
  <2>2. m \in Nat
    BY DEF TypeOK
  <2>3. m <= n + 1 /\ \A k \in 1..m : k \in 1..n
    <3> HIDE DEF m, n
    <3> QED
      BY <1>1, <2>1, <2>2
  <2> QED
    BY <1>1, <1>3, <2>1, <2>3 DEF Kept
<1> QED
  BY <1>4, <1>5, <1>6

\* A step that leaves the lists alone and neither begins nor ends an exit keeps
\* the story, and what is saved.
LEMMA StorySame ==
    ASSUME StoryInv, UNCHANGED <<steps, saved>>,
           \A q \in Traj : /\ status'[q] = status[q]
                           /\ since'[q].steps = since[q].steps
                           /\ Open(q)' <=> Open(q)
                           /\ life[q] = "closed" => life'[q] = "closed"
    PROVE  /\ \A q \in Traj : Story(q)' /\ Kept(q)'
           /\ \A q \in Traj : \A i : Called(q, i)' <=> Called(q, i)
<1>1. \A q \in Traj : Story(q)'
  BY DEF StoryInv, Story
<1>2. \A q \in Traj : Kept(q)'
  BY DEF StoryInv, Kept
<1> QED
  BY <1>1, <1>2 DEF Called

\* A context goes on recording what it was.
LEMMA RecordedKeeps ==
    ASSUME TypeOK, StoryInv, NEW d \in Ctx, rec'[d] = rec[d],
           \A q \in Traj : \A i : Called(q, i) => Called(q, i)'
    PROVE  Recorded(d)'
<1>1. PICK r : r = rec[d]
  OBVIOUS
<1>2. rec'[d] = r /\ Recorded(d) /\ (r.pc # "idle" => r.tr \in Traj)
  BY <1>1 DEF StoryInv, TypeOK
<1>3. r.pc # "idle" /\ Called(r.tr, r.call) => Called(r.tr, r.call)'
  BY <1>2
<1>4. Recorded(d)' <=>
        (r.pc # "idle" =>
            /\ r.kind \in {"STEP", "ERROR", "CALL", "RESULT"}
            /\ r.kind = "RESULT" => Called(r.tr, r.call)'
            /\ r.pc = "start" => r.kind = "CALL"
            /\ r.pc \in {"pop", "end"} => r.kind = "RESULT")
  BY <1>2 DEF Recorded, Called
<1>5. Recorded(d) <=>
        (r.pc # "idle" =>
            /\ r.kind \in {"STEP", "ERROR", "CALL", "RESULT"}
            /\ r.kind = "RESULT" => Called(r.tr, r.call)
            /\ r.pc = "start" => r.kind = "CALL"
            /\ r.pc \in {"pop", "end"} => r.kind = "RESULT")
  BY <1>1 DEF Recorded
<1> QED
  BY <1>2, <1>3, <1>4, <1>5

\* Entering a block, making a task, ending spans and closing the session add
\* nothing to the story.
LEMMA StoryScope ==
    ASSUME TypeOK, StoryInv, NEW c \in Ctx,
           \/ \E tr \in Traj : Enter(c, tr)
           \/ \E d \in Ctx : Spawn(c, d)
           \/ Drain(c) \/ Close(c)
    PROVE  StoryInv'
<1> DEFINE Same == /\ UNCHANGED <<steps, saved, rec>>
                   /\ \A q \in Traj :
                         /\ status'[q] = status[q]
                         /\ since'[q].steps = since[q].steps
                         /\ Open(q)' <=> Open(q)
                         /\ life[q] = "closed" => life'[q] = "closed"
<1>1. ASSUME Same  PROVE StoryInv'
  <2>1. /\ \A q \in Traj : Story(q)' /\ Kept(q)'
        /\ \A q \in Traj : \A i : Called(q, i)' <=> Called(q, i)
    BY <1>1, StorySame
  <2>2. \A d \in Ctx : Recorded(d)'
    BY <1>1, <2>1, RecordedKeeps
  <2> QED
    BY <2>1, <2>2 DEF StoryInv
<1>2. ASSUME NEW tr \in Traj, Enter(c, tr)  PROVE Same
  <2>1. /\ life[tr] = "new" /\ life' = [life EXCEPT ![tr] = "open"]
        /\ status' = [status EXCEPT ![tr] = "RUNNING"]
        /\ UNCHANGED <<steps, saved, rec, since>>
    BY <1>2 DEF Enter
  <2>2. \A q \in Traj : /\ life'[q] = IF q = tr THEN "open" ELSE life[q]
                        /\ status'[q] = IF q = tr THEN "RUNNING" ELSE status[q]
    BY <2>1 DEF TypeOK
  <2>3. status[tr] = "RUNNING"
    BY <2>1 DEF TypeOK
  <2> QED
    BY <2>1, <2>2, <2>3 DEF Open
<1>3. ASSUME NEW d \in Ctx, Spawn(c, d)  PROVE Same
  BY <1>3 DEF Spawn, exitVars, Open
<1>4. CASE Drain(c)
  BY <1>1, <1>4 DEF Drain, Open
<1>5. CASE Close(c)
  <2>1. /\ Innermost(c) \in Traj /\ life[Innermost(c)] = "draining"
        /\ life' = [life EXCEPT ![Innermost(c)] = "saving"]
        /\ since' = [since EXCEPT ![Innermost(c)].closed = begun]
        /\ UNCHANGED <<steps, saved, rec, status>>
    BY <1>5, InnermostType DEF Close, Closes
  <2>2. \A q \in Traj : life'[q] = IF q = Innermost(c) THEN "saving" ELSE life[q]
    BY <2>1 DEF TypeOK
  <2>3. \A q \in Traj : since'[q].steps = since[q].steps
    BY <2>1 DEF TypeOK
  <2> QED
    BY <1>1, <2>1, <2>2, <2>3 DEF Open
<1> QED
  BY <1>1, <1>2, <1>3, <1>4, <1>5

\* The beginning of an exit ends the story: its error is the last step, and the
\* status says so.
LEMMA StoryExit ==
    ASSUME TypeOK, StoryInv, NEW c \in Ctx, NEW raised \in BOOLEAN, Exit(c, raised)
    PROVE  StoryInv'
<1>0. PICK tr : tr = Innermost(c)
  OBVIOUS
<1>10. PICK after : after = WithError(tr, raised)
  OBVIOUS
<1> DEFINE n == Len(steps[tr])
<1>1. /\ tr \in Traj /\ life[tr] = "open"
      /\ life' = [life EXCEPT ![tr] = "draining"]
      /\ status' = [status EXCEPT ![tr] = IF raised THEN "FAILED" ELSE "SUCCESS"]
      /\ steps' = [steps EXCEPT ![tr] = after]
      /\ since' = [since EXCEPT ![tr].steps = Len(after)]
      /\ saved' = saved /\ rec' = rec
  BY <1>0, <1>10, InnermostType DEF Exit, Free
<1>2. /\ steps[tr] \in Seq(StepRecord) /\ n \in Nat
      /\ raised => /\ Len(after) = n + 1 /\ IsExitError(after[n + 1])
                   /\ \A k \in 1..n : after[k] = steps[tr][k]
      /\ ~raised => after = steps[tr]
  BY <1>1, <1>10 DEF TypeOK, WithError
<1>3. /\ life'[tr] = "draining" /\ status'[tr] = IF raised THEN "FAILED" ELSE "SUCCESS"
      /\ steps'[tr] = after /\ since'[tr].steps = Len(after)
  BY <1>1 DEF TypeOK
<1>4. \A q \in Traj : q # tr => /\ life'[q] = life[q] /\ status'[q] = status[q]
                                /\ steps'[q] = steps[q] /\ since'[q] = since[q]
  BY <1>1 DEF TypeOK
<1>5. ASSUME NEW q \in Traj, q # tr  PROVE Story(q)' /\ Kept(q)'
  BY <1>1, <1>4, <1>5, StoryOther
<1>6. Story(tr)'
  <2>1. ~Open(tr)' /\ Open(tr)
    BY <1>1, <1>3 DEF Open
  <2>2. \A k \in 1..n : ~IsExitError(steps[tr][k])
    BY <1>1, <2>1 DEF StoryInv, Story
  <2>3. ASSUME NEW k \in 1..Len(after), after[k].kind = "RESULT"
        PROVE  \E j \in 1..(k - 1) : after[j].kind = "CALL" /\ after[j].id = after[k].call
    <3>1. k \in 1..n /\ after[k] = steps[tr][k]
      BY <1>2, <2>3
    <3>2. PICK j \in 1..(k - 1) : /\ steps[tr][j].kind = "CALL"
                                  /\ steps[tr][j].id = steps[tr][k].call
      BY <1>1, <2>3, <3>1 DEF StoryInv, Story
    <3>3. j \in 1..n
      BY <1>2, <3>1
    <3>4. after[j] = steps[tr][j]
      BY <1>2, <3>3
    <3> QED
      BY <3>1, <3>2, <3>4
  <2>4. status'[tr] = "FAILED" <=> \E k \in 1..Len(after) : IsExitError(after[k])
    <3>1. CASE raised
      BY <1>2, <1>3, <3>1
    <3>2. CASE ~raised
      BY <1>2, <1>3, <2>2, <3>2
    <3> QED
      BY <3>1, <3>2
  <2> QED
    BY <1>2, <1>3, <2>1, <2>3, <2>4 DEF Story
<1>7. Kept(tr)'
  BY <1>1 DEF StoryInv, Kept
<1>8. \A q \in Traj : \A i : Called(q, i) => Called(q, i)'
  <2> SUFFICES ASSUME NEW q \in Traj, NEW i, Called(q, i)  PROVE Called(q, i)'
    OBVIOUS
  <2>1. CASE q # tr
    BY <1>4, <2>1 DEF Called
  <2>2. CASE q = tr
    <3>1. PICK k \in 1..n : steps[tr][k].kind = "CALL" /\ steps[tr][k].id = i
      BY <2>2 DEF Called
    <3>2. after[k] = steps[tr][k] /\ k \in 1..Len(after)
      BY <1>2
    <3> QED
      BY <1>3, <2>2, <3>1, <3>2 DEF Called
  <2> QED
    BY <2>1, <2>2
<1>9. \A d \in Ctx : Recorded(d)'
  BY <1>1, <1>8, RecordedKeeps
<1> QED
  BY <1>5, <1>6, <1>7, <1>9 DEF StoryInv

\* What is saved is the whole list.
LEMMA StorySave ==
    ASSUME TypeOK, StoryInv, NEW c \in Ctx, Save(c)
    PROVE  StoryInv'
<1>0. PICK tr : tr = Innermost(c)
  OBVIOUS
<1>1. /\ tr \in Traj /\ life[tr] = "saving"
      /\ life' = [life EXCEPT ![tr] = "closed"]
      /\ saved' = [saved EXCEPT ![tr] = Payload(tr)] \/ saved' = saved
      /\ UNCHANGED <<steps, status, since, rec>>
  BY <1>0, InnermostType DEF Save
<1>2. /\ life'[tr] = "closed"
      /\ saved'[tr] = Payload(tr) \/ saved'[tr] = saved[tr]
      /\ \A q \in Traj : q # tr => life'[q] = life[q] /\ saved'[q] = saved[q]
  BY <1>1 DEF TypeOK
<1>3. ASSUME NEW q \in Traj, q # tr  PROVE Story(q)' /\ Kept(q)'
  BY <1>1, <1>2, <1>3, StoryOther
<1>4. Story(tr)'
  <2>1. Open(tr)' <=> Open(tr)
    BY <1>1, <1>2 DEF Open
  <2> QED
    BY <1>1, <2>1 DEF StoryInv, Story
<1>5. Kept(tr)'
  <2>1. saved[tr] = NotSaved
    BY <1>1 DEF StoryInv, Kept
  <2>2. CASE saved'[tr] = Payload(tr)
    <3>1. saved'[tr].status = status[tr] /\ saved'[tr].steps = steps[tr]
      BY <2>2 DEF Payload
    <3>2. since[tr].steps <= Len(steps[tr]) /\ Len(steps[tr]) \in Nat
      BY <1>1, Lengths DEF StoryInv, Story
    <3> QED
      BY <1>1, <1>2, <3>1, <3>2 DEF Kept
  <2> QED
    BY <1>2, <2>1, <2>2 DEF Kept
<1>6. \A q \in Traj : \A i : Called(q, i) => Called(q, i)'
  BY <1>1 DEF Called
<1>7. \A d \in Ctx : Recorded(d)'
  BY <1>1, <1>6, RecordedKeeps
<1> QED
  BY <1>3, <1>4, <1>5, <1>7 DEF StoryInv

\* A recording that goes on is of what it was.
LEMMA GoesOnly ==
    ASSUME TypeOK, NEW c \in Ctx, NEW pc, Goes(c, pc)
    PROVE  /\ \A d \in Ctx : d # c => rec'[d] = rec[d]
           /\ rec'[c].pc = pc /\ rec'[c].kind = rec[c].kind
           /\ rec'[c].tr = rec[c].tr /\ rec'[c].id = rec[c].id
           /\ rec'[c].call = rec[c].call
  BY DEF TypeOK, Goes, Recording

\* A recording that begins.
LEMMA BeginsOnly ==
    ASSUME TypeOK, NEW c \in Ctx, NEW tr, NEW kind, NEW call, NEW pc,
           Begins(c, tr, kind, call, pc)
    PROVE  /\ \A d \in Ctx : d # c => rec'[d] = rec[d]
           /\ rec[c] = Idle
           /\ rec'[c] = [pc |-> pc, tr |-> tr, kind |-> kind, id |-> begun + 1,
                         call |-> call]
           /\ begun' = begun + 1 /\ life[tr] # "new"
           /\ UNCHANGED <<scopeVars, exitVars, openSpans, spans>>
  BY DEF TypeOK, Begins, Free

\* A recording that ends.
LEMMA RestOnly ==
    ASSUME TypeOK, NEW c \in Ctx, rec' = [rec EXCEPT ![c] = Idle]
    PROVE  /\ \A d \in Ctx : d # c => rec'[d] = rec[d]
           /\ rec'[c] = Idle /\ rec'[c].pc = "idle"
  BY DEF TypeOK, Idle

\* The call of a step is a step of the list.
LEMMA CalledStep ==
    ASSUME TypeOK, NEW tr \in Traj, NEW k \in DOMAIN steps[tr],
           steps[tr][k].kind = "CALL"
    PROVE  k \in 1..Len(steps[tr]) /\ Called(tr, steps[tr][k].id)
<1>1. k \in 1..Len(steps[tr])
  BY DEF TypeOK
<1> QED
  BY <1>1 DEF Called

\* Beginning to record keeps the story: a result is of a call in the list.
LEMMA StoryBegins ==
    ASSUME TypeOK, StoryInv, NEW c \in Ctx, NEW tr \in Traj,
           AddStep(c, tr) \/ RecordCall(c, tr) \/ RecordResult(c, tr)
    PROVE  StoryInv'
<1>1. CASE AddStep(c, tr)
  <2>0. PICK kind \in {"STEP", "ERROR"} :
            Begins(c, tr, kind, 0, "check") /\ AddTo(tr, kind, begun', 0)
    BY <1>1 DEF AddStep
  <2> DEFINE s == [kind |-> kind, id |-> begun + 1, call |-> 0]
  <2>1. /\ \A d \in Ctx : d # c => rec'[d] = rec[d]
        /\ rec'[c] = [pc |-> "check", tr |-> tr, kind |-> kind, id |-> begun + 1,
                      call |-> 0]
        /\ UNCHANGED exitVars
    BY <2>0, BeginsOnly
  <2>2. steps' = [steps EXCEPT ![tr] = Append(@, s)]
    BY <2>0 DEF AddTo, Begins
  <2>3. s \in StepRecord /\ s.kind \notin {"CALL", "RESULT"} /\ ~IsExitError(s)
    BY <2>0, TrajectoryAssumption DEF Begins, TypeOK, StepRecord, Kind
  <2> HIDE DEF s
  <2>4. \A q \in Traj : Story(q)' /\ Kept(q)'
    BY <2>1, <2>2, <2>3, StoryAppend
  <2>5. \A q \in Traj : \A i : Called(q, i) => Called(q, i)'
    BY <2>2, <2>3, CalledGrows
  <2>6. Recorded(c)'
    BY <2>1 DEF Recorded
  <2> QED
    BY <2>1, <2>4, <2>5, <2>6, RecordedKeeps DEF StoryInv
<1>2. ASSUME UNCHANGED <<steps, exitVars>>, Recorded(c)',
             \A d \in Ctx : d # c => rec'[d] = rec[d]
      PROVE  StoryInv'
  <2>1. \A q \in Traj : /\ status'[q] = status[q] /\ since'[q].steps = since[q].steps
                        /\ Open(q)' <=> Open(q)
                        /\ life[q] = "closed" => life'[q] = "closed"
    BY <1>2 DEF exitVars, Open
  <2>2. UNCHANGED <<steps, saved>>
    BY <1>2 DEF exitVars
  <2>3. /\ \A q \in Traj : Story(q)' /\ Kept(q)'
        /\ \A q \in Traj : \A i : Called(q, i)' <=> Called(q, i)
    BY <2>1, <2>2, StorySame
  <2> QED
    BY <1>2, <2>3, RecordedKeeps DEF StoryInv
<1>3. CASE RecordCall(c, tr)
  <2>1. PICK pc \in {"start", "append"} : Begins(c, tr, "CALL", 0, pc)
    BY <1>3 DEF RecordCall
  <2>2. /\ \A d \in Ctx : d # c => rec'[d] = rec[d]
        /\ rec'[c] = [pc |-> pc, tr |-> tr, kind |-> "CALL", id |-> begun + 1,
                      call |-> 0]
        /\ UNCHANGED exitVars
    BY <2>1, BeginsOnly
  <2>3. Recorded(c)'
    BY <2>1, <2>2 DEF Recorded
  <2> QED
    BY <1>2, <1>3, <2>2, <2>3 DEF RecordCall
<1>4. CASE RecordResult(c, tr)
  <2>1. PICK k \in DOMAIN steps[tr] :
            /\ steps[tr][k].kind = "CALL"
            /\ Begins(c, tr, "RESULT", steps[tr][k].id,
                      IF HasSpan(tr) THEN "pop" ELSE "append")
    BY <1>4 DEF RecordResult
  <2>2. PICK i : i = steps[tr][k].id
    OBVIOUS
  <2>3. PICK pc \in {"pop", "append"} : Begins(c, tr, "RESULT", i, pc)
    BY <2>1, <2>2
  <2>4. /\ \A d \in Ctx : d # c => rec'[d] = rec[d]
        /\ rec'[c] = [pc |-> pc, tr |-> tr, kind |-> "RESULT", id |-> begun + 1,
                      call |-> i]
        /\ UNCHANGED exitVars
    BY <2>3, BeginsOnly
  <2>5. Called(tr, i) /\ steps' = steps
    BY <1>4, <2>1, <2>2, CalledStep DEF RecordResult
  <2>6. Called(tr, i)'
    BY <2>5 DEF Called
  <2>7. Recorded(c)'
    <3>1. rec'[c].pc = pc /\ rec'[c].kind = "RESULT" /\ rec'[c].tr = tr
          /\ rec'[c].call = i
      BY <2>4
    <3> QED
      BY <2>3, <2>6, <3>1 DEF Recorded, Called
  <2> QED
    BY <1>2, <2>4, <2>5, <2>7
<1> QED
  BY <1>1, <1>3, <1>4

\* The other steps of a recording keep the story.
LEMMA StoryRecording ==
    ASSUME TypeOK, StoryInv, NEW c \in Ctx,
           \/ CheckSpan(c) \/ AddEvent(c) \/ StartSpan(c) \/ PopSpan(c)
           \/ EndSpan(c) \/ AppendStep(c) \/ Catch(c)
    PROVE  StoryInv'
<1>1. ASSUME UNCHANGED <<steps, exitVars>>, Recorded(c)',
             \A d \in Ctx : d # c => rec'[d] = rec[d]
      PROVE  StoryInv'
  <2>1. \A q \in Traj : /\ status'[q] = status[q] /\ since'[q].steps = since[q].steps
                        /\ Open(q)' <=> Open(q)
                        /\ life[q] = "closed" => life'[q] = "closed"
    BY <1>1 DEF exitVars, Open
  <2>2. UNCHANGED <<steps, saved>>
    BY <1>1 DEF exitVars
  <2>3. /\ \A q \in Traj : Story(q)' /\ Kept(q)'
        /\ \A q \in Traj : \A i : Called(q, i)' <=> Called(q, i)
    BY <2>1, <2>2, StorySame
  <2> QED
    BY <1>1, <2>3, RecordedKeeps DEF StoryInv
<1>2. ASSUME UNCHANGED <<steps, exitVars>>, rec' = [rec EXCEPT ![c] = Idle]
      PROVE  StoryInv'
  <2>1. /\ \A d \in Ctx : d # c => rec'[d] = rec[d]
        /\ Recorded(c)'
    BY <1>2, RestOnly DEF Recorded
  <2> QED
    BY <1>1, <1>2, <2>1
<1>3. ASSUME UNCHANGED <<steps, exitVars>>, rec[c].pc # "idle",
             NEW pc \in {"event", "append", "end", "raised"}, Goes(c, pc),
             pc = "end" => rec[c].kind = "RESULT"
      PROVE  StoryInv'
  <2>1. PICK r : r = rec[c]
    OBVIOUS
  <2>2. /\ \A d \in Ctx : d # c => rec'[d] = rec[d]
        /\ rec'[c].pc = pc /\ rec'[c].kind = r.kind
        /\ rec'[c].tr = r.tr /\ rec'[c].call = r.call
    BY <1>3, <2>1, GoesOnly
  <2>3. /\ r.kind \in {"STEP", "ERROR", "CALL", "RESULT"}
        /\ r.kind = "RESULT" => Called(r.tr, r.call)
    BY <1>3, <2>1 DEF StoryInv, Recorded
  <2>4. Called(r.tr, r.call) => Called(r.tr, r.call)'
    BY <1>3 DEF Called
  <2>5. Recorded(c)'
    BY <1>3, <2>1, <2>2, <2>3, <2>4 DEF Recorded, Called
  <2> QED
    BY <1>1, <1>3, <2>2, <2>5
<1>4. CASE CheckSpan(c)
  BY <1>2, <1>3, <1>4 DEF CheckSpan, Checks
<1>5. CASE AddEvent(c)
  BY <1>2, <1>3, <1>5 DEF AddEvent
<1>6. CASE StartSpan(c)
  BY <1>3, <1>6 DEF StartSpan
<1>7. CASE PopSpan(c)
  <2>1. rec[c].pc = "pop" /\ rec[c].kind = "RESULT"
    BY <1>7 DEF PopSpan, StoryInv, Recorded
  <2> QED
    BY <1>3, <1>7, <2>1 DEF PopSpan
<1>8. CASE EndSpan(c)
  BY <1>3, <1>8 DEF EndSpan
<1>9. CASE Catch(c)
  BY <1>2, <1>9 DEF Catch
<1>10. CASE AppendStep(c)
  <2>1. PICK r : r = rec[c]
    OBVIOUS
  <2>2. PICK s : s = [kind |-> r.kind, id |-> r.id, call |-> r.call]
    OBVIOUS
  <2>3. /\ r \in Recording /\ r.tr \in Traj
        /\ r.kind \in {"STEP", "ERROR", "CALL", "RESULT"}
        /\ r.kind = "RESULT" => Called(r.tr, r.call)
    BY <1>10, <2>1 DEF AppendStep, TypeOK, StoryInv, Recorded
  <2>4. /\ s \in StepRecord /\ s.kind = r.kind /\ s.call = r.call
        /\ ~IsExitError(s)
    <3>1. r.id # 0
      BY <1>10, <2>1 DEF AppendStep, TypeOK
    <3> QED
      BY <2>2, <2>3, <3>1 DEF Recording, StepRecord
  <2>5. /\ steps' = [steps EXCEPT ![r.tr] = Append(@, s)]
        /\ rec' = [rec EXCEPT ![c] = Idle]
        /\ UNCHANGED exitVars
    BY <1>10, <2>1, <2>2 DEF AppendStep, AddTo
  <2>6. \A q \in Traj : Story(q)' /\ Kept(q)'
    BY <2>3, <2>4, <2>5, StoryAppend
  <2>7. \A q \in Traj : \A i : Called(q, i) => Called(q, i)'
    BY <2>3, <2>4, <2>5, CalledGrows
  <2>8. /\ \A d \in Ctx : d # c => rec'[d] = rec[d]
        /\ Recorded(c)'
    BY <2>5, RestOnly DEF Recorded
  <2> QED
    BY <2>6, <2>7, <2>8, RecordedKeeps DEF StoryInv
<1> QED
  BY <1>4, <1>5, <1>6, <1>7, <1>8, <1>9, <1>10

\* Every step keeps the story.
LEMMA StoryNext == TypeOK /\ StoryInv /\ [Next]_vars => StoryInv'
<1> SUFFICES ASSUME TypeOK, StoryInv, [Next]_vars  PROVE StoryInv'
  OBVIOUS
<1>1. CASE UNCHANGED vars
  <2>1. UNCHANGED <<steps, saved, rec, status, since, life>>
    BY <1>1 DEF vars, exitVars
  <2>2. /\ \A q \in Traj : Story(q)' /\ Kept(q)'
        /\ \A q \in Traj : \A i : Called(q, i)' <=> Called(q, i)
    BY <2>1, StorySame DEF Open
  <2> QED
    BY <2>1, <2>2, RecordedKeeps DEF StoryInv
<1> QED
  BY <1>1, StoryScope, StoryExit, StorySave, StoryBegins, StoryRecording
     DEF Next, RecordStep

\* What is saved is complete: the steps of the list in order, all of those up to
\* the exit, and FAILED exactly if an exception left the block, whose error step
\* is among them.
THEOREM SavedCorrect == Spec => []SavedIsComplete
<1>1. TypeOK /\ StoryInv => SavedIsComplete
  <2> SUFFICES ASSUME TypeOK, StoryInv, NEW tr \in Traj, saved[tr] # NotSaved
               PROVE  LET old == since[tr].steps
                          p == saved[tr].steps
                      IN /\ old <= Len(p) /\ Len(p) <= Len(steps[tr])
                         /\ p = SubSeq(steps[tr], 1, Len(p))
                         /\ saved[tr].status = "FAILED" <=>
                               \E k \in 1..old : IsExitError(p[k])
    BY DEF SavedIsComplete
  <2>1. PICK old : old = since[tr].steps
    OBVIOUS
  <2>2. PICK p : p = saved[tr].steps
    OBVIOUS
  <2>3. PICK l : l = steps[tr]
    OBVIOUS
  <2>4. /\ p \in Seq(StepRecord) /\ l \in Seq(StepRecord) /\ old \in Nat
        /\ Len(p) \in Nat /\ Len(l) \in Nat
    BY <2>1, <2>2, <2>3 DEF TypeOK
  <2>5. /\ life[tr] = "closed" /\ saved[tr].status = status[tr]
        /\ old <= Len(p) /\ Len(p) <= Len(l)
        /\ \A k \in 1..Len(p) : p[k] = l[k]
    BY <2>1, <2>2, <2>3 DEF StoryInv, Kept
  <2>6. \A k \in 1..old : k \in 1..Len(p)
    BY <2>4, <2>5
  <2>7. p = SubSeq(l, 1, Len(p))
    <3>1. /\ SubSeq(l, 1, Len(p)) = [k \in 1..Len(p) |-> l[k]]
          /\ p = [k \in 1..Len(p) |-> p[k]]
      BY <2>4, <2>5
    <3> QED
      BY <2>5, <3>1
  <2>8. saved[tr].status = "FAILED" <=> \E k \in 1..old : IsExitError(p[k])
    <3>1. ~Open(tr)
      BY <2>5 DEF Open
    <3>2. status[tr] = "FAILED" <=> \E k \in 1..old : IsExitError(l[k])
      BY <2>1, <2>3, <3>1 DEF StoryInv, Story
    <3> QED
      BY <2>5, <2>6, <3>2
  <2> QED
    BY <2>1, <2>2, <2>3, <2>5, <2>7, <2>8
<1> QED
  BY <1>1, StoryInit, StoryNext, TypeInit, TypeNext, PTL DEF Spec

-----------------------------------------------------------------------------
(* What becomes of the spans                                               *)

\* The context is recording a call.
Calling(c) == rec[c].kind = "CALL" /\ rec[c].pc \in {"start", "append"}

\* A call numbered i is being recorded.
Placing(tr, i) == \E c \in Ctx : Calling(c) /\ rec[c].tr = tr /\ rec[c].id = i

\* The span numbered i, if there is one, was made for a call of the trajectory.
Owns(tr, i) == Called(tr, i) \/ Placing(tr, i)

\* The result of the call numbered i is about to end its span.
Ending(i) == \E c \in Ctx : rec[c].pc = "end" /\ rec[c].call = i

\* The call was recorded before the exit.
Old(tr, i) ==
    \E k \in 1..since[tr].steps : steps[tr][k].kind = "CALL" /\ steps[tr][k].id = i

\* Its result was recorded, and before the exit.
Replied(tr, i) ==
    \E k \in 1..Len(steps[tr]) :
        /\ steps[tr][k].kind = "RESULT" /\ steps[tr][k].call = i
        /\ Open(tr) \/ k <= since[tr].steps

\* Its result is being recorded, and there is no exit yet.
Replying(tr, i) ==
    /\ Open(tr)
    /\ \E c \in Ctx : /\ rec[c].pc \in {"end", "append"} /\ rec[c].kind = "RESULT"
                      /\ rec[c].tr = tr /\ rec[c].call = i

\* A number is given to one call.
Numbered ==
    /\ \A tr \in Traj : \A i : Owns(tr, i) => i \in 1..begun
    /\ \A r, q \in Traj : \A i : Owns(r, i) /\ Owns(q, i) => r = q
    /\ \A c \in Ctx : Calling(c) =>
          /\ \A tr \in Traj : ~Called(tr, rec[c].id)
          /\ \A d \in Ctx : Calling(d) /\ rec[d].id = rec[c].id => d = c
    /\ \A i \in Id : i > begun => spans[i] = "none"

\* The trajectory's dict and the list of its exit have spans of its own.  One
\* that is open is in the dict, or taken out of it to be ended; if its call is
\* old and it is in the dict, the exit has it on its list.  One whose result
\* took it from the dict is not there for the exit.
Spanned(tr) ==
    /\ \A i \in openSpans[tr] \cup drain[tr] : Owns(tr, i)
    /\ \A i : Owns(tr, i) =>
          /\ spans[i] = "open" => i \in openSpans[tr] \/ Ending(i)
          /\ Open(tr) => spans[i] # "orphaned"
    /\ \A i : Old(tr, i) /\ i \in openSpans[tr] => i \in drain[tr]
    /\ \A i : Replied(tr, i) \/ Replying(tr, i) =>
          i \notin openSpans[tr] \cup drain[tr] /\ spans[i] # "orphaned"

SpanInv == Numbered /\ \A tr \in Traj : Spanned(tr)

\* No span has been made initially.
LEMMA SpanInit == Init => SpanInv
<1> SUFFICES ASSUME Init  PROVE SpanInv
  OBVIOUS
<1>1. \A tr \in Traj : /\ Len(steps[tr]) = 0 /\ since[tr].steps = 0
                       /\ openSpans[tr] = {} /\ drain[tr] = {}
  BY DEF Init
<1>2. \A c \in Ctx : rec[c].pc = "idle"
  BY DEF Init, Idle
<1>3. \A tr \in Traj : \A i : ~Owns(tr, i) /\ ~Old(tr, i) /\ ~Replied(tr, i)
                                /\ ~Replying(tr, i)
  BY <1>1, <1>2 DEF Owns, Called, Placing, Calling, Old, Replied, Replying
<1>4. \A c \in Ctx : ~Calling(c)
  BY <1>2 DEF Calling
<1>5. \A i \in Id : spans[i] = "none"
  BY DEF Init
<1> QED
  BY <1>1, <1>3, <1>4, <1>5 DEF SpanInv, Numbered, Spanned

\* Numbers in use are among those of the spans.
LEMMA OwnedId ==
    ASSUME TypeOK, SpanInv, NEW tr \in Traj, NEW i, Owns(tr, i)
    PROVE  i \in Id /\ i \in 1..begun
  BY TrajectoryAssumption DEF TypeOK, SpanInv, Numbered, Id

\* Numbers stay with their calls.
LEMMA NumberedSame ==
    ASSUME SpanInv, begun \in Nat, begun' \in Nat, begun' >= begun,
           \A q \in Traj : \A i : /\ Called(q, i)' <=> Called(q, i)
                                  /\ Placing(q, i)' => Placing(q, i),
           \A c \in Ctx : Calling(c)' => Calling(c) /\ rec'[c].id = rec[c].id,
           \A i \in Id : i > begun' => spans'[i] = spans[i]
    PROVE  Numbered'
<1>1. \A q \in Traj : \A i : Owns(q, i)' => Owns(q, i)
  BY DEF Owns
<1>2. \A q \in Traj : \A i : Owns(q, i)' => i \in 1..begun'
  BY <1>1 DEF SpanInv, Numbered
<1>3. \A r, q \in Traj : \A i : Owns(r, i)' /\ Owns(q, i)' => r = q
  BY <1>1 DEF SpanInv, Numbered
<1>4. ASSUME NEW c \in Ctx, Calling(c)'
      PROVE  /\ \A tr \in Traj : ~Called(tr, rec[c].id)'
             /\ \A d \in Ctx : Calling(d)' /\ rec'[d].id = rec'[c].id => d = c
  <2>1. PICK j : j = rec[c].id
    OBVIOUS
  <2>2. \A tr \in Traj : ~Called(tr, j)
    BY <1>4, <2>1 DEF SpanInv, Numbered
  <2>3. \A tr \in Traj : ~Called(tr, j)'
    BY <2>2
  <2>4. rec'[c].id = j
    BY <1>4, <2>1
  <2>5. \A tr \in Traj : ~Called(tr, rec[c].id)'
    BY <2>3, <2>4 DEF Called
  <2> QED
    BY <1>4, <2>5 DEF SpanInv, Numbered
<1>5. \A i \in Id : i > begun' => spans'[i] = "none"
  BY DEF SpanInv, Numbered, Id
<1> QED
  BY <1>2, <1>3, <1>4, <1>5 DEF Numbered

\* A trajectory whose spans a step neither makes nor ends, and in which no more
\* calls are old or answered than before.
LEMMA SpannedSame ==
    ASSUME NEW tr \in Traj, Spanned(tr),
           openSpans'[tr] = openSpans[tr], drain'[tr] = drain[tr],
           \A i : /\ Owns(tr, i)' <=> Owns(tr, i)
                  /\ Owns(tr, i) => spans'[i] = spans[i] /\ (Ending(i) => Ending(i)')
                  /\ Old(tr, i)' => Old(tr, i)
                  /\ Replied(tr, i) \/ Replying(tr, i) => Owns(tr, i)
                  /\ Replied(tr, i)' \/ Replying(tr, i)' =>
                        Replied(tr, i) \/ Replying(tr, i),
           Open(tr)' => Open(tr)
    PROVE  Spanned(tr)'
<1>1. \A i \in openSpans'[tr] \cup drain'[tr] : Owns(tr, i)'
  BY DEF Spanned
<1>2. \A i : Owns(tr, i)' =>
          /\ spans'[i] = "open" => i \in openSpans'[tr] \/ Ending(i)'
          /\ Open(tr)' => spans'[i] # "orphaned"
  BY DEF Spanned
<1>3. \A i : Old(tr, i)' /\ i \in openSpans'[tr] => i \in drain'[tr]
  BY DEF Spanned
<1>4. \A i : Replied(tr, i)' \/ Replying(tr, i)' =>
          i \notin openSpans'[tr] \cup drain'[tr] /\ spans'[i] # "orphaned"
  BY DEF Spanned
<1> QED
  BY <1>1, <1>2, <1>3, <1>4 DEF Spanned

\* A result is of a call of the trajectory, and so are the old calls.
LEMMA RepliesOwned ==
    ASSUME TypeOK, StoryInv, NEW tr \in Traj, NEW i
    PROVE  /\ Replied(tr, i) \/ Replying(tr, i) => Called(tr, i)
           /\ Old(tr, i) => Called(tr, i)
<1> DEFINE n == Len(steps[tr])
           t == since[tr].steps
<1>1. n \in Nat /\ t \in Nat /\ t <= n
  BY Lengths DEF StoryInv, Story
<1>2. ASSUME Replied(tr, i)  PROVE Called(tr, i)
  <2>1. PICK k \in 1..n : steps[tr][k].kind = "RESULT" /\ steps[tr][k].call = i
    BY <1>2 DEF Replied
  <2>2. PICK j \in 1..(k - 1) : steps[tr][j].kind = "CALL" /\ steps[tr][j].id = i
    BY <2>1 DEF StoryInv, Story
  <2>3. j \in 1..n
    BY <1>1
  <2> QED
    BY <2>2, <2>3 DEF Called
<1>3. ASSUME Replying(tr, i)  PROVE Called(tr, i)
  <2>1. PICK c \in Ctx : /\ rec[c].pc \in {"end", "append"} /\ rec[c].kind = "RESULT"
                         /\ rec[c].tr = tr /\ rec[c].call = i
    BY <1>3 DEF Replying
  <2> QED
    BY <2>1 DEF StoryInv, Recorded
<1>4. ASSUME Old(tr, i)  PROVE Called(tr, i)
  <2>1. PICK k \in 1..t : steps[tr][k].kind = "CALL" /\ steps[tr][k].id = i
    BY <1>4 DEF Old
  <2>2. k \in 1..n
    <3> HIDE DEF n, t
    <3> QED
      BY <1>1
  <2> QED
    BY <2>1, <2>2 DEF Called
<1> QED
  BY <1>2, <1>3, <1>4

\* What depends only on the lists.
LEMMA ListsSame ==
    ASSUME UNCHANGED steps,
           \A q \in Traj : since'[q].steps = since[q].steps /\ (Open(q)' <=> Open(q))
    PROVE  \A q \in Traj : \A i : /\ Called(q, i)' <=> Called(q, i)
                                  /\ Old(q, i)' <=> Old(q, i)
                                  /\ Replied(q, i)' <=> Replied(q, i)
<1> SUFFICES ASSUME NEW q \in Traj, NEW i
             PROVE  /\ Called(q, i)' <=> Called(q, i)
                    /\ Old(q, i)' <=> Old(q, i)
                    /\ Replied(q, i)' <=> Replied(q, i)
  OBVIOUS
<1>1. Called(q, i)' <=> Called(q, i)
  BY DEF Called
<1>2. Old(q, i)' <=> Old(q, i)
  BY DEF Old
<1>3. Replied(q, i)' <=> Replied(q, i)
  BY DEF Replied
<1> QED
  BY <1>1, <1>2, <1>3

\* A list that has one more step: the old ones stay as they are, and a result is
\* answered if there is no exit yet.
LEMMA ListsGrow ==
    ASSUME TypeOK, StoryInv, NEW tr \in Traj, NEW s \in StepRecord,
           steps' = [steps EXCEPT ![tr] = Append(@, s)], UNCHANGED <<life, since>>
    PROVE  \A q \in Traj : \A i :
              /\ Called(q, i)' <=> \/ Called(q, i)
                                   \/ q = tr /\ s.kind = "CALL" /\ s.id = i
              /\ Old(q, i)' <=> Old(q, i)
              /\ Replied(q, i)' => \/ Replied(q, i)
                                   \/ /\ q = tr /\ Open(q)
                                      /\ s.kind = "RESULT" /\ s.call = i
<1> DEFINE n == Len(steps[tr])
           t == since[tr].steps
<1>1. /\ n \in Nat /\ Len(steps'[tr]) = n + 1 /\ steps'[tr][n + 1] = s
      /\ \A k \in 1..n : steps'[tr][k] = steps[tr][k]
      /\ \A q \in Traj : q # tr => steps'[q] = steps[q]
  BY Appended
<1>2. t \in Nat /\ t <= n
  BY Lengths DEF StoryInv, Story
<1>3. \A q \in Traj : Open(q)' <=> Open(q)
  BY DEF Open
<1> SUFFICES ASSUME NEW q \in Traj, NEW i
             PROVE  /\ Old(q, i)' <=> Old(q, i)
                    /\ Replied(q, i)' => \/ Replied(q, i)
                                         \/ /\ q = tr /\ Open(q)
                                            /\ s.kind = "RESULT" /\ s.call = i
  BY CalledGrows
<1>4. CASE q # tr
  <2>1. steps'[q] = steps[q] /\ since'[q] = since[q]
    BY <1>1, <1>4
  <2> QED
    BY <1>3, <2>1 DEF Old, Replied
<1>5. CASE q = tr
  <2>1. Old(tr, i)' <=> Old(tr, i)
    <3>1. \A k \in 1..t : steps'[tr][k] = steps[tr][k]
      <4> HIDE DEF n, t
      <4>1. \A k \in 1..t : k \in 1..n
        BY <1>1, <1>2
      <4> QED
        BY <1>1, <4>1
    <3>2. Old(tr, i)' <=> \E k \in 1..t : steps'[tr][k].kind = "CALL"
                                           /\ steps'[tr][k].id = i
      BY DEF Old
    <3>3. Old(tr, i) <=> \E k \in 1..t : steps[tr][k].kind = "CALL"
                                          /\ steps[tr][k].id = i
      BY DEF Old
    <3> HIDE DEF t
    <3> QED
      BY <3>1, <3>2, <3>3
  <2>2. ASSUME Replied(tr, i)'
        PROVE  Replied(tr, i) \/ (Open(tr) /\ s.kind = "RESULT" /\ s.call = i)
    <3>1. PICK k \in 1..(n + 1) :
              /\ steps'[tr][k].kind = "RESULT" /\ steps'[tr][k].call = i
              /\ Open(tr) \/ k <= t
      BY <1>1, <1>3, <2>2 DEF Replied
    <3>2. CASE k = n + 1
      <4>1. ~(k <= t)
        <5> HIDE DEF n, t
        <5> QED
          BY <1>1, <1>2, <3>2
      <4> QED
        BY <1>1, <3>1, <3>2, <4>1
    <3>3. CASE k # n + 1
      <4>1. k \in 1..n
        BY <1>1, <3>3
      <4> QED
        BY <1>1, <3>1, <4>1 DEF Replied
    <3> QED
      BY <3>2, <3>3
  <2> QED
    BY <1>5, <2>1, <2>2
<1> QED
  BY <1>4, <1>5

\* What depends only on the recordings, if none goes to or leaves a place at
\* which it has to do with spans.
LEMMA RecsSame ==
    ASSUME \A d \in Ctx : \/ rec'[d] = rec[d]
                          \/ /\ rec[d].pc \notin {"start", "append", "end"}
                             /\ rec'[d].pc \notin {"start", "append", "end"},
           \A q \in Traj : Open(q)' <=> Open(q)
    PROVE  /\ \A q \in Traj : \A i : /\ Placing(q, i)' <=> Placing(q, i)
                                     /\ Replying(q, i)' <=> Replying(q, i)
           /\ \A i : Ending(i)' <=> Ending(i)
           /\ \A d \in Ctx : Calling(d)' => Calling(d) /\ rec'[d].id = rec[d].id
<1>1. \A d \in Ctx : \/ rec[d].pc \in {"start", "append", "end"}
                     \/ rec'[d].pc \in {"start", "append", "end"}
                     => rec'[d] = rec[d]
  OBVIOUS
<1>2. \A d \in Ctx : /\ Calling(d)' <=> Calling(d)
                     /\ Calling(d) => rec'[d] = rec[d]
  BY <1>1 DEF Calling
<1>3. \A q \in Traj : \A i : Placing(q, i)' <=> Placing(q, i)
  BY <1>2 DEF Placing
<1>4. \A i : Ending(i)' <=> Ending(i)
  BY <1>1 DEF Ending
<1>5. \A q \in Traj : \A i : Replying(q, i)' <=> Replying(q, i)
  BY <1>1 DEF Replying
<1> QED
  BY <1>2, <1>3, <1>4, <1>5

\* A step that has nothing to do with spans and neither begins nor ends an exit.
LEMMA SpanQuiet ==
    ASSUME TypeOK, StoryInv, SpanInv, UNCHANGED <<steps, openSpans, spans, drain, begun>>,
           \A d \in Ctx : \/ rec'[d] = rec[d]
                          \/ /\ rec[d].pc \notin {"start", "append", "end"}
                             /\ rec'[d].pc \notin {"start", "append", "end"},
           \A q \in Traj : since'[q].steps = since[q].steps /\ (Open(q)' <=> Open(q))
    PROVE  SpanInv'
<1>1. \A q \in Traj : \A i : /\ Called(q, i)' <=> Called(q, i)
                             /\ Old(q, i)' <=> Old(q, i)
                             /\ Replied(q, i)' <=> Replied(q, i)
  BY ListsSame
<1>2. /\ \A q \in Traj : \A i : /\ Placing(q, i)' <=> Placing(q, i)
                                /\ Replying(q, i)' <=> Replying(q, i)
      /\ \A i : Ending(i)' <=> Ending(i)
      /\ \A d \in Ctx : Calling(d)' => Calling(d) /\ rec'[d].id = rec[d].id
  BY RecsSame
<1>3. begun \in Nat /\ begun' = begun /\ begun' \in Nat /\ begun' >= begun
  BY TrajectoryAssumption DEF TypeOK
<1>4. Numbered'
  BY <1>1, <1>2, <1>3, NumberedSame
<1>5. \A q \in Traj : \A i : /\ Owns(q, i)' <=> Owns(q, i)
                             /\ Replied(q, i) \/ Replying(q, i) => Owns(q, i)
  BY <1>1, <1>2, RepliesOwned DEF Owns
<1>6. ASSUME NEW q \in Traj  PROVE Spanned(q)'
  <2>1. Spanned(q)
    BY DEF SpanInv
  <2> QED
    BY <1>1, <1>2, <1>5, <2>1, SpannedSame
<1> QED
  BY <1>4, <1>6 DEF SpanInv

\* Entering a block, making a task, closing and saving leave the spans alone.
LEMMA SpanScope ==
    ASSUME TypeOK, StoryInv, SpanInv, NEW c \in Ctx,
           \/ \E tr \in Traj : Enter(c, tr)
           \/ \E d \in Ctx : Spawn(c, d)
           \/ Close(c) \/ Save(c)
    PROVE  SpanInv'
<1>1. /\ UNCHANGED <<steps, openSpans, spans, drain, begun>>
      /\ \A d \in Ctx : rec'[d] = rec[d]
  BY DEF Enter, Spawn, Close, Closes, Save, exitVars
<1>2. ASSUME \A q \in Traj : since'[q].steps = since[q].steps /\ (Open(q)' <=> Open(q))
      PROVE  SpanInv'
  BY <1>1, <1>2, SpanQuiet
<1>3. ASSUME NEW tr \in Traj, Enter(c, tr)  PROVE SpanInv'
  <2>1. life[tr] = "new" /\ life' = [life EXCEPT ![tr] = "open"] /\ since' = since
    BY <1>3 DEF Enter
  <2>2. \A q \in Traj : life'[q] = IF q = tr THEN "open" ELSE life[q]
    BY <2>1 DEF TypeOK
  <2> QED
    BY <1>2, <2>1, <2>2 DEF Open
<1>4. ASSUME NEW d \in Ctx, Spawn(c, d)  PROVE SpanInv'
  BY <1>2, <1>4 DEF Spawn, exitVars, Open
<1>5. CASE Close(c)
  <2>1. /\ Innermost(c) \in Traj /\ life[Innermost(c)] = "draining"
        /\ life' = [life EXCEPT ![Innermost(c)] = "saving"]
        /\ since' = [since EXCEPT ![Innermost(c)].closed = begun]
    BY <1>5, InnermostType DEF Close, Closes
  <2>2. \A q \in Traj : life'[q] = IF q = Innermost(c) THEN "saving" ELSE life[q]
    BY <2>1 DEF TypeOK
  <2>3. \A q \in Traj : since'[q].steps = since[q].steps
    BY <2>1 DEF TypeOK
  <2> QED
    BY <1>2, <2>1, <2>2, <2>3 DEF Open
<1>6. CASE Save(c)
  <2>1. /\ Innermost(c) \in Traj /\ life[Innermost(c)] = "saving"
        /\ life' = [life EXCEPT ![Innermost(c)] = "closed"] /\ since' = since
    BY <1>6, InnermostType DEF Save
  <2>2. \A q \in Traj : life'[q] = IF q = Innermost(c) THEN "closed" ELSE life[q]
    BY <2>1 DEF TypeOK
  <2> QED
    BY <1>2, <2>1, <2>2 DEF Open
<1> QED
  BY <1>3, <1>4, <1>5, <1>6

\* The beginning of an exit lists what is in the dict; the results recorded so
\* far are those of before it.
LEMMA SpanExit ==
    ASSUME TypeOK, StoryInv, SpanInv, NEW c \in Ctx, NEW raised \in BOOLEAN,
           Exit(c, raised)
    PROVE  SpanInv'
<1>1. PICK tr : tr = Innermost(c)
  OBVIOUS
<1>2. PICK after : after = WithError(tr, raised)
  OBVIOUS
<1>3. PICK s : s = [kind |-> "ERROR", id |-> 0, call |-> 0]
  OBVIOUS
<1>4. s \in StepRecord /\ s.kind = "ERROR"
  BY <1>3, TrajectoryAssumption DEF StepRecord, Kind
<1>5. /\ tr \in Traj /\ life[tr] = "open"
      /\ life' = [life EXCEPT ![tr] = "draining"]
      /\ steps' = [steps EXCEPT ![tr] = after]
      /\ since' = [since EXCEPT ![tr].steps = Len(after)]
      /\ drain' = [drain EXCEPT ![tr] = openSpans[tr]]
      /\ rec' = rec /\ openSpans' = openSpans /\ spans' = spans /\ begun' = begun
  BY <1>1, <1>2, InnermostType DEF Exit, Free
<1>6. /\ life'[tr] = "draining" /\ steps'[tr] = after /\ since'[tr].steps = Len(after)
      /\ drain'[tr] = openSpans[tr]
      /\ \A q \in Traj : q # tr => /\ life'[q] = life[q] /\ steps'[q] = steps[q]
                                   /\ since'[q] = since[q] /\ drain'[q] = drain[q]
  BY <1>5 DEF TypeOK
<1>7. after = steps[tr] \/ after = Append(steps[tr], s)
  BY <1>2, <1>3 DEF WithError
<1>8. \A q \in Traj : \A i : Called(q, i)' <=> Called(q, i)
  <2>1. CASE after = steps[tr]
    BY <1>6, <2>1 DEF Called
  <2>2. CASE after = Append(steps[tr], s)
    <3>1. steps' = [steps EXCEPT ![tr] = Append(@, s)]
      BY <1>5, <2>2
    <3> QED
      BY <1>4, <1>5, <3>1, CalledGrows
  <2> QED
    BY <1>7, <2>1, <2>2
<1>9. /\ \A q \in Traj : \A i : Placing(q, i)' <=> Placing(q, i)
      /\ \A i : Ending(i)' <=> Ending(i)
      /\ \A d \in Ctx : Calling(d)' => Calling(d) /\ rec'[d].id = rec[d].id
  BY <1>5 DEF Placing, Ending, Calling
<1>10. \A q \in Traj : \A i : Owns(q, i)' <=> Owns(q, i)
  BY <1>8, <1>9 DEF Owns
<1>11. Numbered'
  <2>1. begun \in Nat /\ begun' \in Nat /\ begun' >= begun
    BY <1>5, TrajectoryAssumption DEF TypeOK
  <2> QED
    BY <1>5, <1>8, <1>9, <2>1, NumberedSame
<1>12. ASSUME NEW q \in Traj, q # tr  PROVE Spanned(q)'
  <2>1. Spanned(q)
    BY DEF SpanInv
  <2>2. Open(q)' <=> Open(q)
    BY <1>6, <1>12 DEF Open
  <2>3. \A i : /\ Old(q, i)' <=> Old(q, i)
               /\ Replied(q, i)' <=> Replied(q, i)
               /\ Replying(q, i)' <=> Replying(q, i)
    <3>1. \A i : Old(q, i)' <=> Old(q, i)
      BY <1>6, <1>12 DEF Old
    <3>2. \A i : Replied(q, i)' <=> Replied(q, i)
      BY <1>6, <1>12, <2>2 DEF Replied
    <3>3. \A i : Replying(q, i)' <=> Replying(q, i)
      BY <1>5, <2>2 DEF Replying
    <3> QED
      BY <3>1, <3>2, <3>3
  <2>4. \A i : Replied(q, i) \/ Replying(q, i) => Owns(q, i)
    BY RepliesOwned DEF Owns
  <2>5. openSpans'[q] = openSpans[q] /\ drain'[q] = drain[q] /\ spans' = spans
    BY <1>5, <1>6, <1>12
  <2> QED
    BY <1>9, <1>10, <2>1, <2>2, <2>3, <2>4, <2>5, SpannedSame
<1>13. Spanned(tr)'
  <2>1. Spanned(tr) /\ Open(tr) /\ ~Open(tr)'
    BY <1>5, <1>6 DEF SpanInv, Open
  <2>2. \A i : ~Replying(tr, i)'
    BY <2>1 DEF Replying
  <2>3. ASSUME NEW i, Replied(tr, i)'  PROVE Replied(tr, i)
    <3>1. PICK k \in 1..Len(after) : after[k].kind = "RESULT" /\ after[k].call = i
      BY <1>6, <2>3 DEF Replied
    <3>2. k \in 1..Len(steps[tr]) /\ after[k] = steps[tr][k]
      <4>1. CASE after = steps[tr]
        BY <4>1
      <4>2. CASE after = Append(steps[tr], s)
        BY <1>4, <1>5, <3>1, <4>2 DEF TypeOK
      <4> QED
        BY <1>7, <4>1, <4>2
    <3> QED
      BY <2>1, <3>1, <3>2 DEF Replied
  <2>4. \A i \in openSpans'[tr] \cup drain'[tr] : Owns(tr, i)'
    BY <1>5, <1>6, <1>10, <2>1 DEF Spanned
  <2>5. \A i : Owns(tr, i)' => (spans'[i] = "open" => i \in openSpans'[tr] \/ Ending(i)')
    BY <1>5, <1>9, <1>10, <2>1 DEF Spanned
  <2>6. \A i : Old(tr, i)' /\ i \in openSpans'[tr] => i \in drain'[tr]
    BY <1>5, <1>6
  <2>7. \A i : Replied(tr, i)' \/ Replying(tr, i)' =>
            i \notin openSpans'[tr] \cup drain'[tr] /\ spans'[i] # "orphaned"
    BY <1>5, <1>6, <2>1, <2>2, <2>3 DEF Spanned
  <2> QED
    BY <2>1, <2>4, <2>5, <2>6, <2>7 DEF Spanned
<1> QED
  BY <1>11, <1>12, <1>13 DEF SpanInv

\* The exit ends spans of its own trajectory only, and none whose result took it
\* from the dict.
LEMMA SpanDrain ==
    ASSUME TypeOK, StoryInv, SpanInv, NEW c \in Ctx, Drain(c)
    PROVE  SpanInv'
<1>1. PICK tr : tr = Innermost(c)
  OBVIOUS
<1>2. tr \in Traj /\ life[tr] = "draining"
  BY <1>1, InnermostType DEF Drain
<1>3. PICK i \in drain[tr] :
          /\ spans' = [spans EXCEPT ![i] = IF @ = "open" THEN "orphaned" ELSE @]
          /\ openSpans' = [openSpans EXCEPT ![tr] = @ \ {i}]
          /\ drain' = [drain EXCEPT ![tr] = @ \ {i}]
  BY <1>1 DEF Drain, Orphans, Ends
<1>4. UNCHANGED <<life, since, steps, rec, begun>>
  BY DEF Drain
<1>5. Owns(tr, i) /\ i \in Id
  BY <1>2, OwnedId DEF SpanInv, Spanned
<1>6. /\ openSpans'[tr] = openSpans[tr] \ {i} /\ drain'[tr] = drain[tr] \ {i}
      /\ \A q \in Traj : q # tr => openSpans'[q] = openSpans[q] /\ drain'[q] = drain[q]
      /\ spans'[i] # "open"
      /\ \A j \in Id : j # i => spans'[j] = spans[j]
  BY <1>2, <1>3, <1>5 DEF TypeOK
<1>7. \A q \in Traj : Open(q)' <=> Open(q)
  BY <1>4 DEF Open
<1>8. \A q \in Traj : \A j : /\ Called(q, j)' <=> Called(q, j)
                             /\ Old(q, j)' <=> Old(q, j)
                             /\ Replied(q, j)' <=> Replied(q, j)
  BY <1>4, <1>7, ListsSame
<1>9. /\ \A q \in Traj : \A j : /\ Placing(q, j)' <=> Placing(q, j)
                                /\ Replying(q, j)' <=> Replying(q, j)
      /\ \A j : Ending(j)' <=> Ending(j)
      /\ \A d \in Ctx : Calling(d)' => Calling(d) /\ rec'[d].id = rec[d].id
  BY <1>4, <1>7, RecsSame
<1>10. Numbered'
  <2>1. begun \in Nat /\ begun' \in Nat /\ begun' >= begun /\ i <= begun
    BY <1>2, <1>4, <1>5, OwnedId, TrajectoryAssumption DEF TypeOK
  <2>2. \A j \in Id : j > begun' => spans'[j] = spans[j]
    BY <1>4, <1>5, <1>6, <2>1 DEF Id
  <2> QED
    BY <1>8, <1>9, <2>1, <2>2, NumberedSame
<1>11. \A q \in Traj : \A j : /\ Owns(q, j)' <=> Owns(q, j)
                              /\ Owns(q, j) => j \in Id
                              /\ Replied(q, j) \/ Replying(q, j) => Owns(q, j)
  BY <1>8, <1>9, OwnedId, RepliesOwned DEF Owns
<1>12. ASSUME NEW q \in Traj, q # tr  PROVE Spanned(q)'
  <2>1. Spanned(q)
    BY DEF SpanInv
  <2>2. \A j : Owns(q, j) => j # i
    BY <1>2, <1>5, <1>12 DEF SpanInv, Numbered
  <2>3. \A j : Owns(q, j) => spans'[j] = spans[j]
    BY <1>6, <1>11, <2>2
  <2>4. openSpans'[q] = openSpans[q] /\ drain'[q] = drain[q]
    BY <1>6, <1>12
  <2> QED
    BY <1>7, <1>8, <1>9, <1>11, <2>1, <2>3, <2>4, SpannedSame
<1>13. Spanned(tr)'
  <2>1. Spanned(tr) /\ ~Open(tr)
    BY <1>2 DEF SpanInv, Open
  <2>2. \A j \in openSpans'[tr] \cup drain'[tr] : Owns(tr, j)'
    BY <1>2, <1>6, <1>11, <2>1 DEF Spanned
  <2>3. ASSUME NEW j, Owns(tr, j)', spans'[j] = "open"
        PROVE  j \in openSpans'[tr] \/ Ending(j)'
    <3>1. Owns(tr, j) /\ j \in Id /\ j # i
      BY <1>2, <1>6, <1>11, <2>3
    <3>2. spans[j] = "open"
      BY <1>6, <2>3, <3>1
    <3> QED
      BY <1>6, <1>9, <2>1, <3>1, <3>2 DEF Spanned
  <2>4. \A j : Old(tr, j)' /\ j \in openSpans'[tr] => j \in drain'[tr]
    BY <1>2, <1>6, <1>8, <2>1 DEF Spanned
  <2>5. ASSUME NEW j, Replied(tr, j)' \/ Replying(tr, j)'
        PROVE  j \notin openSpans'[tr] \cup drain'[tr] /\ spans'[j] # "orphaned"
    <3>1. Replied(tr, j) \/ Replying(tr, j)
      BY <1>2, <1>8, <1>9, <2>5
    <3>2. j \notin openSpans[tr] \cup drain[tr] /\ spans[j] # "orphaned"
      BY <2>1, <3>1 DEF Spanned
    <3>3. j \in Id /\ j # i
      BY <1>2, <1>3, <1>11, <3>1, <3>2
    <3> QED
      BY <1>6, <3>2, <3>3
  <2> QED
    BY <1>2, <1>7, <2>1, <2>2, <2>3, <2>4, <2>5 DEF Spanned
<1> QED
  BY <1>10, <1>12, <1>13 DEF SpanInv

\* A recorded step of another kind has nothing to do with spans.
LEMMA SpanAddStep ==
    ASSUME TypeOK, StoryInv, SpanInv, NEW c \in Ctx, NEW tr \in Traj, AddStep(c, tr)
    PROVE  SpanInv'
<1>0. PICK kind \in {"STEP", "ERROR"} :
          Begins(c, tr, kind, 0, "check") /\ AddTo(tr, kind, begun', 0)
  BY DEF AddStep
<1>1. PICK s : s = [kind |-> kind, id |-> begun + 1, call |-> 0]
  OBVIOUS
<1>2. /\ \A d \in Ctx : d # c => rec'[d] = rec[d]
      /\ rec[c] = Idle /\ rec'[c].pc = "check" /\ begun' = begun + 1
      /\ UNCHANGED <<scopeVars, exitVars, openSpans, spans>>
  <2>1. Begins(c, tr, kind, 0, "check")
    BY <1>0
  <2>2. rec'[c] = [pc |-> "check", tr |-> tr, kind |-> kind, id |-> begun + 1,
                   call |-> 0]
    BY <2>1, BeginsOnly
  <2> QED
    BY <2>1, <2>2, BeginsOnly
<1>3. steps' = [steps EXCEPT ![tr] = Append(@, s)]
  BY <1>0, <1>1 DEF AddTo, Begins
<1>4. s \in StepRecord /\ s.kind \notin {"CALL", "RESULT"}
  BY <1>0, <1>1, TrajectoryAssumption DEF Begins, TypeOK, StepRecord, Kind
<1>5. UNCHANGED <<life, since, drain>>
  BY <1>2 DEF exitVars
<1>6. \A q \in Traj : Open(q)' <=> Open(q)
  BY <1>5 DEF Open
<1>7. \A q \in Traj : \A i : /\ Called(q, i)' <=> Called(q, i)
                             /\ Old(q, i)' <=> Old(q, i)
                             /\ Replied(q, i)' => Replied(q, i)
  BY <1>3, <1>4, <1>5, ListsGrow
<1>8. /\ \A q \in Traj : \A i : /\ Placing(q, i)' <=> Placing(q, i)
                                /\ Replying(q, i)' <=> Replying(q, i)
      /\ \A i : Ending(i)' <=> Ending(i)
      /\ \A d \in Ctx : Calling(d)' => Calling(d) /\ rec'[d].id = rec[d].id
  <2>1. \A d \in Ctx : \/ rec'[d] = rec[d]
                       \/ /\ rec[d].pc \notin {"start", "append", "end"}
                          /\ rec'[d].pc \notin {"start", "append", "end"}
    BY <1>2 DEF Idle
  <2> QED
    BY <1>6, <2>1, RecsSame
<1>9. Numbered'
  <2>1. begun \in Nat /\ begun' \in Nat /\ begun' >= begun
    BY <1>2, TrajectoryAssumption DEF TypeOK
  <2> QED
    BY <1>2, <1>7, <1>8, <2>1, NumberedSame
<1>10. ASSUME NEW q \in Traj  PROVE Spanned(q)'
  <2>1. Spanned(q)
    BY DEF SpanInv
  <2>2. \A i : /\ Owns(q, i)' <=> Owns(q, i)
               /\ Replied(q, i) \/ Replying(q, i) => Owns(q, i)
    BY <1>7, <1>8, RepliesOwned DEF Owns
  <2> QED
    BY <1>2, <1>5, <1>6, <1>7, <1>8, <2>1, <2>2, SpannedSame
<1> QED
  BY <1>9, <1>10 DEF SpanInv

\* A call that begins has a number of its own, whose span is not made yet.
LEMMA SpanRecordCall ==
    ASSUME TypeOK, StoryInv, SpanInv, NEW c \in Ctx, NEW tr \in Traj, RecordCall(c, tr)
    PROVE  SpanInv'
<1>1. PICK n : n = begun + 1
  OBVIOUS
<1>2. PICK pc \in {"start", "append"} : Begins(c, tr, "CALL", 0, pc)
  BY DEF RecordCall
<1>3. /\ \A d \in Ctx : d # c => rec'[d] = rec[d]
      /\ rec[c] = Idle /\ begun' = n
      /\ rec'[c] = [pc |-> pc, tr |-> tr, kind |-> "CALL", id |-> n, call |-> 0]
      /\ UNCHANGED <<scopeVars, exitVars, openSpans, spans>>
  BY <1>1, <1>2, BeginsOnly
<1>4. /\ rec'[c].pc \in {"start", "append"} /\ rec'[c].kind = "CALL"
      /\ rec'[c].tr = tr /\ rec'[c].id = n
      /\ rec[c].pc = "idle"
  BY <1>3 DEF Idle
<1>5. /\ begun \in Nat /\ n \in Nat /\ n \in Id /\ n > begun
  BY <1>1, <1>2, TrajectoryAssumption DEF TypeOK, Begins, Id
<1>6. UNCHANGED <<life, since, drain, steps>>
  BY <1>3 DEF RecordCall, exitVars
<1>7. \A q \in Traj : Open(q)' <=> Open(q)
  BY <1>6 DEF Open
<1>8. \A q \in Traj : \A i : /\ Called(q, i)' <=> Called(q, i)
                             /\ Old(q, i)' <=> Old(q, i)
                             /\ Replied(q, i)' <=> Replied(q, i)
  BY <1>6, <1>7, ListsSame
<1>9. /\ \A d \in Ctx : d # c => (Calling(d)' <=> Calling(d))
      /\ Calling(c)' /\ ~Calling(c)
  BY <1>3, <1>4 DEF Calling
<1>10. \A q \in Traj : \A i : Placing(q, i)' <=> Placing(q, i) \/ (q = tr /\ i = n)
  BY <1>3, <1>4, <1>9 DEF Placing
<1>11. \A i : Ending(i)' <=> Ending(i)
  BY <1>3, <1>4 DEF Ending
<1>12. \A q \in Traj : \A i : Replying(q, i)' <=> Replying(q, i)
  BY <1>3, <1>4, <1>7 DEF Replying
<1>13. \A q \in Traj : \A i : Owns(q, i)' <=> Owns(q, i) \/ (q = tr /\ i = n)
  BY <1>8, <1>10 DEF Owns
<1>14. \A q \in Traj : \A i : Owns(q, i) => i \in 1..begun /\ i # n
  BY <1>5 DEF SpanInv, Numbered
<1>15. Numbered'
  <2>1. \A q \in Traj : \A i : Owns(q, i)' => i \in 1..begun'
    BY <1>1, <1>3, <1>5, <1>13, <1>14
  <2>2. \A r, q \in Traj : \A i : Owns(r, i)' /\ Owns(q, i)' => r = q
    BY <1>13, <1>14 DEF SpanInv, Numbered
  <2>3. ASSUME NEW d \in Ctx, Calling(d)'
        PROVE  /\ \A q \in Traj : ~Called(q, rec[d].id)'
               /\ \A e \in Ctx : Calling(e)' /\ rec'[e].id = rec'[d].id => e = d
    <3>1. PICK j : j = rec'[d].id
      OBVIOUS
    <3>2. ASSUME NEW e \in Ctx, Calling(e), e # c
          PROVE  rec'[e] = rec[e] /\ rec[e].id # n
      <4>1. rec[e].tr \in Traj
        BY <3>2 DEF Calling, TypeOK
      <4>2. Placing(rec[e].tr, rec[e].id)
        BY <3>2 DEF Placing
      <4> QED
        BY <1>3, <1>14, <3>2, <4>1, <4>2 DEF Owns
    <3>3. \A q \in Traj : ~Called(q, j)
      <4>1. CASE d = c
        BY <1>4, <1>14, <3>1, <4>1 DEF Owns
      <4>2. CASE d # c
        BY <1>3, <1>9, <2>3, <3>1, <4>2 DEF SpanInv, Numbered
      <4> QED
        BY <4>1, <4>2
    <3>4. \A q \in Traj : ~Called(q, j)'
      BY <1>8, <3>3
    <3>5. \A q \in Traj : ~Called(q, rec[d].id)'
      BY <3>1, <3>4 DEF Called
    <3>6. ASSUME NEW e \in Ctx, Calling(e)', rec'[e].id = rec'[d].id  PROVE e = d
      <4>1. CASE d = c
        BY <1>4, <1>9, <3>2, <3>6, <4>1
      <4>2. CASE d # c /\ e = c
        BY <1>4, <1>9, <2>3, <3>2, <3>6, <4>2
      <4>3. CASE d # c /\ e # c
        BY <1>3, <1>9, <2>3, <3>6, <4>3 DEF SpanInv, Numbered
      <4> QED
        BY <4>1, <4>2, <4>3
    <3> QED
      BY <3>5, <3>6
  <2>4. \A i \in Id : i > begun' => spans'[i] = "none"
    BY <1>3, <1>5 DEF SpanInv, Numbered, Id
  <2> QED
    BY <2>1, <2>2, <2>3, <2>4 DEF Numbered
<1>16. ASSUME NEW q \in Traj  PROVE Spanned(q)'
  <2>1. Spanned(q) /\ openSpans' = openSpans /\ drain' = drain /\ spans' = spans
    BY <1>3, <1>6 DEF SpanInv
  <2>2. spans[n] = "none"
    BY <1>5 DEF SpanInv, Numbered
  <2>3. \A i \in openSpans'[q] \cup drain'[q] : Owns(q, i)'
    BY <1>13, <2>1 DEF Spanned
  <2>4. \A i : Owns(q, i)' =>
            /\ spans'[i] = "open" => i \in openSpans'[q] \/ Ending(i)'
            /\ Open(q)' => spans'[i] # "orphaned"
    BY <1>7, <1>11, <1>13, <2>1, <2>2 DEF Spanned
  <2>5. \A i : Old(q, i)' /\ i \in openSpans'[q] => i \in drain'[q]
    BY <1>8, <2>1 DEF Spanned
  <2>6. \A i : Replied(q, i)' \/ Replying(q, i)' =>
            i \notin openSpans'[q] \cup drain'[q] /\ spans'[i] # "orphaned"
    BY <1>8, <1>12, <2>1 DEF Spanned
  <2> QED
    BY <2>3, <2>4, <2>5, <2>6 DEF Spanned
<1> QED
  BY <1>15, <1>16 DEF SpanInv

\* A result that begins takes the span from the dict before it counts as being
\* recorded, unless the session is closed.
LEMMA SpanRecordResult ==
    ASSUME TypeOK, StoryInv, SpanInv, NEW c \in Ctx, NEW tr \in Traj,
           RecordResult(c, tr)
    PROVE  SpanInv'
<1>1. PICK k \in DOMAIN steps[tr] :
          Begins(c, tr, "RESULT", steps[tr][k].id, IF HasSpan(tr) THEN "pop" ELSE "append")
  BY DEF RecordResult
<1>2. PICK i : i = steps[tr][k].id
  OBVIOUS
<1>3. PICK pc : pc = IF HasSpan(tr) THEN "pop" ELSE "append"
  OBVIOUS
<1>4. /\ \A d \in Ctx : d # c => rec'[d] = rec[d]
      /\ rec[c] = Idle /\ begun' = begun + 1 /\ life[tr] # "new"
      /\ rec'[c] = [pc |-> pc, tr |-> tr, kind |-> "RESULT", id |-> begun + 1,
                    call |-> i]
      /\ UNCHANGED <<scopeVars, exitVars, openSpans, spans>>
  <2>1. Begins(c, tr, "RESULT", i, pc)
    BY <1>1, <1>2, <1>3
  <2> QED
    BY <2>1, BeginsOnly
<1>5. /\ rec'[c].pc = pc /\ rec'[c].kind = "RESULT" /\ rec'[c].tr = tr
      /\ rec[c].pc = "idle"
      /\ pc = "append" => ~Open(tr)
      /\ pc \in {"pop", "append"}
  BY <1>3, <1>4 DEF Idle, HasSpan, Open
<1>6. UNCHANGED <<life, since, drain, steps>>
  BY <1>4 DEF RecordResult, exitVars
<1>7. \A q \in Traj : Open(q)' <=> Open(q)
  BY <1>6 DEF Open
<1>8. \A q \in Traj : \A j : /\ Called(q, j)' <=> Called(q, j)
                             /\ Old(q, j)' <=> Old(q, j)
                             /\ Replied(q, j)' <=> Replied(q, j)
  BY <1>6, <1>7, ListsSame
<1>9. \A d \in Ctx : (Calling(d)' <=> Calling(d)) /\ (Calling(d) => rec'[d] = rec[d])
  BY <1>4, <1>5 DEF Calling
<1>10. /\ \A q \in Traj : \A j : Placing(q, j)' <=> Placing(q, j)
       /\ \A j : Ending(j)' <=> Ending(j)
       /\ \A d \in Ctx : Calling(d)' => Calling(d) /\ rec'[d].id = rec[d].id
  <2>1. \A q \in Traj : \A j : Placing(q, j)' <=> Placing(q, j)
    BY <1>9 DEF Placing
  <2>2. \A j : Ending(j)' <=> Ending(j)
    BY <1>4, <1>5 DEF Ending
  <2> QED
    BY <1>9, <2>1, <2>2
<1>11. \A q \in Traj : \A j : Replying(q, j)' => Replying(q, j)
  BY <1>4, <1>5, <1>7 DEF Replying
<1>12. Numbered'
  <2>1. begun \in Nat /\ begun' \in Nat /\ begun' >= begun
    BY <1>4, TrajectoryAssumption DEF TypeOK
  <2> QED
    BY <1>4, <1>8, <1>10, <2>1, NumberedSame
<1>13. ASSUME NEW q \in Traj  PROVE Spanned(q)'
  <2>1. Spanned(q)
    BY DEF SpanInv
  <2>2. \A j : /\ Owns(q, j)' <=> Owns(q, j)
               /\ Replied(q, j) \/ Replying(q, j) => Owns(q, j)
    BY <1>8, <1>10, RepliesOwned DEF Owns
  <2> QED
    BY <1>4, <1>6, <1>7, <1>8, <1>10, <1>11, <2>1, <2>2, SpannedSame
<1> QED
  BY <1>12, <1>13 DEF SpanInv

\* The span of a call is made and goes into the dict of its trajectory.
LEMMA SpanStart ==
    ASSUME TypeOK, StoryInv, SpanInv, NEW c \in Ctx, StartSpan(c)
    PROVE  SpanInv'
<1>1. PICK tr : tr = rec[c].tr
  OBVIOUS
<1>2. PICK i : i = rec[c].id
  OBVIOUS
<1>3. /\ rec[c].pc = "start" /\ rec[c].kind = "CALL" /\ tr \in Traj
      /\ spans' = [spans EXCEPT ![i] = "open"]
      /\ openSpans' = [openSpans EXCEPT ![tr] = @ \cup {i}]
      /\ Goes(c, "append")
      /\ UNCHANGED <<exitVars, steps, begun>>
  BY <1>1, <1>2 DEF StartSpan, TypeOK, StoryInv, Recorded
<1>4. UNCHANGED <<life, since, drain>>
  BY <1>3 DEF exitVars
<1>5. Calling(c) /\ Owns(tr, i) /\ \A q \in Traj : ~Called(q, i)
  BY <1>1, <1>2, <1>3 DEF Calling, Owns, Placing, SpanInv, Numbered
<1>6. i \in Id /\ i \in 1..begun
  BY <1>3, <1>5, OwnedId
<1>7. /\ openSpans'[tr] = openSpans[tr] \cup {i}
      /\ \A q \in Traj : q # tr => openSpans'[q] = openSpans[q]
      /\ spans'[i] = "open"
      /\ \A j \in Id : j # i => spans'[j] = spans[j]
  BY <1>3, <1>6 DEF TypeOK
<1>8. /\ \A d \in Ctx : d # c => rec'[d] = rec[d]
      /\ rec'[c].pc = "append" /\ rec'[c].kind = "CALL" /\ rec'[c].tr = tr
      /\ rec'[c].id = i
  BY <1>1, <1>2, <1>3, GoesOnly
<1>9. \A q \in Traj : Open(q)' <=> Open(q)
  BY <1>4 DEF Open
<1>10. \A q \in Traj : \A j : /\ Called(q, j)' <=> Called(q, j)
                              /\ Old(q, j)' <=> Old(q, j)
                              /\ Replied(q, j)' <=> Replied(q, j)
  BY <1>3, <1>4, <1>9, ListsSame
<1>11. \A d \in Ctx : /\ Calling(d)' <=> Calling(d)
                      /\ Calling(d) => rec'[d].id = rec[d].id /\ rec'[d].tr = rec[d].tr
  BY <1>1, <1>2, <1>5, <1>8 DEF Calling
<1>12. /\ \A q \in Traj : \A j : Placing(q, j)' <=> Placing(q, j)
       /\ \A j : Ending(j)' <=> Ending(j)
       /\ \A q \in Traj : \A j : Replying(q, j)' <=> Replying(q, j)
  <2>1. \A q \in Traj : \A j : Placing(q, j)' <=> Placing(q, j)
    BY <1>11 DEF Placing
  <2>2. \A j : Ending(j)' <=> Ending(j)
    BY <1>3, <1>8 DEF Ending
  <2>3. \A q \in Traj : \A j : Replying(q, j)' <=> Replying(q, j)
    BY <1>3, <1>8, <1>9 DEF Replying
  <2> QED
    BY <2>1, <2>2, <2>3
<1>13. Numbered'
  <2>1. begun \in Nat /\ begun' \in Nat /\ begun' >= begun /\ i <= begun
    BY <1>3, <1>6, TrajectoryAssumption DEF TypeOK
  <2>2. \A j \in Id : j > begun' => spans'[j] = spans[j]
    BY <1>3, <1>6, <1>7, <2>1 DEF Id
  <2> QED
    BY <1>10, <1>11, <1>12, <2>1, <2>2, NumberedSame
<1>14. \A q \in Traj : \A j : /\ Owns(q, j)' <=> Owns(q, j)
                              /\ Owns(q, j) => j \in Id
                              /\ Replied(q, j) \/ Replying(q, j) \/ Old(q, j) =>
                                    Owns(q, j) /\ j # i
  BY <1>5, <1>10, <1>12, OwnedId, RepliesOwned DEF Owns
<1>15. ASSUME NEW q \in Traj, q # tr  PROVE Spanned(q)'
  <2>1. Spanned(q)
    BY DEF SpanInv
  <2>2. \A j : Owns(q, j) => j # i
    BY <1>3, <1>5, <1>15 DEF SpanInv, Numbered
  <2>3. \A j : Owns(q, j) => spans'[j] = spans[j]
    BY <1>7, <1>14, <2>2
  <2>4. openSpans'[q] = openSpans[q] /\ drain'[q] = drain[q]
    BY <1>4, <1>7, <1>15
  <2> QED
    BY <1>9, <1>10, <1>12, <1>14, <2>1, <2>3, <2>4, SpannedSame
<1>16. Spanned(tr)'
  <2>1. Spanned(tr) /\ drain' = drain
    BY <1>3, <1>4 DEF SpanInv
  <2>2. \A j \in openSpans'[tr] \cup drain'[tr] : Owns(tr, j)'
    BY <1>3, <1>5, <1>7, <1>14, <2>1 DEF Spanned
  <2>3. ASSUME NEW j, Owns(tr, j)'
        PROVE  /\ spans'[j] = "open" => j \in openSpans'[tr] \/ Ending(j)'
               /\ Open(tr)' => spans'[j] # "orphaned"
    <3>1. CASE j = i
      BY <1>7, <3>1
    <3>2. CASE j # i
      <4>1. Owns(tr, j) /\ spans'[j] = spans[j]
        BY <1>3, <1>7, <1>14, <2>3, <3>2
      <4> QED
        BY <1>3, <1>7, <1>9, <1>12, <2>1, <4>1 DEF Spanned
    <3> QED
      BY <3>1, <3>2
  <2>4. \A j : Old(tr, j)' /\ j \in openSpans'[tr] => j \in drain'[tr]
    BY <1>3, <1>7, <1>10, <1>14, <2>1 DEF Spanned
  <2>5. ASSUME NEW j, Replied(tr, j)' \/ Replying(tr, j)'
        PROVE  j \notin openSpans'[tr] \cup drain'[tr] /\ spans'[j] # "orphaned"
    <3>1. Replied(tr, j) \/ Replying(tr, j)
      BY <1>3, <1>10, <1>12, <2>5
    <3>2. j \notin openSpans[tr] \cup drain[tr] /\ spans[j] # "orphaned"
      BY <2>1, <3>1 DEF Spanned
    <3>3. j \in Id /\ j # i
      BY <1>3, <1>14, <3>1
    <3> QED
      BY <1>7, <2>1, <3>2, <3>3
  <2> QED
    BY <2>2, <2>3, <2>4, <2>5 DEF Spanned
<1> QED
  BY <1>13, <1>15, <1>16 DEF SpanInv

\* A result takes the span of its call from the dict, to end it.
LEMMA SpanPop ==
    ASSUME TypeOK, StoryInv, SpanInv, NEW c \in Ctx, PopSpan(c)
    PROVE  SpanInv'
<1>1. PICK tr : tr = rec[c].tr
  OBVIOUS
<1>2. PICK i : i = rec[c].call
  OBVIOUS
<1>3. PICK pc : pc = IF i \in openSpans[tr] THEN "end" ELSE "append"
  OBVIOUS
<1>4. /\ rec[c].pc = "pop" /\ rec[c].kind = "RESULT" /\ tr \in Traj
      /\ openSpans' = [openSpans EXCEPT ![tr] = @ \ {i}]
      /\ Goes(c, pc)
      /\ UNCHANGED <<exitVars, steps, spans, begun>>
  BY <1>1, <1>2, <1>3 DEF PopSpan, TypeOK, StoryInv, Recorded
<1>5. UNCHANGED <<life, since, drain>>
  BY <1>4 DEF exitVars
<1>6. /\ openSpans'[tr] = openSpans[tr] \ {i}
      /\ \A q \in Traj : q # tr => openSpans'[q] = openSpans[q]
  BY <1>4 DEF TypeOK
<1>7. /\ \A d \in Ctx : d # c => rec'[d] = rec[d]
      /\ rec'[c].pc = pc /\ rec'[c].kind = "RESULT" /\ rec'[c].tr = tr
      /\ rec'[c].call = i
      /\ pc \in {"end", "append"} /\ (i \in openSpans[tr] => pc = "end")
  BY <1>1, <1>2, <1>3, <1>4, GoesOnly
<1>8. \A q \in Traj : Open(q)' <=> Open(q)
  BY <1>5 DEF Open
<1>9. \A q \in Traj : \A j : /\ Called(q, j)' <=> Called(q, j)
                             /\ Old(q, j)' <=> Old(q, j)
                             /\ Replied(q, j)' <=> Replied(q, j)
  BY <1>4, <1>5, <1>8, ListsSame
<1>10. \A d \in Ctx : (Calling(d)' <=> Calling(d)) /\ (Calling(d) => rec'[d] = rec[d])
  BY <1>4, <1>7 DEF Calling
<1>11. /\ \A q \in Traj : \A j : Placing(q, j)' <=> Placing(q, j)
       /\ \A j : Ending(j) => Ending(j)'
       /\ i \in openSpans[tr] => Ending(i)'
       /\ \A q \in Traj : \A j : Replying(q, j)' =>
             Replying(q, j) \/ (q = tr /\ j = i /\ Open(tr))
       /\ \A d \in Ctx : Calling(d)' => Calling(d) /\ rec'[d].id = rec[d].id
  <2>1. \A q \in Traj : \A j : Placing(q, j)' <=> Placing(q, j)
    BY <1>10 DEF Placing
  <2>2. (\A j : Ending(j) => Ending(j)') /\ (i \in openSpans[tr] => Ending(i)')
    BY <1>4, <1>7 DEF Ending
  <2>3. \A q \in Traj : \A j : Replying(q, j)' =>
             Replying(q, j) \/ (q = tr /\ j = i /\ Open(tr))
    BY <1>7, <1>8 DEF Replying
  <2> QED
    BY <1>10, <2>1, <2>2, <2>3
<1>12. Numbered'
  <2>1. begun \in Nat /\ begun' \in Nat /\ begun' >= begun
    BY <1>4, TrajectoryAssumption DEF TypeOK
  <2> QED
    BY <1>4, <1>9, <1>11, <2>1, NumberedSame
<1>13. \A q \in Traj : \A j : /\ Owns(q, j)' <=> Owns(q, j)
                              /\ Replied(q, j) \/ Replying(q, j) => Owns(q, j)
  BY <1>9, <1>11, RepliesOwned DEF Owns
<1>14. ASSUME NEW q \in Traj, q # tr  PROVE Spanned(q)'
  <2>1. Spanned(q)
    BY DEF SpanInv
  <2>2. openSpans'[q] = openSpans[q] /\ drain'[q] = drain[q] /\ spans' = spans
    BY <1>4, <1>5, <1>6, <1>14
  <2> QED
    BY <1>8, <1>9, <1>11, <1>13, <1>14, <2>1, <2>2, SpannedSame
<1>15. Spanned(tr)'
  <2>1. Spanned(tr) /\ drain' = drain /\ spans' = spans
    BY <1>4, <1>5 DEF SpanInv
  <2>2. \A j \in openSpans'[tr] \cup drain'[tr] : Owns(tr, j)'
    BY <1>4, <1>6, <1>13, <2>1 DEF Spanned
  <2>3. ASSUME NEW j, Owns(tr, j)'
        PROVE  /\ spans'[j] = "open" => j \in openSpans'[tr] \/ Ending(j)'
               /\ Open(tr)' => spans'[j] # "orphaned"
    <3>1. Owns(tr, j)
      BY <1>4, <1>13, <2>3
    <3>2. /\ spans[j] = "open" => j \in openSpans[tr] \/ Ending(j)
          /\ Open(tr) => spans[j] # "orphaned"
      BY <2>1, <3>1 DEF Spanned
    <3> QED
      BY <1>4, <1>6, <1>8, <1>11, <2>1, <3>2
  <2>4. \A j : Old(tr, j)' /\ j \in openSpans'[tr] => j \in drain'[tr]
    BY <1>4, <1>6, <1>9, <2>1 DEF Spanned
  <2>5. ASSUME NEW j, Replied(tr, j)' \/ Replying(tr, j)'
        PROVE  j \notin openSpans'[tr] \cup drain'[tr] /\ spans'[j] # "orphaned"
    <3>1. Replied(tr, j) \/ Replying(tr, j) \/ (j = i /\ Open(tr))
      BY <1>4, <1>9, <1>11, <2>5
    <3>2. CASE Replied(tr, j) \/ Replying(tr, j)
      BY <1>6, <2>1, <3>2 DEF Spanned
    <3>3. CASE j = i /\ Open(tr)
      <4>1. drain[tr] = {}
        BY <1>4, <3>3 DEF TypeOK, Open
      <4>2. Owns(tr, i)
        BY <1>1, <1>2, <1>4 DEF Owns, StoryInv, Recorded
      <4> QED
        BY <1>6, <2>1, <3>3, <4>1, <4>2 DEF Spanned
    <3> QED
      BY <3>1, <3>2, <3>3
  <2> QED
    BY <2>2, <2>3, <2>4, <2>5 DEF Spanned
<1> QED
  BY <1>12, <1>14, <1>15 DEF SpanInv

\* The span that was taken out is ended, unless the exit had ended it.
LEMMA SpanEnd ==
    ASSUME TypeOK, StoryInv, SpanInv, NEW c \in Ctx, EndSpan(c)
    PROVE  SpanInv'
<1>1. PICK i : i = rec[c].call
  OBVIOUS
<1>2. PICK tr : tr = rec[c].tr
  OBVIOUS
<1>3. /\ rec[c].pc = "end" /\ rec[c].kind = "RESULT" /\ tr \in Traj
      /\ spans' = [spans EXCEPT ![i] = IF @ = "open" THEN "ended" ELSE @]
      /\ Goes(c, "append")
      /\ UNCHANGED <<exitVars, steps, openSpans, begun>>
  BY <1>1, <1>2 DEF EndSpan, Ends, TypeOK, StoryInv, Recorded
<1>4. UNCHANGED <<life, since, drain>>
  BY <1>3 DEF exitVars
<1>5. i \in Id /\ i \in 1..begun
  BY <1>1, <1>2, <1>3, OwnedId DEF Owns, StoryInv, Recorded
<1>6. /\ spans'[i] = IF spans[i] = "open" THEN "ended" ELSE spans[i]
      /\ \A j \in Id : j # i => spans'[j] = spans[j]
  BY <1>3, <1>5 DEF TypeOK
<1>7. /\ \A d \in Ctx : d # c => rec'[d] = rec[d]
      /\ rec'[c].pc = "append" /\ rec'[c].kind = "RESULT" /\ rec'[c].tr = tr
      /\ rec'[c].call = i
  BY <1>1, <1>2, <1>3, GoesOnly
<1>8. \A q \in Traj : Open(q)' <=> Open(q)
  BY <1>4 DEF Open
<1>9. \A q \in Traj : \A j : /\ Called(q, j)' <=> Called(q, j)
                             /\ Old(q, j)' <=> Old(q, j)
                             /\ Replied(q, j)' <=> Replied(q, j)
  BY <1>3, <1>4, <1>8, ListsSame
<1>10. \A d \in Ctx : (Calling(d)' <=> Calling(d)) /\ (Calling(d) => rec'[d] = rec[d])
  BY <1>3, <1>7 DEF Calling
<1>11. /\ \A q \in Traj : \A j : Placing(q, j)' <=> Placing(q, j)
       /\ \A j : Ending(j) => Ending(j)' \/ j = i
       /\ \A q \in Traj : \A j : Replying(q, j)' => Replying(q, j)
       /\ \A d \in Ctx : Calling(d)' => Calling(d) /\ rec'[d].id = rec[d].id
  <2>1. \A q \in Traj : \A j : Placing(q, j)' <=> Placing(q, j)
    BY <1>10 DEF Placing
  <2>2. \A j : Ending(j) => Ending(j)' \/ j = i
    BY <1>1, <1>7 DEF Ending
  <2>3. \A q \in Traj : \A j : Replying(q, j)' => Replying(q, j)
    BY <1>1, <1>2, <1>3, <1>7, <1>8 DEF Replying
  <2> QED
    BY <1>10, <2>1, <2>2, <2>3
<1>12. Numbered'
  <2>1. begun \in Nat /\ begun' \in Nat /\ begun' >= begun /\ i <= begun
    BY <1>3, <1>5, TrajectoryAssumption DEF TypeOK
  <2>2. \A j \in Id : j > begun' => spans'[j] = spans[j]
    BY <1>3, <1>5, <1>6, <2>1 DEF Id
  <2> QED
    BY <1>9, <1>11, <2>1, <2>2, NumberedSame
<1>13. ASSUME NEW q \in Traj  PROVE Spanned(q)'
  <2>1. Spanned(q) /\ openSpans' = openSpans /\ drain' = drain
    BY <1>3, <1>4 DEF SpanInv
  <2>2. \A j : /\ Owns(q, j)' <=> Owns(q, j)
               /\ Owns(q, j) => j \in Id
               /\ Replied(q, j) \/ Replying(q, j) => Owns(q, j)
    BY <1>9, <1>11, OwnedId, RepliesOwned DEF Owns
  <2>3. \A j \in Id : /\ spans'[j] = "open" => spans[j] = "open" /\ j # i
                      /\ spans'[j] = "orphaned" => spans[j] = "orphaned"
    BY <1>6
  <2>4. \A j \in openSpans'[q] \cup drain'[q] : Owns(q, j)'
    BY <2>1, <2>2 DEF Spanned
  <2>5. \A j : Owns(q, j)' =>
            /\ spans'[j] = "open" => j \in openSpans'[q] \/ Ending(j)'
            /\ Open(q)' => spans'[j] # "orphaned"
    BY <1>8, <1>11, <2>1, <2>2, <2>3 DEF Spanned
  <2>6. \A j : Old(q, j)' /\ j \in openSpans'[q] => j \in drain'[q]
    BY <1>9, <2>1 DEF Spanned
  <2>7. \A j : Replied(q, j)' \/ Replying(q, j)' =>
            j \notin openSpans'[q] \cup drain'[q] /\ spans'[j] # "orphaned"
    BY <1>9, <1>11, <2>1, <2>2, <2>3 DEF Spanned
  <2> QED
    BY <2>4, <2>5, <2>6, <2>7 DEF Spanned
<1> QED
  BY <1>12, <1>13 DEF SpanInv

\* A call that is appended was being recorded with that number; a result that is
\* appended counts as recorded already.
LEMMA SpanAppend ==
    ASSUME TypeOK, StoryInv, SpanInv, NEW c \in Ctx, AppendStep(c)
    PROVE  SpanInv'
<1>1. PICK r : r = rec[c]
  OBVIOUS
<1>2. PICK s : s = [kind |-> r.kind, id |-> r.id, call |-> r.call]
  OBVIOUS
<1>3. PICK tr : tr = r.tr
  OBVIOUS
<1>4. /\ r \in Recording /\ r.pc = "append" /\ tr \in Traj
      /\ r.kind \in {"STEP", "ERROR", "CALL", "RESULT"}
  BY <1>1, <1>3 DEF AppendStep, TypeOK, StoryInv, Recorded
<1>5. s \in StepRecord /\ s.kind = r.kind /\ s.call = r.call /\ s.id = r.id
  BY <1>2, <1>4 DEF Recording, StepRecord
<1>6. /\ steps' = [steps EXCEPT ![tr] = Append(@, s)]
      /\ rec' = [rec EXCEPT ![c] = Idle]
      /\ UNCHANGED <<exitVars, openSpans, spans, begun>>
  BY <1>1, <1>2, <1>3 DEF AppendStep, AddTo
<1>7. UNCHANGED <<life, since, drain>>
  BY <1>6 DEF exitVars
<1>8. /\ \A d \in Ctx : d # c => rec'[d] = rec[d]
      /\ rec'[c].pc = "idle"
  BY <1>6, RestOnly
<1>9. \A q \in Traj : Open(q)' <=> Open(q)
  BY <1>7 DEF Open
<1>10. \A q \in Traj : \A i :
          /\ Called(q, i)' <=> Called(q, i) \/ (q = tr /\ r.kind = "CALL" /\ r.id = i)
          /\ Old(q, i)' <=> Old(q, i)
          /\ Replied(q, i)' => \/ Replied(q, i)
                               \/ q = tr /\ Open(q) /\ r.kind = "RESULT" /\ r.call = i
  <2>1. \A q \in Traj : \A i :
           /\ Called(q, i)' <=> \/ Called(q, i)
                                \/ q = tr /\ s.kind = "CALL" /\ s.id = i
           /\ Old(q, i)' <=> Old(q, i)
           /\ Replied(q, i)' => \/ Replied(q, i)
                                \/ /\ q = tr /\ Open(q)
                                   /\ s.kind = "RESULT" /\ s.call = i
    <3>1. /\ tr \in Traj /\ s \in StepRecord /\ UNCHANGED <<life, since>>
          /\ steps' = [steps EXCEPT ![tr] = Append(@, s)]
      BY <1>4, <1>5, <1>6, <1>7
    <3> QED
      BY <3>1, ListsGrow
  <2> QED
    BY <1>5, <2>1
<1>11. /\ ~Calling(c)'
       /\ Calling(c) <=> r.kind = "CALL"
       /\ \A d \in Ctx : d # c => (Calling(d)' <=> Calling(d))
  BY <1>1, <1>4, <1>8 DEF Calling
<1>12. \A q \in Traj : \A i :
          /\ Placing(q, i)' => Placing(q, i)
          /\ Placing(q, i) => Placing(q, i)' \/ (q = tr /\ r.kind = "CALL" /\ r.id = i)
          /\ q = tr /\ r.kind = "CALL" /\ r.id = i => Placing(q, i)
  BY <1>1, <1>3, <1>8, <1>11 DEF Placing
<1>13. \A q \in Traj : \A i : Owns(q, i)' <=> Owns(q, i)
  BY <1>10, <1>12 DEF Owns
<1>14. \A i : Ending(i)' <=> Ending(i)
  BY <1>1, <1>4, <1>8 DEF Ending
<1>15. \A q \in Traj : \A i : Replied(q, i)' \/ Replying(q, i)' =>
                                 Replied(q, i) \/ Replying(q, i)
  <2>1. \A q \in Traj : \A i : Replying(q, i)' => Replying(q, i)
    BY <1>8, <1>9 DEF Replying
  <2>2. Open(tr) /\ r.kind = "RESULT" => Replying(tr, r.call)
    BY <1>1, <1>3, <1>4 DEF Replying
  <2> QED
    BY <1>4, <1>10, <2>1, <2>2
<1>16. Numbered'
  <2>1. \A q \in Traj : \A i : Owns(q, i)' => i \in 1..begun'
    BY <1>6, <1>13 DEF SpanInv, Numbered
  <2>2. \A p, q \in Traj : \A i : Owns(p, i)' /\ Owns(q, i)' => p = q
    BY <1>13 DEF SpanInv, Numbered
  <2>3. ASSUME NEW d \in Ctx, Calling(d)'
        PROVE  /\ \A q \in Traj : ~Called(q, rec[d].id)'
               /\ \A e \in Ctx : Calling(e)' /\ rec'[e].id = rec'[d].id => e = d
    <3>1. d # c /\ Calling(d) /\ rec'[d] = rec[d]
      BY <1>8, <1>11, <2>3
    <3>2. PICK j : j = rec[d].id
      OBVIOUS
    <3>3. \A q \in Traj : ~Called(q, j)
      BY <3>1, <3>2 DEF SpanInv, Numbered
    <3>4. r.kind = "CALL" => r.id # j
      BY <1>1, <1>11, <3>1, <3>2 DEF SpanInv, Numbered
    <3>5. \A q \in Traj : ~Called(q, j)'
      BY <1>10, <3>3, <3>4
    <3>6. rec'[d].id = j
      BY <3>1, <3>2
    <3>7. \A q \in Traj : ~Called(q, rec[d].id)'
      BY <3>5, <3>6 DEF Called
    <3>8. \A e \in Ctx : Calling(e)' => e # c /\ Calling(e) /\ rec'[e] = rec[e]
      BY <1>8, <1>11
    <3>9. \A e \in Ctx : Calling(e) /\ rec[e].id = rec[d].id => e = d
      BY <3>1 DEF SpanInv, Numbered
    <3> QED
      BY <3>1, <3>7, <3>8, <3>9
  <2>4. \A i \in Id : i > begun' => spans'[i] = "none"
    BY <1>6 DEF SpanInv, Numbered
  <2> QED
    BY <2>1, <2>2, <2>3, <2>4 DEF Numbered
<1>17. ASSUME NEW q \in Traj  PROVE Spanned(q)'
  <2>1. Spanned(q)
    BY DEF SpanInv
  <2>2. \A i : Replied(q, i) \/ Replying(q, i) => Owns(q, i)
    BY RepliesOwned DEF Owns
  <2> QED
    BY <1>6, <1>7, <1>9, <1>10, <1>13, <1>14, <1>15, <2>1, <2>2, SpannedSame
<1> QED
  BY <1>16, <1>17 DEF SpanInv

\* Every step keeps the numbers and the spans.
LEMMA SpanNext == TypeOK /\ StoryInv /\ SpanInv /\ [Next]_vars => SpanInv'
<1> SUFFICES ASSUME TypeOK, StoryInv, SpanInv, [Next]_vars  PROVE SpanInv'
  OBVIOUS
<1>1. CASE UNCHANGED vars
  <2>1. UNCHANGED <<steps, openSpans, spans, drain, begun, rec, since, life>>
    BY <1>1 DEF vars, exitVars
  <2> QED
    BY <2>1, SpanQuiet DEF Open
<1>2. ASSUME NEW c \in Ctx, CheckSpan(c) \/ AddEvent(c) \/ Catch(c)  PROVE SpanInv'
  <2>1. /\ UNCHANGED <<steps, openSpans, spans, drain, begun, since, life>>
        /\ rec[c].pc \in {"check", "event", "raised"}
    BY <1>2 DEF CheckSpan, AddEvent, Catch, exitVars
  <2>2. \/ \E pc \in {"event", "raised"} : Goes(c, pc)
        \/ rec' = [rec EXCEPT ![c] = Idle]
    BY <1>2 DEF CheckSpan, Checks, AddEvent, Catch
  <2>3. /\ \A d \in Ctx : d # c => rec'[d] = rec[d]
        /\ rec'[c].pc \in {"event", "raised", "idle"}
    BY <2>2, GoesOnly, RestOnly
  <2> QED
    BY <2>1, <2>3, SpanQuiet DEF Open
<1> QED
  BY <1>1, <1>2, SpanScope, SpanExit, SpanDrain, SpanAddStep, SpanRecordCall,
     SpanRecordResult, SpanStart, SpanPop, SpanEnd, SpanAppend
     DEF Next, RecordStep

\* When the session is closed the spans of the calls before the exit have ended or
\* are about to, and none whose result was recorded before it is orphaned.
THEOREM SpansCorrect == Spec => []SpansAreSettled
<1>1. TypeOK /\ StoryInv /\ SpanInv => SpansAreSettled
  <2> SUFFICES ASSUME TypeOK, StoryInv, SpanInv, NEW tr \in Traj,
                      NEW k \in 1..since[tr].steps
               PROVE  /\ steps[tr][k].kind = "CALL" /\ life[tr] \in {"saving", "closed"} =>
                            \/ spans[steps[tr][k].id] # "open"
                            \/ Ending(steps[tr][k].id)
                      /\ steps[tr][k].kind = "RESULT" =>
                            spans[steps[tr][k].call] # "orphaned"
    BY DEF SpansAreSettled, Ending
  <2>1. k \in 1..Len(steps[tr]) /\ k <= since[tr].steps
    BY Lengths DEF StoryInv, Story
  <2>2. ASSUME steps[tr][k].kind = "CALL", life[tr] \in {"saving", "closed"},
               spans[steps[tr][k].id] = "open"
        PROVE  Ending(steps[tr][k].id)
    <3>1. PICK i : i = steps[tr][k].id
      OBVIOUS
    <3>2. Called(tr, i) /\ Old(tr, i)
      BY <2>1, <2>2, <3>1 DEF Called, Old
    <3>3. drain[tr] = {}
      BY <2>2 DEF TypeOK
    <3> QED
      BY <2>2, <3>1, <3>2, <3>3 DEF SpanInv, Spanned, Owns
  <2>3. ASSUME steps[tr][k].kind = "RESULT"
        PROVE  spans[steps[tr][k].call] # "orphaned"
    <3>1. Replied(tr, steps[tr][k].call)
      BY <2>1, <2>3 DEF Replied
    <3> QED
      BY <3>1 DEF SpanInv, Spanned
  <2> QED
    BY <2>2, <2>3
<1> QED
  BY <1>1, SpanInit, SpanNext, StoryInit, StoryNext, TypeInit, TypeNext, PTL DEF Spec
=============================================================================
