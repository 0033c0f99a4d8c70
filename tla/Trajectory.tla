----------------------------- MODULE Trajectory -----------------------------
(***************************************************************************)
(* Trajectory: with-blocks that record steps, the context variable that    *)
(* names the innermost one, the spans held open between a call step and    *)
(* its result step, and the save on exit.                                  *)
(*                                                                         *)
(* A context is a thread's or an async task's; a task starts with a copy   *)
(* of its creator's.  Any context may record into any trajectory.  Only    *)
(* the list of steps has a lock: a recording and an exit are sequences of  *)
(* steps that interleave.                                                  *)
(*                                                                         *)
(* A trajectory is entered once, by a with statement, and recorded into    *)
(* from then on.  Left out: what the steps hold; summary, find_steps and   *)
(* replay, which read a snapshot.                                          *)
(***************************************************************************)
EXTENDS Naturals, Sequences, FiniteSets

CONSTANTS
    Ctx,        \* contexts
    Main,       \* those of the threads, which exist from the start
    Traj,       \* trajectories
    MaxSteps    \* bound: recordings ever begun

ASSUME TrajectoryAssumption ==
    /\ Main \subseteq Ctx
    /\ MaxSteps \in Nat

VARIABLES
    current,    \* current_trajectory in each context
    started,    \* the contexts that exist
    base,       \* history: what current was when the context was made
    blocks,     \* each context's with-blocks, outermost first
    token,      \* Trajectory._context_token: what current was before it
    life,       \* where each trajectory is between __enter__ and __exit__
    status,     \* Trajectory.status
    steps,      \* Trajectory._steps: the kind and number of each step
    openSpans,  \* Trajectory._open_step_spans
    spans,      \* the spans made for call steps
    drain,      \* __exit__: the spans it has yet to end
    saved,      \* the trajectories in the default store
    rec,        \* the recording each context is in
    begun,      \* recordings begun
    since       \* history: how many of them when each session was closed, and
                \*   how many steps there were when its __exit__ began

scopeVars == <<current, started, base, blocks, token>>
exitVars == <<life, status, drain, saved, since>>
vars == <<scopeVars, exitVars, steps, openSpans, spans, rec, begun>>

NoTraj == "none"
Id == 1..MaxSteps
Idle == [pc |-> "idle", tr |-> NoTraj, kind |-> "none", id |-> 0, call |-> 0]
NotSaved == [status |-> "none", steps |-> <<>>]

Init ==
    /\ current = [c \in Ctx |-> NoTraj]
    /\ started = Main
    /\ base = [c \in Ctx |-> NoTraj]
    /\ blocks = [c \in Ctx |-> <<>>]
    /\ token = [tr \in Traj |-> NoTraj]
    /\ life = [tr \in Traj |-> "new"]
    /\ status = [tr \in Traj |-> "RUNNING"]
    /\ steps = [tr \in Traj |-> <<>>]
    /\ openSpans = [tr \in Traj |-> {}]
    /\ spans = [i \in Id |-> "none"]
    /\ drain = [tr \in Traj |-> {}]
    /\ saved = [tr \in Traj |-> NotSaved]
    /\ rec = [c \in Ctx |-> Idle]
    /\ begun = 0
    /\ since = [tr \in Traj |-> [closed |-> MaxSteps, steps |-> 0]]

-----------------------------------------------------------------------------
(* Scopes                                                                  *)

Innermost(c) == blocks[c][Len(blocks[c])]

\* The context runs the body of its innermost block, or none.
Free(c) ==
    /\ c \in started
    /\ rec[c] = Idle
    /\ blocks[c] # <<>> => life[Innermost(c)] = "open"

Enter(c, tr) ==
    /\ Free(c)
    /\ life[tr] = "new"
    /\ life' = [life EXCEPT ![tr] = "open"]
    /\ status' = [status EXCEPT ![tr] = "RUNNING"]
    /\ token' = [token EXCEPT ![tr] = current[c]]
    /\ current' = [current EXCEPT ![c] = tr]
    /\ blocks' = [blocks EXCEPT ![c] = Append(@, tr)]
    /\ UNCHANGED <<started, base, drain, saved, since, steps,
                   openSpans, spans, rec, begun>>

\* A task is made: it has a copy of the context.
Spawn(c, d) ==
    /\ Free(c)
    /\ d \notin started
    /\ started' = started \cup {d}
    /\ current' = [current EXCEPT ![d] = current[c]]
    /\ base' = [base EXCEPT ![d] = current[c]]
    /\ UNCHANGED <<blocks, token, exitVars, steps, openSpans, spans, rec, begun>>

-----------------------------------------------------------------------------
(* __exit__                                                                *)

\* The steps with an error step behind them if the body raised.
WithError(tr, raised) ==
    IF raised THEN Append(steps[tr], [kind |-> "ERROR", id |-> 0, call |-> 0])
    ELSE steps[tr]

\* Mutant: the variable is cleared, not reset.
LeaveScope_Clears(c, tr) == current' = [current EXCEPT ![c] = NoTraj]

LeaveScope(c, tr) == current' = [current EXCEPT ![c] = token[tr]]

\* Leave the scope, record the error, set the status and list the open spans.
Exit(c, raised) ==
    LET tr == Innermost(c) IN
    /\ Free(c)
    /\ blocks[c] # <<>>
    /\ LeaveScope(c, tr)
    /\ steps' = [steps EXCEPT ![tr] = WithError(tr, raised)]
    /\ status' = [status EXCEPT ![tr] = IF raised THEN "FAILED" ELSE "SUCCESS"]
    /\ life' = [life EXCEPT ![tr] = "draining"]
    /\ drain' = [drain EXCEPT ![tr] = openSpans[tr]]
    /\ since' = [since EXCEPT ![tr].steps = Len(WithError(tr, raised))]
    /\ UNCHANGED <<started, base, blocks, token, saved, openSpans,
                   spans, rec, begun>>

Ends(i, how) ==
    spans' = [spans EXCEPT ![i] = IF @ = "open" THEN how ELSE @]

\* Mutant: the spans are taken from the dict but not ended.
Orphans_Drops(i) == UNCHANGED spans

\* A span that has ended, with its result, stays as it is.
Orphans(i) == Ends(i, "orphaned")

Drain(c) ==
    LET tr == Innermost(c) IN
    /\ blocks[c] # <<>>
    /\ life[tr] = "draining"
    /\ \E i \in drain[tr] :
          /\ Orphans(i)
          /\ openSpans' = [openSpans EXCEPT ![tr] = @ \ {i}]
          /\ drain' = [drain EXCEPT ![tr] = @ \ {i}]
    /\ UNCHANGED <<scopeVars, life, status, saved, since, steps, rec,
                   begun>>

Closes(tr) ==
    /\ life' = [life EXCEPT ![tr] = "saving"]
    /\ since' = [since EXCEPT ![tr].closed = begun]
    /\ UNCHANGED <<scopeVars, status, drain, saved, steps, openSpans,
                   spans, rec, begun>>

\* The session's span is closed and forgotten.
Close(c) ==
    LET tr == Innermost(c) IN
    /\ blocks[c] # <<>>
    /\ life[tr] = "draining"
    /\ drain[tr] = {}
    /\ Closes(tr)

\* Mutant: what is saved is the list as it was before the error.
Payload_Early(tr) ==
    [status |-> status[tr],
     steps |-> SelectSeq(steps[tr], LAMBDA s : s.kind # "ERROR")]

Payload(tr) == [status |-> status[tr], steps |-> steps[tr]]

\* Save to the default store, which the host may set or clear at any time; a
\* put that raises leaves nothing behind.
Save(c) ==
    LET tr == Innermost(c) IN
    /\ blocks[c] # <<>>
    /\ life[tr] = "saving"
    /\ life' = [life EXCEPT ![tr] = "closed"]
    /\ \/ saved' = [saved EXCEPT ![tr] = Payload(tr)]
       \/ UNCHANGED saved
    /\ blocks' = [blocks EXCEPT ![c] = SubSeq(@, 1, Len(@) - 1)]
    /\ UNCHANGED <<current, started, base, token, status, drain, since,
                   steps, openSpans, spans, rec, begun>>

-----------------------------------------------------------------------------
(* Recording                                                               *)

\* _otel_span is not None
HasSpan(tr) == life[tr] \in {"open", "draining"}

Goes(c, pc) == rec' = [rec EXCEPT ![c].pc = pc]
Begins(c, tr, kind, call, pc) ==
    /\ begun < MaxSteps
    /\ life[tr] # "new"
    /\ Free(c)
    /\ begun' = begun + 1
    /\ rec' = [rec EXCEPT ![c] = [pc |-> pc, tr |-> tr, kind |-> kind,
                                  id |-> begun', call |-> call]]
    /\ UNCHANGED <<scopeVars, exitVars, openSpans, spans>>

AddTo(tr, kind, id, call) ==
    steps' = [steps EXCEPT ![tr] =
                Append(@, [kind |-> kind, id |-> id, call |-> call])]

\* add_step: record_input, record_output, record_error for an error that the
\* body has caught, and the pillars that record into the current trajectory.
AddStep(c, tr) ==
    \E kind \in {"STEP", "ERROR"} :
        /\ Begins(c, tr, kind, 0, "check")
        /\ AddTo(tr, kind, begun', 0)

\* Mutant: a step of a kind without a span does not ask for the session's.
Checks_Always(c) == Goes(c, "event")

Checks(c) == IF HasSpan(rec[c].tr) THEN Goes(c, "event")
             ELSE rec' = [rec EXCEPT ![c] = Idle]

CheckSpan(c) ==
    /\ rec[c].pc = "check"
    /\ Checks(c)
    /\ UNCHANGED <<scopeVars, exitVars, steps, openSpans, spans, begun>>

\* self._otel_span is read again: None has no add_event.
AddEvent(c) ==
    /\ rec[c].pc = "event"
    /\ IF HasSpan(rec[c].tr) THEN rec' = [rec EXCEPT ![c] = Idle]
       ELSE Goes(c, "raised")
    /\ UNCHANGED <<scopeVars, exitVars, steps, openSpans, spans, begun>>

\* record_tool_call, record_llm_call
RecordCall(c, tr) ==
    /\ Begins(c, tr, "CALL", 0, IF HasSpan(tr) THEN "start" ELSE "append")
    /\ UNCHANGED steps

StartSpan(c) ==
    LET r == rec[c] IN
    /\ r.pc = "start"
    /\ spans' = [spans EXCEPT ![r.id] = "open"]
    /\ openSpans' = [openSpans EXCEPT ![r.tr] = @ \cup {r.id}]
    /\ Goes(c, "append")
    /\ UNCHANGED <<scopeVars, exitVars, steps, begun>>

\* record_tool_result, record_llm_result, for any call step of the trajectory
\* (an id of no call step finds no span and is left out)
RecordResult(c, tr) ==
    /\ \E k \in DOMAIN steps[tr] :
          /\ steps[tr][k].kind = "CALL"
          /\ Begins(c, tr, "RESULT", steps[tr][k].id,
                    IF HasSpan(tr) THEN "pop" ELSE "append")
    /\ UNCHANGED steps

\* _end_step_span: take the span out of the dict ...
PopSpan(c) ==
    LET r == rec[c] IN
    /\ r.pc = "pop"
    /\ openSpans' = [openSpans EXCEPT ![r.tr] = @ \ {r.call}]
    /\ Goes(c, IF r.call \in openSpans[r.tr] THEN "end" ELSE "append")
    /\ UNCHANGED <<scopeVars, exitVars, steps, spans, begun>>

\* ... and end it.
EndSpan(c) ==
    LET r == rec[c] IN
    /\ r.pc = "end"
    /\ Ends(r.call, "ended")
    /\ Goes(c, "append")
    /\ UNCHANGED <<scopeVars, exitVars, steps, openSpans, begun>>

AppendStep(c) ==
    LET r == rec[c] IN
    /\ r.pc = "append"
    /\ AddTo(r.tr, r.kind, r.id, r.call)
    /\ rec' = [rec EXCEPT ![c] = Idle]
    /\ UNCHANGED <<scopeVars, exitVars, openSpans, spans, begun>>

\* The caller of add_step has caught what it raised.
Catch(c) ==
    /\ rec[c].pc = "raised"
    /\ rec' = [rec EXCEPT ![c] = Idle]
    /\ UNCHANGED <<scopeVars, exitVars, steps, openSpans, spans, begun>>

-----------------------------------------------------------------------------
RecordStep(c) ==
    \/ \E tr \in Traj : AddStep(c, tr) \/ RecordCall(c, tr) \/ RecordResult(c, tr)
    \/ CheckSpan(c) \/ AddEvent(c) \/ StartSpan(c) \/ PopSpan(c) \/ EndSpan(c)
    \/ AppendStep(c) \/ Catch(c)

Next ==
    \E c \in Ctx :
        \/ \E tr \in Traj : Enter(c, tr)
        \/ \E d \in Ctx : Spawn(c, d)
        \/ \E raised \in BOOLEAN : Exit(c, raised)
        \/ Drain(c) \/ Close(c) \/ Save(c)
        \/ RecordStep(c)

Spec == Init /\ [][Next]_vars

-----------------------------------------------------------------------------
(* Properties                                                              *)

Kind == {"none", "STEP", "CALL", "RESULT", "ERROR"}
StepRecord == [kind : Kind, id : 0..MaxSteps, call : 0..MaxSteps]
Recording == [pc : {"idle", "check", "event", "start", "append", "pop", "end",
                    "raised"},
              tr : Traj \cup {NoTraj}, kind : Kind, id : 0..MaxSteps,
              call : 0..MaxSteps]

\* The types of the variables, and what goes with each place: a span that is
\* in a dict was opened, only an exit has spans to drain, the status is final
\* once it has begun, and a recording has a number and a trajectory.
TypeOK ==
    /\ started \subseteq Ctx
    /\ current \in [Ctx -> Traj \cup {NoTraj}]
    /\ base \in [Ctx -> Traj \cup {NoTraj}]
    /\ blocks \in [Ctx -> Seq(Traj)]
    /\ token \in [Traj -> Traj \cup {NoTraj}]
    /\ life \in [Traj -> {"new", "open", "draining", "saving", "closed"}]
    /\ status \in [Traj -> {"RUNNING", "SUCCESS", "FAILED"}]
    /\ steps \in [Traj -> Seq(StepRecord)]
    /\ openSpans \in [Traj -> SUBSET Id]
    /\ spans \in [Id -> {"none", "open", "ended", "orphaned"}]
    /\ drain \in [Traj -> SUBSET Id]
    /\ saved \in [Traj -> [status : {"none", "SUCCESS", "FAILED"},
                           steps : Seq(StepRecord)]]
    /\ rec \in [Ctx -> Recording]
    /\ begun \in 0..MaxSteps
    /\ since \in [Traj -> [closed : 0..MaxSteps, steps : Nat]]
    /\ \A tr \in Traj :
          /\ \A i \in openSpans[tr] : spans[i] # "none"
          /\ life[tr] # "draining" => drain[tr] = {}
          /\ status[tr] = "RUNNING" <=> life[tr] \in {"new", "open"}
    /\ \A c \in Ctx : rec[c].pc # "idle" => rec[c].id # 0 /\ rec[c].tr \in Traj

\* How many of its blocks the context has not begun to leave.
Depth(c) ==
    IF blocks[c] = <<>> THEN 0
    ELSE IF life[Innermost(c)] = "open" THEN Len(blocks[c])
    ELSE Len(blocks[c]) - 1

\* Recording into current_trajectory, a context records into the innermost
\* block it is in, or, outside of its own blocks, where its creator did: an
\* exit gives back what its enter took, also when it raises.
CurrentIsInnermost ==
    \A c \in started :
        current[c] = IF Depth(c) = 0 THEN base[c] ELSE blocks[c][Depth(c)]

\* The ERROR step that __exit__ adds, unlike one that the host recorded.
IsExitError(s) == s.kind = "ERROR" /\ s.id = 0

\* What reaches the store is the story up to the exit, whoever goes on
\* recording during it: every step recorded before, in the order of the list
\* that replay() shows then and later, and, of the errors, FAILED for the one
\* that left the block, whose step is there, and for no other.
SavedIsComplete ==
    \A tr \in Traj : saved[tr] # NotSaved =>
        LET old == since[tr].steps
            p == saved[tr].steps
        IN /\ old <= Len(p) /\ Len(p) <= Len(steps[tr])
           /\ p = SubSeq(steps[tr], 1, Len(p))
           /\ saved[tr].status = "FAILED" <=>
                 \E k \in 1..old : IsExitError(p[k])

\* The spans of what was recorded before the exit are settled when the
\* session is closed: a call's has ended, or is about to by a result that is
\* being recorded, and one whose result was recorded is not marked orphaned -
\* although recordings and the exit take spans from one dict without a lock.
SpansAreSettled ==
    \A tr \in Traj : \A k \in 1..since[tr].steps :
        LET s == steps[tr][k] IN
        /\ s.kind = "CALL" /\ life[tr] \in {"saving", "closed"} =>
              \/ spans[s.id] # "open"
              \/ \E c \in Ctx : rec[c].pc = "end" /\ rec[c].call = s.id
        /\ s.kind = "RESULT" => spans[s.call] # "orphaned"

\* A recording raises only if the session was closed in the middle of it - one
\* that begins afterwards is kept without a span and without an error - and
\* what raises has recorded its step: it is the caller, for whom
\* Conductor.delegate "NEVER raises" (conductor/_core.py:183), that pays.
RaisesOnlyAcrossExit ==
    \A c \in Ctx : rec[c].pc = "raised" =>
        /\ rec[c].id <= since[rec[c].tr].closed
        /\ \E k \in DOMAIN steps[rec[c].tr] :
              steps[rec[c].tr][k].id = rec[c].id
=============================================================================
