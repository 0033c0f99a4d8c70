------------------------------ MODULE Pipeline ------------------------------
(***************************************************************************)
(* Pipeline.run on top of Conductor.delegate: host threads run plans whose *)
(* steps name an agent, ask for the capability, or both, while agents come *)
(* and go and other host threads delegate.                                 *)
(*                                                                         *)
(* An output is known by the delegation that returned it, so an input is   *)
(* the number of a delegation, or Initial for run's argument.  The events  *)
(* of the bus are left out.                                                *)
(***************************************************************************)
EXTENDS Conductor

CONSTANT Plan   \* the pipelines, see PipelineAssumption

\* A step may name an agent, may ask for the capability, and may have an
\* input_transform that raises.
StepSpec ==
    [agent : Agent \cup {NoAgent}, capability : BOOLEAN, raises : BOOLEAN]

ASSUME PipelineAssumption == Plan \subseteq Seq(StepSpec)

VARIABLES
    run,    \* each host thread's call of Pipeline.run, or the last it made
    fed     \* history: the input of each delegation made by a pipeline

pipeVars == <<vars, run, fed>>

Initial == 0

\* ds are the delegations of the steps done so far and of the current one.
NoRun == [pc |-> "idle", plan |-> <<>>, named |-> <<>>, input |-> Initial,
          ds |-> <<>>, final |-> None]

PipeInit ==
    /\ Init
    /\ run = [c \in Caller |-> NoRun]
    /\ fed = [d \in Id |-> None]

Becomes(c, r) == run' = [run EXCEPT ![c] = r]

Current(c) == run[c].plan[Len(run[c].ds) + 1]

\* The place after a step: the next one, or the end with its _final.
Onward(r, input) ==
    [r EXCEPT !.input = input, !.named = <<>>,
              !.pc = IF Len(r.ds) < Len(r.plan) THEN "step" ELSE "completed",
              !.final = IF Len(r.ds) < Len(r.plan) THEN @ ELSE input]

PipelineStarts(c) ==
    /\ run[c].pc = "idle"
    /\ stack[c] = <<>>
    /\ \E plan \in Plan : Becomes(c, Onward([NoRun EXCEPT !.plan = plan], Initial))
    /\ UNCHANGED <<vars, fed>>

\* input_transform raises, out of run.
TransformRaises(c) ==
    /\ run[c].pc = "step"
    /\ Current(c).raises
    /\ Becomes(c, [run[c] EXCEPT !.pc = "raised"])
    /\ UNCHANGED <<vars, fed>>

\* Conductor.get_agent(step.agent_name), which may find nothing ...
LooksUp(c) ==
    LET a == Current(c).agent
        there == a # NoAgent /\ since[a] # NotRegistered
    IN /\ run[c].pc = "step"
       /\ ~Current(c).raises
       /\ Becomes(c, [run[c] EXCEPT !.pc = "call",
                                    !.named = IF there THEN <<a>> ELSE <<>>])
       /\ UNCHANGED <<vars, fed>>

\* Mutant: an agent that is not there is replaced by any with the capability.
StepDelegates_FallsBack(c) ==
    /\ run[c].pc = "call"
    /\ \E r \in Request :
          /\ r.named = run[c].named
          /\ r.capability = (Current(c).capability \/ r.named = <<>>)
          /\ ~r.timed
          /\ Delegate(c, r)
    /\ Becomes(c, [run[c] EXCEPT !.pc = "called", !.ds = Append(@, begun')])
    /\ fed' = [fed EXCEPT ![begun'] = run[c].input]

\* ... then Conductor.delegate(agents, capability, input).
StepDelegates(c) ==
    /\ run[c].pc = "call"
    /\ \E r \in Request :
          /\ r.named = run[c].named
          /\ r.capability = Current(c).capability
          /\ ~r.timed
          /\ Delegate(c, r)
    /\ Becomes(c, [run[c] EXCEPT !.pc = "called", !.ds = Append(@, begun')])
    /\ fed' = [fed EXCEPT ![begun'] = run[c].input]

\* Mutant: a failed step hands its input on to the next one.
StepSettles_GoesOn(c) ==
    LET r == run[c]
        d == r.ds[Len(r.ds)]
    IN /\ r.pc = "called"
       /\ stack[c] = <<>>
       /\ Becomes(c, Onward(r, IF deleg[d].status = "SUCCESS" THEN d
                               ELSE r.input))
       /\ UNCHANGED <<vars, fed>>

\* Its result: on with the output, or the end of the run.
StepSettles(c) ==
    LET r == run[c]
        d == r.ds[Len(r.ds)]
    IN /\ r.pc = "called"
       /\ stack[c] = <<>>
       /\ \/ /\ deleg[d].status = "SUCCESS"
             /\ Becomes(c, Onward(r, d))
          \/ /\ deleg[d].status \in {"FAILED", "REFUSED"}
             /\ Becomes(c, [r EXCEPT !.pc = "failed", !.final = None])
          \/ /\ deleg[d].pc = "lost"
             /\ Becomes(c, [r EXCEPT !.pc = "raised"])
       /\ UNCHANGED <<vars, fed>>

\* The caller has the outputs and the thread is free.
PipelineReturns(c) ==
    /\ run[c].pc \in {"completed", "failed", "raised"}
    /\ Becomes(c, NoRun)
    /\ UNCHANGED <<vars, fed>>

PipelineStep(c) ==
    PipelineStarts(c) \/ TransformRaises(c) \/ LooksUp(c) \/ StepDelegates(c)
        \/ StepSettles(c) \/ PipelineReturns(c)

PipeNext ==
    \/ Delegations /\ UNCHANGED <<run, fed>>
    \/ \E c \in Caller :
          \/ PipelineStep(c)
          \/ /\ run[c].pc = "idle"
             /\ HostDelegates(c)
             /\ UNCHANGED <<run, fed>>

PipeSpec == PipeInit /\ [][PipeNext]_pipeVars

-----------------------------------------------------------------------------
(* Properties                                                              *)

\* The types of the two variables, beside those of Conductor.
PipeTypeOK ==
    /\ TypeOK
    /\ run \in [Caller ->
          [pc : {"idle", "step", "call", "called", "completed", "failed",
                 "raised"},
           plan : Plan \cup {<<>>}, named : Seq(Agent),
           input : 0..begun, ds : Seq(1..begun), final : 0..begun]]
    /\ fed \in [Id -> 0..begun]

\* The delegations of a run form a chain: the first gets the argument of run,
\* each other one the output of the one before it, which was a SUCCESS, and
\* run completes only after a SUCCESS of every step, with the output of the
\* last - whatever delegations the agents and other threads make meanwhile.
OutputsChain ==
    \A c \in Caller :
        LET r == run[c] IN
        /\ \A k \in DOMAIN r.ds :
              /\ fed[r.ds[k]] = IF k = 1 THEN Initial ELSE r.ds[k - 1]
              /\ k < Len(r.ds) => deleg[r.ds[k]].status = "SUCCESS"
        /\ r.pc = "completed" /\ r.plan # <<>> =>
              /\ Len(r.ds) = Len(r.plan)
              /\ r.final = r.ds[Len(r.ds)]
              /\ deleg[r.final].status = "SUCCESS"

\* A step that only names an agent is run by that agent or refused, however
\* the registry changes between the look-up and the delegation.
OnlyTheNamedAgent ==
    \A c \in Caller : \A k \in DOMAIN run[c].ds :
        LET s == run[c].plan[k] IN
        s.agent # NoAgent /\ ~s.capability =>
            deleg[run[c].ds[k]].to \in {s.agent, NoAgent}
=============================================================================
