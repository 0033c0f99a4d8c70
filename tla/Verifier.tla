------------------------------ MODULE Verifier ------------------------------
(***************************************************************************)
(* Verifier.audit: the layers of a chain judge one target after the other, *)
(* and their verdicts are aggregated.  Layers and rules are user code; the *)
(* default chain and the registry of names may change while they run.      *)
(*                                                                         *)
(* A layer is its kind, how many rules it has, its cost, and how confident *)
(* it is if it is an object of the host's own: a "custom" one.  The target *)
(* is left out: whatever it is, a layer may answer anything.  Confidences  *)
(* are in tenths and an audit keeps their sum; reasons, details and        *)
(* latency are left out.                                                   *)
(***************************************************************************)
EXTENDS Callbacks

CONSTANTS
    Layer,
    LayerName,
    Factories,      \* the factories that may be registered: their layers
    Chains,         \* what audit and set_default_layers are given: sequences
                    \* of names and layers
    RuleOutcome,    \* what user code may answer, or "raise"
    NoFactory

VARIABLES
    factories,      \* _REGISTRY: the layer each name makes, or NoFactory
    defaults        \* _default_layers

verifierVars == <<factories, defaults>>

NoCost == -1
Verdicts == {"PASS", "FAIL", "UNCERTAIN"}
LayerType ==
    [kind : {"rules", "judge", "schema", "custom"}, rules : Nat,
     cost : {NoCost} \cup Nat, confidence : 0..10]

ASSUME VerifierAssumption ==
    /\ Layer \subseteq LayerType
    /\ Factories \subseteq Layer
    /\ Chains \subseteq Seq(Layer \cup LayerName)
    /\ RuleOutcome \subseteq Verdicts \cup {"other", "raise"}

\* register_verifier replaces.
RegisterVerifier(t, name, layer) ==
    /\ InUserCode(t)
    /\ factories' = [factories EXCEPT ![name] = layer]
    /\ UNCHANGED <<stack, defaults>>

\* "raw" is history: all that user code answered.
Auditing(op, items) ==
    [op |-> op, inside |-> FALSE, items |-> items, chain |-> <<>>, at |-> 0,
     answers |-> <<>>, verdicts |-> <<>>, raw |-> <<>>]

\* audit with a chain, and with the default one, which is copied.
Audit(t, items) ==
    /\ MayCall(t)
    /\ Push(t, Auditing("audit", items))
    /\ UNCHANGED verifierVars

AuditByDefault(t) ==
    /\ MayCall(t)
    /\ Push(t, [Auditing("audit", <<>>) EXCEPT !.chain = defaults])
    /\ UNCHANGED verifierVars

\* set_default_layers resolves its chain at once, and then stores it.
SetDefaultLayers(t, items) ==
    /\ MayCall(t)
    /\ Push(t, Auditing("set", items))
    /\ UNCHANGED verifierVars

\* _resolve_layers: a name is looked up under the lock and makes a new layer (the
\* factory itself calls nothing); a name that is not registered raises.
ResolveItem(t) ==
    LET item == Head(Top(t).items)
        Takes(layer) == Becomes(t, [Top(t) EXCEPT !.items = Tail(@),
                                                  !.chain = Append(@, layer)])
    IN
    /\ Running(t, "audit") \/ Running(t, "set")
    /\ Top(t).items # <<>>
    /\ IF item \notin LayerName THEN Takes(item)
       ELSE IF factories[item] # NoFactory THEN Takes(factories[item])
       ELSE Pop(t)
    /\ UNCHANGED verifierVars

StoreDefaults(t) ==
    /\ Running(t, "set") /\ Top(t).items = <<>>
    /\ defaults' = Top(t).chain
    /\ Pop(t)
    /\ UNCHANGED factories

\* The chain goes on to its next layer, whatever the layers before said.
NextLayer(t) ==
    /\ Running(t, "audit") /\ Top(t).items = <<>>
    /\ Len(Top(t).verdicts) = Top(t).at /\ Top(t).at < Len(Top(t).chain)
    /\ Becomes(t, [Top(t) EXCEPT !.at = @ + 1, !.answers = <<>>])
    /\ UNCHANGED verifierVars

CurrentLayer(t) == Top(t).chain[Top(t).at]
Judging(t) ==
    /\ Running(t, "audit") /\ Top(t).items = <<>>
    /\ Top(t).at = Len(Top(t).verdicts) + 1

\* _coerce, and the parsing of a judge's first line: anything else is UNCERTAIN.
Coerced(answer) == IF answer \in Verdicts THEN answer ELSE "UNCERTAIN"

\* Mutant: one PASS is enough unless something FAILs.
Aggregate_Lenient(statuses) ==
    IF "FAIL" \in Range(statuses) THEN "FAIL"
    ELSE IF "PASS" \in Range(statuses) THEN "PASS"
    ELSE "UNCERTAIN"

\* _aggregate and _aggregate_status
Aggregate(statuses) ==
    IF "FAIL" \in Range(statuses) THEN "FAIL"
    ELSE IF Range(statuses) = {"PASS"} THEN "PASS"
    ELSE "UNCERTAIN"

\* The user code that a layer still has to call: its rules, or one model, or it
\* is user code itself.
Pending(t) ==
    IF CurrentLayer(t).kind = "rules" THEN Len(Top(t).answers) < CurrentLayer(t).rules
                                ELSE Top(t).answers = <<>>

CallRule(t) ==
    /\ Judging(t) /\ CurrentLayer(t).kind # "schema" /\ Pending(t)
    /\ Becomes(t, [Top(t) EXCEPT !.inside = TRUE])
    /\ UNCHANGED verifierVars

\* What _run_layer makes of a layer that raised, a rule's FAIL before included.
Broken == [status |-> "UNCERTAIN", confidence |-> 0, cost |-> NoCost]

\* A custom layer has to return a verdict: the attributes of anything else are
\* read outside of the try, and the audit is left by an AttributeError.
NoVerdict(t, answer) ==
    CurrentLayer(t).kind = "custom" /\ answer \notin Verdicts \cup {"raise"}

RuleAnswers(t) ==
    /\ stack[t] # <<>> /\ Top(t).op = "audit" /\ Top(t).inside
    /\ \E answer \in RuleOutcome :
          LET frame == [Top(t) EXCEPT !.inside = FALSE, !.raw = Append(@, answer)]
          IN IF NoVerdict(t, answer) THEN Pop(t)
             ELSE Becomes(t, IF answer = "raise"
                             THEN [frame EXCEPT !.verdicts = Append(@, Broken)]
                             ELSE [frame EXCEPT !.answers = Append(@, Coerced(answer))])
    /\ UNCHANGED verifierVars

\* The verdict of each kind of layer.
VerdictOf(layer, answers) ==
    LET status == Aggregate(answers)
    IN [status |-> status,
        confidence |->
            CASE layer.kind = "judge" -> IF status = "UNCERTAIN" THEN 3 ELSE 8
              [] layer.kind = "custom" -> layer.confidence
              [] OTHER -> IF answers = <<>> THEN 0 ELSE 10,
        cost |-> IF layer.kind \in {"judge", "custom"} THEN layer.cost ELSE NoCost]

\* A layer ends.  A schema or a pattern matches or does not, without user code.
LayerDone(t) ==
    /\ Judging(t)
    /\ IF CurrentLayer(t).kind = "schema"
       THEN \E answer \in {"PASS", "FAIL"} :
               Becomes(t, [Top(t) EXCEPT
                   !.raw = Append(@, answer),
                   !.verdicts = Append(@, VerdictOf(CurrentLayer(t), <<answer>>))])
       ELSE /\ ~Pending(t)
            /\ Becomes(t, [Top(t) EXCEPT
                   !.verdicts = Append(@, VerdictOf(CurrentLayer(t), Top(t).answers))])
    /\ UNCHANGED verifierVars

\* The audit returns its result.
Finished(frame) ==
    frame.op = "audit" /\ frame.items = <<>>
        /\ Len(frame.verdicts) = Len(frame.chain)

EndAudit(t) ==
    /\ Running(t, "audit") /\ Finished(Top(t))
    /\ Pop(t)
    /\ UNCHANGED verifierVars

AuditStep(t) ==
    \/ ResolveItem(t) \/ StoreDefaults(t) \/ NextLayer(t)
    \/ CallRule(t) \/ RuleAnswers(t) \/ LayerDone(t) \/ EndAudit(t)

\* sum(...); a recursive function, since what the provers know of a fold is
\* only its name.
Sum(numbers) ==
    LET sum[n \in 0..Len(numbers)] == IF n = 0 THEN 0 ELSE sum[n - 1] + numbers[n]
    IN  sum[Len(numbers)]

\* _aggregate_confidence (the sum, not the mean) and _aggregate_cost
AuditResult(verdicts) ==
    LET costs == [i \in DOMAIN verdicts |-> verdicts[i].cost]
    IN [status |-> Aggregate([i \in DOMAIN verdicts |-> verdicts[i].status]),
        confidence |-> Sum([i \in DOMAIN verdicts |-> verdicts[i].confidence]),
        cost |-> IF Range(costs) \subseteq {NoCost} THEN NoCost
                 ELSE Sum([i \in DOMAIN costs |->
                             IF costs[i] = NoCost THEN 0 ELSE costs[i]])]

------------------------------------------------------------------------------
(* Properties                                                              *)

Verdict == [status : Verdicts, confidence : Nat, cost : {NoCost} \cup Nat]
AuditFrame ==
    [op : {"audit", "set"}, inside : BOOLEAN, items : Seq(Layer \cup LayerName),
     chain : Seq(Layer), at : Nat, answers : Seq(Verdicts),
     verdicts : Seq(Verdict), raw : Seq(RuleOutcome \cup Verdicts)]

\* Types of the verifier's variables.
VerifierTypeOK ==
    /\ factories \in [LayerName -> Factories \cup {NoFactory}]
    /\ defaults \in Seq(Layer)

\* An audit passes exactly if every rule, model and schema that it asked said
\* PASS, there was one in each layer, and there was a layer: nothing that fails,
\* raises or cannot be read is lost in the aggregation of rules, layers and
\* chain.  An audit that passes without custom layers is confident.
PassMeansAllPassed ==
    \A t \in Thread : \A i \in DOMAIN stack[t] :
        LET audit == stack[t][i] IN
        (audit.op = "audit" /\ Finished(audit)) =>
            LET result == AuditResult(audit.verdicts)
                ours == \A j \in DOMAIN audit.chain : audit.chain[j].kind # "custom"
            IN /\ result.status = "PASS" <=>
                    /\ audit.chain # <<>>
                    /\ \A j \in DOMAIN audit.chain :
                          audit.chain[j].kind = "rules" => audit.chain[j].rules > 0
                    /\ Range(audit.raw) = {"PASS"}
               /\ result.status = "PASS" /\ ours =>
                     result.confidence >= 8 * Len(audit.chain)
               /\ result.status = "FAIL" => "FAIL" \in Range(audit.raw)
=============================================================================
