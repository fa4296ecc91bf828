------------------------------ MODULE Detector ------------------------------
(***************************************************************************)
(* The detection engine, internal/detection/detector.go: goroutines run    *)
(* ProcessSignal and ProcessSignalGroup, and one goroutine evaluates the   *)
(* time-window rules at every tick.  All of them take the detector's       *)
(* mutex for short sections, which are single steps here; only the         *)
(* evaluator keeps it across the calls it makes, so locked says whether    *)
(* it does.                                                                *)
(*                                                                         *)
(* Time is kept as what is left of each rule's cooldown.  The signal       *)
(* history is left out: only the evaluator reads it, past the read lock it *)
(* never gets (EvalEnd).  Incidents are created by module IncidentService; *)
(* here a creation succeeds or fails.                                      *)
(***************************************************************************)
EXTENDS Naturals, Sequences, FiniteSets

CONSTANTS Processors,          \* goroutines that process signals or groups
          RuleTypes,           \* the loaded rules, highest priority first
          Items,               \* signals and groups, see ItemOK
          MaxRulesPerSignal,
          Cooldown,            \* in ticks of the clock, the same for all rules
          AutoCreateIncidents

RuleNames == 1..Len(RuleTypes)  \* a rule's index stands for its unique name

(* A signal or a group: the rules whose filters it passes and, among them, *)
(* those whose conditions it meets.  evaluateRule never matches a rule of  *)
(* type error_rate or trace_anomaly.                                       *)
Evaluable == {i \in RuleNames : RuleTypes[i] \in {"metric_threshold", "log_pattern"}}
ItemOK(x) == /\ x.isGroup \in BOOLEAN
             /\ x.applies \subseteq RuleNames
             /\ x.meets \subseteq x.applies \cap Evaluable

ASSUME DetectorAssumption ==
    /\ IsFiniteSet(Processors)
    /\ RuleTypes \in
          Seq({"metric_threshold", "log_pattern", "trace_anomaly", "error_rate"})
    /\ \A x \in Items : DOMAIN x = {"isGroup", "applies", "meets"} /\ ItemOK(x)
    /\ MaxRulesPerSignal \in Nat
    /\ Cooldown \in Nat
    /\ AutoCreateIncidents \in BOOLEAN

VARIABLES locked,       \* the evaluator holds the mutex
          cooldown,     \* ticks left of each rule's cooldown, 0 when it is over
          pc, item,     \* control and argument of each processor
          next,         \* the rule it looks at
          evaluated,    \* its local rulesEvaluated
          matches,      \* its local matches
          evaluator,    \* the evaluationWorker goroutine
          tickReady,    \* its ticker has fired
          runDone,      \* the context of Start is done
          stop,         \* the call of Stop
          burst         \* history: incidents per rule since its last cooldown ended

processorVars == <<pc, item, next, evaluated, matches>>
evaluatorVars == <<locked, evaluator, tickReady, runDone, stop>>
detectorVars == <<processorVars, evaluatorVars, cooldown, burst>>

NoItem == [isGroup |-> FALSE, applies |-> {}, meets |-> {}]
BurstBound == Cardinality(Processors) + 1

DetectorTypeOK ==
    /\ locked \in BOOLEAN /\ tickReady \in BOOLEAN /\ runDone \in BOOLEAN
    /\ cooldown \in [RuleNames -> 0..Cooldown]
    /\ pc \in [Processors -> {"idle", "store", "rules", "create", "cooldown"}]
    /\ item \in [Processors -> Items \cup {NoItem}]
    /\ next \in [Processors -> 1..(Len(RuleTypes) + 1)]
    /\ evaluated \in [Processors -> 0..MaxRulesPerSignal]
    /\ matches \in [Processors -> SUBSET Evaluable]
    /\ evaluator \in {"off", "waiting", "evaluating", "ended"}
    /\ stop \in {"none", "stopping", "returned", "timed_out"}
    /\ burst \in [RuleNames -> 0..BurstBound]

DetectorInit ==
    /\ locked = FALSE /\ tickReady = FALSE /\ runDone = FALSE
    /\ cooldown = [i \in RuleNames |-> 0]
    /\ pc = [p \in Processors |-> "idle"]
    /\ item = [p \in Processors |-> NoItem]
    /\ next = [p \in Processors |-> 1]
    /\ evaluated = [p \in Processors |-> 0]
    /\ matches = [p \in Processors |-> {}]
    /\ evaluator = "off" /\ stop = "none"
    /\ burst = [i \in RuleNames |-> 0]

-----------------------------------------------------------------------------
(* ProcessSignal and ProcessSignalGroup                                    *)

GoTo(p, place) == pc' = [pc EXCEPT ![p] = place]

(* A signal is stored before it is evaluated, a group is not. *)
Begin(p, x) ==
    /\ pc[p] = "idle"
    /\ item' = [item EXCEPT ![p] = x]
    /\ GoTo(p, IF x.isGroup THEN "rules" ELSE "store")
    /\ UNCHANGED <<next, evaluated, matches, evaluatorVars, cooldown, burst>>

StoreSignal(p) ==
    /\ pc[p] = "store" /\ ~locked
    /\ GoTo(p, "rules")
    /\ UNCHANGED <<item, next, evaluated, matches, evaluatorVars, cooldown, burst>>

(* Only ProcessSignal counts and limits the rules it evaluates. *)
LimitReached(p) == ~item[p].isGroup /\ evaluated[p] >= MaxRulesPerSignal

(* Mutant: the cooldown is not looked at. *)
ReadyAlways(i) == i \in RuleNames

Ready(i) == cooldown[i] = 0

LooksAt(p, i) ==
    /\ pc[p] = "rules" /\ i = next[p]
    /\ i \in RuleNames /\ ~LimitReached(p)
    /\ next' = [next EXCEPT ![p] = i + 1]
    /\ UNCHANGED <<pc, item, evaluatorVars, cooldown, burst>>

(* The filters reject the item, or the cooldown does: isInCooldown, under  *)
(* the read lock.                                                          *)
SkipRule(p, i) ==
    /\ LooksAt(p, i)
    /\ \/ i \notin item[p].applies
       \/ i \in item[p].applies /\ ~locked /\ ~Ready(i)
    /\ UNCHANGED <<evaluated, matches>>

EvaluateRule(p, i) ==
    /\ LooksAt(p, i)
    /\ i \in item[p].applies /\ ~locked /\ Ready(i)
    /\ evaluated' = IF item[p].isGroup THEN evaluated
                    ELSE [evaluated EXCEPT ![p] = @ + 1]
    /\ matches' = IF i \in item[p].meets
                  THEN [matches EXCEPT ![p] = @ \cup {i}] ELSE matches

(* The metrics are updated under the lock and creation begins. *)
RulesDone(p) ==
    /\ pc[p] = "rules" /\ ~locked
    /\ next[p] \notin RuleNames \/ LimitReached(p)
    /\ GoTo(p, "create")
    /\ next' = [next EXCEPT ![p] = 1]
    /\ evaluated' = [evaluated EXCEPT ![p] = 0]
    /\ matches' = IF AutoCreateIncidents THEN matches ELSE [matches EXCEPT ![p] = {}]
    /\ UNCHANGED <<item, evaluatorVars, cooldown, burst>>

IsFirst(i, S) == i \in S /\ \A j \in S : i <= j

Dismiss(p, i) == matches' = [matches EXCEPT ![p] = @ \ {i}]

(* createIncidentFromMatch: the service creates the incident or refuses.   *)
CreateIncident(p, i) ==
    /\ pc[p] = "create" /\ IsFirst(i, matches[p])
    /\ GoTo(p, "cooldown")
    /\ burst' = [burst EXCEPT ![i] = IF @ < BurstBound THEN @ + 1 ELSE @]
    /\ UNCHANGED <<item, next, evaluated, matches, evaluatorVars, cooldown>>

CreateFails(p, i) ==
    /\ pc[p] = "create" /\ IsFirst(i, matches[p])
    /\ Dismiss(p, i)
    /\ UNCHANGED <<pc, item, next, evaluated, evaluatorVars, cooldown, burst>>

SetCooldown(p, i) ==
    /\ pc[p] = "cooldown" /\ IsFirst(i, matches[p]) /\ ~locked
    /\ cooldown' = [cooldown EXCEPT ![i] = Cooldown]
    /\ Dismiss(p, i)
    /\ GoTo(p, "create")
    /\ UNCHANGED <<item, next, evaluated, evaluatorVars, burst>>

(* ProcessSignal's deferred function takes the lock once more. *)
Return(p) ==
    /\ pc[p] = "create" /\ matches[p] = {}
    /\ item[p].isGroup \/ ~locked
    /\ GoTo(p, "idle")
    /\ item' = [item EXCEPT ![p] = NoItem]
    /\ UNCHANGED <<next, evaluated, matches, evaluatorVars, cooldown, burst>>

-----------------------------------------------------------------------------
(* The evaluator                                                           *)

Start ==
    /\ evaluator = "off"
    /\ evaluator' = "waiting"
    /\ UNCHANGED <<locked, tickReady, runDone, stop, processorVars, cooldown, burst>>

TickerFires ==
    /\ evaluator \in {"waiting", "evaluating"} /\ ~tickReady
    /\ tickReady' = TRUE
    /\ UNCHANGED <<locked, evaluator, runDone, stop, processorVars, cooldown, burst>>

EvalBegin ==
    /\ evaluator = "waiting" /\ tickReady /\ ~locked
    /\ tickReady' = FALSE
    /\ locked' = TRUE
    /\ evaluator' = "evaluating"
    /\ UNCHANGED <<runDone, stop, processorVars, cooldown, burst>>

(* Mutant: every rule is asked for its cooldown. *)
AsksForEveryRule(i) == i \in RuleNames

AsksForCooldown(i) == RuleTypes[i] = "error_rate"

(* For a rule of type error_rate isInCooldown takes the read lock, which   *)
(* the evaluator itself keeps from being free; the other rules are skipped.*)
EvalEnd ==
    /\ evaluator = "evaluating"
    /\ \A i \in RuleNames : AsksForCooldown(i) => ~locked
    /\ locked' = FALSE
    /\ evaluator' = "waiting"
    /\ UNCHANGED <<tickReady, runDone, stop, processorVars, cooldown, burst>>

(* Mutant: the stop channel is not watched. *)
EvaluatorStopsOnCancel == runDone

EvaluatorStops == stop # "none" \/ runDone

EvalExit ==
    /\ evaluator = "waiting" /\ EvaluatorStops
    /\ evaluator' = "ended"
    /\ UNCHANGED <<locked, tickReady, runDone, stop, processorVars, cooldown, burst>>

(* Stop is called once; called again it would close a closed channel. *)
StopDetector ==
    /\ stop = "none"
    /\ stop' = "stopping"
    /\ UNCHANGED <<locked, evaluator, tickReady, runDone, processorVars, cooldown, burst>>

StopReturn ==
    /\ stop = "stopping" /\ evaluator = "ended"
    /\ stop' = "returned"
    /\ UNCHANGED <<locked, evaluator, tickReady, runDone, processorVars, cooldown, burst>>

StopTimeout ==
    /\ stop = "stopping"
    /\ stop' = "timed_out"
    /\ UNCHANGED <<locked, evaluator, tickReady, runDone, processorVars, cooldown, burst>>

CancelRun ==
    /\ evaluator # "off" /\ ~runDone
    /\ runDone' = TRUE
    /\ UNCHANGED <<locked, evaluator, tickReady, stop, processorVars, cooldown, burst>>

-----------------------------------------------------------------------------

(* The clock: a cooldown that runs out ends the rule's burst. *)
CooldownTick ==
    /\ cooldown' = [i \in RuleNames |-> IF cooldown[i] > 0 THEN cooldown[i] - 1 ELSE 0]
    /\ cooldown' # cooldown
    /\ burst' = [i \in RuleNames |-> IF cooldown[i] = 1 THEN 0 ELSE burst[i]]
    /\ UNCHANGED <<processorVars, evaluatorVars>>

Processing(p) ==
    \/ StoreSignal(p) \/ RulesDone(p) \/ Return(p)
    \/ \E i \in RuleNames : \/ SkipRule(p, i) \/ EvaluateRule(p, i)
                            \/ CreateIncident(p, i) \/ CreateFails(p, i)
                            \/ SetCooldown(p, i)

Evaluating == EvalBegin \/ EvalEnd \/ EvalExit

DetectorNext ==
    \/ \E p \in Processors : Processing(p) \/ \E x \in Items : Begin(p, x)
    \/ Start \/ TickerFires \/ Evaluating
    \/ StopDetector \/ StopReturn \/ StopTimeout \/ CancelRun
    \/ CooldownTick

(* Goroutines that can run do.  select picks a ready case at random, so an *)
(* evaluator that is told to stop again and again does not miss it for     *)
(* ever.  Lock hands the mutex to whoever has waited for it, so a          *)
(* processor is not overtaken by the evaluator for ever.                   *)
Fairness ==
    /\ \A p \in Processors : SF_detectorVars(Processing(p))
    /\ WF_detectorVars(Evaluating) /\ SF_detectorVars(EvalExit)
    /\ WF_detectorVars(StopReturn)

DetectorSpec == DetectorInit /\ [][DetectorNext]_detectorVars /\ Fairness

-----------------------------------------------------------------------------
(* Properties                                                              *)

(* The cooldown check and setCooldown are separate sections, so goroutines *)
(* that matched a rule together each create an incident; but within one    *)
(* cooldown of the rule there is at most one incident per goroutine, and   *)
(* with a single goroutine the cooldown is what its comment says.          *)
BurstBounded == \A i \in RuleNames : burst[i] <= Cardinality(Processors)

(* ProcessSignal and ProcessSignalGroup return, also while the evaluator   *)
(* runs.                                                                   *)
ProcessReturns == \A p \in Processors : pc[p] # "idle" ~> pc[p] = "idle"

(* Stop comes back once the evaluator was started. *)
StopReturns == stop = "stopping" /\ evaluator # "off" ~> stop # "stopping"

=============================================================================
