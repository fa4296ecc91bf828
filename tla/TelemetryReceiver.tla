-------------------------- MODULE TelemetryReceiver --------------------------
(***************************************************************************)
(* The OTLP receiver's consumers (internal/telemetry/receiver.go) with the *)
(* filter of signal_processor.go and the hand-over to                      *)
(* incident_signal_handler.go.  The collector calls Consume* from one      *)
(* goroutine per request, all on one ThresholdProcessor, whose map of      *)
(* recent signals no mutex guards.                                         *)
(*                                                                         *)
(* Clock readings are kept as ages, so that the state space is finite      *)
(* although the receiver runs for ever.  What CreateIncident and           *)
(* RecordEvent store is the subject of module IncidentService.             *)
(***************************************************************************)
EXTENDS SignalProcessor, Integers

CONSTANTS Consumers,          \* goroutines that serve OTLP requests
          Batches,            \* payloads they receive
          MinSignalInterval,  \* ticks
          MaxSkew,            \* bound: ticks that pass during one filterSignals,
                              \* which does no I/O
          None                \* "not in recentSignals"

ASSUME TelemetryAssumption ==
    /\ IsFiniteSet(Consumers) /\ Consumers # {}
    /\ MinSignalInterval \in Nat \ {0}
    /\ MaxSkew \in Nat /\ 2 * MaxSkew <= MinSignalInterval
    /\ None \notin Nat

(* A payload is a list, of metrics, resources or log records. *)
ASSUME BatchesAssumption ==
    \A batch \in Batches : /\ batch.kind \in {"metrics", "traces", "logs"}
                           /\ batch.data \in Seq(Range(batch.data))

VARIABLES recentSignals,   \* age of the last sent signal by fingerprint
          pc,              \* control of each consumer
          raw,             \* signals its filter has still to look at
          filtered,        \* signals that passed, not yet handled
          nowAge,          \* age of its reading of the clock in filterSignals
          doomed           \* the entry its cleanup has found expired

(* History variables, by fingerprint and age less than MinSignalInterval.  *)
VARIABLES passed,   \* how many signals have passed the filter with a reading
                    \* of that age since an entry was last lost
          earlier,  \* how many before, with readings of at most that age
          lost      \* how many entries were deleted, at most that long ago,
                    \* that had not expired

histories == <<passed, earlier, lost>>
telemetryVars == <<recentSignals, pc, raw, filtered, nowAge, doomed, histories>>

(* What each batch yields. *)
Signals == [b \in Batches |-> Extract(b)]

Fingerprints == UNION {Range(Signals[b]) : b \in Batches}

Ages == 0..(2 * MinSignalInterval + MaxSkew + 1)
Older(age) == IF age + 1 \in Ages THEN age + 1 ELSE age

Recent == 0..(MinSignalInterval - 1)

TelemetryTypeOK ==
    /\ recentSignals \in [Fingerprints -> Ages \cup {None}]
    /\ pc \in [Consumers -> {"idle", "filter", "record", "delete", "handle", "attach"}]
    /\ raw \in [Consumers -> Seq(Fingerprints)]
    /\ filtered \in [Consumers -> Seq(Fingerprints)]
    /\ nowAge \in [Consumers -> 0..MaxSkew]
    /\ doomed \in [Consumers -> Fingerprints \cup {None}]
    /\ passed \in [Fingerprints -> [Recent -> Nat]]
    /\ earlier \in [Fingerprints -> [Recent -> Nat]]
    /\ lost \in [Fingerprints -> [Recent -> Nat]]

NoSignals == [f \in Fingerprints |-> None]
Never == [f \in Fingerprints |-> [a \in Recent |-> 0]]

TelemetryInit ==
    /\ recentSignals = NoSignals
    /\ pc = [c \in Consumers |-> "idle"]
    /\ raw = [c \in Consumers |-> <<>>]
    /\ filtered = [c \in Consumers |-> <<>>]
    /\ nowAge = [c \in Consumers |-> 0]
    /\ doomed = [c \in Consumers |-> None]
    /\ passed = Never /\ earlier = Never /\ lost = Never

(* The end of the process: everything above is in its memory. *)
TelemetryEnds ==
    /\ recentSignals' = NoSignals
    /\ pc' = [c \in Consumers |-> "idle"]
    /\ raw' = [c \in Consumers |-> <<>>]
    /\ filtered' = [c \in Consumers |-> <<>>]
    /\ nowAge' = [c \in Consumers |-> 0]
    /\ doomed' = [c \in Consumers |-> None]
    /\ passed' = Never /\ earlier' = Never /\ lost' = Never

GoTo(c, p) == pc' = [pc EXCEPT ![c] = p]

Filtering(c) == pc[c] \in {"filter", "record", "delete"}

-----------------------------------------------------------------------------
(* ConsumeTraces, ConsumeMetrics, ConsumeLogs: extract, then filter.       *)

Consume(c, batch) ==
    /\ pc[c] = "idle"
    /\ raw' = [raw EXCEPT ![c] = Signals[batch]]
    /\ nowAge' = [nowAge EXCEPT ![c] = 0]
    /\ GoTo(c, "filter")
    /\ UNCHANGED <<recentSignals, filtered, doomed, histories>>

(* now.Sub(lastSent) < MinSignalInterval, with the consumer's own reading. *)
SentRecently(c, f) ==
    /\ recentSignals[f] # None
    /\ recentSignals[f] < nowAge[c] + MinSignalInterval

(* Mutant: a suppressed signal counts as sent. *)
SuppressAndRefresh(c) ==
    /\ pc[c] = "filter" /\ raw[c] # <<>> /\ SentRecently(c, Head(raw[c]))
    /\ raw' = [raw EXCEPT ![c] = Tail(@)]
    /\ recentSignals' = [recentSignals EXCEPT ![Head(raw[c])] = nowAge[c]]
    /\ UNCHANGED <<pc, filtered, nowAge, doomed, histories>>

Suppress(c) ==
    /\ pc[c] = "filter" /\ raw[c] # <<>> /\ SentRecently(c, Head(raw[c]))
    /\ raw' = [raw EXCEPT ![c] = Tail(@)]
    /\ UNCHANGED <<recentSignals, pc, filtered, nowAge, doomed, histories>>

Pass(c) ==
    /\ pc[c] = "filter" /\ raw[c] # <<>> /\ ~SentRecently(c, Head(raw[c]))
    /\ GoTo(c, "record")
    /\ UNCHANGED <<recentSignals, raw, filtered, nowAge, doomed, histories>>

(* Mutant: an entry that exists is not renewed. *)
RecordFirstSignal(c) ==
    LET f == Head(raw[c]) IN
    /\ pc[c] = "record"
    /\ recentSignals' = [recentSignals EXCEPT ![f] = IF @ = None THEN nowAge[c] ELSE @]
    /\ passed' = [passed EXCEPT ![f][nowAge[c]] = @ + 1]
    /\ filtered' = [filtered EXCEPT ![c] = Append(@, f)]
    /\ raw' = [raw EXCEPT ![c] = Tail(@)]
    /\ GoTo(c, "filter")
    /\ UNCHANGED <<nowAge, doomed, earlier, lost>>

RecordSignal(c) ==
    LET f == Head(raw[c]) IN
    /\ pc[c] = "record"
    /\ recentSignals' = [recentSignals EXCEPT ![f] = nowAge[c]]
    /\ passed' = [passed EXCEPT ![f][nowAge[c]] = @ + 1]
    /\ filtered' = [filtered EXCEPT ![c] = Append(@, f)]
    /\ raw' = [raw EXCEPT ![c] = Tail(@)]
    /\ GoTo(c, "filter")
    /\ UNCHANGED <<nowAge, doomed, earlier, lost>>

(* cleanupOldSignals: the loop over the map, and the deletion, in separate *)
(* accesses.                                                               *)

(* lastSent.Before(now - 2 * MinSignalInterval) *)
Expired(c, f) ==
    /\ recentSignals[f] # None
    /\ recentSignals[f] > nowAge[c] + 2 * MinSignalInterval

FindExpired(c) ==
    /\ pc[c] = "filter" /\ raw[c] = <<>>
    /\ \E f \in Fingerprints : Expired(c, f) /\ doomed' = [doomed EXCEPT ![c] = f]
    /\ GoTo(c, "delete")
    /\ UNCHANGED <<recentSignals, raw, filtered, nowAge, histories>>

(* The signals of a fingerprint that have passed since an entry was last   *)
(* lost, with a reading no older than age, told apart by age and number.   *)
PassedWithin(f, age) == UNION {{a} \X (1..passed[f][a]) : a \in 0..age}

LoseEntry(f) ==
    /\ earlier' = [earlier EXCEPT ![f] =
           [a \in Recent |-> earlier[f][a] + Cardinality(PassedWithin(f, a))]]
    /\ lost' = [lost EXCEPT ![f] = [a \in Recent |-> lost[f][a] + 1]]
    /\ passed' = [passed EXCEPT ![f] = [a \in Recent |-> 0]]

(* The entry may be a new one, of a consumer that passed meanwhile. *)
Live(f) == recentSignals[f] # None /\ recentSignals[f] <= 2 * MinSignalInterval

DeleteSignal(c) ==
    LET f == doomed[c] IN
    /\ pc[c] = "delete"
    /\ recentSignals' = [recentSignals EXCEPT ![f] = None]
    /\ doomed' = [doomed EXCEPT ![c] = None]
    /\ GoTo(c, "filter")
    /\ IF Live(f) THEN LoseEntry(f) ELSE UNCHANGED histories
    /\ UNCHANGED <<raw, filtered, nowAge>>

CleanupDone(c) ==
    /\ pc[c] = "filter" /\ raw[c] = <<>>
    /\ \A f \in Fingerprints : ~Expired(c, f)
    /\ nowAge' = [nowAge EXCEPT ![c] = 0]
    /\ GoTo(c, "handle")
    /\ UNCHANGED <<recentSignals, raw, filtered, doomed, histories>>

-----------------------------------------------------------------------------
(* The loop over the filtered signals, and HandleSignal: CreateIncident,   *)
(* then RecordEvent("signal_attached").  What they store is the subject of *)
(* module IncidentService; here it matters that no failure ends the loop.  *)

NextSignal(c) ==
    /\ filtered' = [filtered EXCEPT ![c] = Tail(@)]
    /\ GoTo(c, "handle")
    /\ UNCHANGED <<recentSignals, raw, nowAge, doomed, histories>>

CreateIncident(c) ==
    /\ pc[c] = "handle" /\ filtered[c] # <<>>
    /\ GoTo(c, "attach")
    /\ UNCHANGED <<recentSignals, raw, filtered, nowAge, doomed, histories>>

(* CreateIncident failed; HandleSignal's error is logged. *)
CreateFails(c) == pc[c] = "handle" /\ filtered[c] # <<>> /\ NextSignal(c)

(* RecordEvent, whose failure is logged too. *)
AttachSignal(c) == pc[c] = "attach" /\ NextSignal(c)

BatchDone(c) ==
    /\ pc[c] = "handle" /\ filtered[c] = <<>>
    /\ GoTo(c, "idle")
    /\ UNCHANGED <<recentSignals, raw, filtered, nowAge, doomed, histories>>

ConsumerStep(c) ==
    \/ Suppress(c) \/ Pass(c) \/ RecordSignal(c)
    \/ FindExpired(c) \/ DeleteSignal(c) \/ CleanupDone(c)
    \/ CreateIncident(c) \/ CreateFails(c) \/ AttachSignal(c) \/ BatchDone(c)

(* Two goroutines are at accesses of the map that may happen together, and *)
(* one of them writes: the runtime may stop the process with "concurrent   *)
(* map writes" (or reads, or iteration).                                   *)
MapRace ==
    \E c, d \in Consumers :
        /\ c # d /\ Filtering(c) /\ Filtering(d)
        /\ pc[c] \in {"record", "delete"}

OneTickOlder(history) ==
    [f \in Fingerprints |->
       [a \in Recent |-> IF a = 0 THEN 0 ELSE history[f][a - 1]]]

Tick ==
    /\ \A c \in Consumers : Filtering(c) => nowAge[c] < MaxSkew
    /\ nowAge' = [c \in Consumers |-> IF Filtering(c) THEN nowAge[c] + 1 ELSE 0]
    /\ recentSignals' = [f \in Fingerprints |->
           IF recentSignals[f] = None THEN None ELSE Older(recentSignals[f])]
    /\ passed' = OneTickOlder(passed)
    /\ earlier' = OneTickOlder(earlier)
    /\ lost' = OneTickOlder(lost)
    /\ UNCHANGED <<pc, raw, filtered, doomed>>

-----------------------------------------------------------------------------
(* Properties                                                              *)

(* The filter limits the incidents of one kind: until an entry is lost, no *)
(* more signals of a fingerprint pass within MinSignalInterval than        *)
(* goroutines can have read the map before one of them wrote, counted at   *)
(* both ends of the interval because a late write can put an old time over *)
(* a new one.  A cleanup that deletes, on an old reading, what another     *)
(* goroutine has just recorded lets as many pass again; it happens at most *)
(* once for each of the other goroutines.                                  *)
BurstBounded ==
    \A f \in Fingerprints :
        LET last == MinSignalInterval - 1
            passes == Cardinality(PassedWithin(f, last)) + earlier[f][last] IN
        /\ passes <= (2 * Cardinality(Consumers) - 1) * (1 + lost[f][last])
        /\ lost[f][last] < Cardinality(Consumers)

Arrives(f) == \E c \in Consumers :
                 pc[c] = "filter" /\ raw[c] # <<>> /\ Head(raw[c]) = f
Handled(f) == \E c \in Consumers :
                 pc[c] = "handle" /\ filtered[c] # <<>> /\ Head(filtered[c]) = f

=============================================================================
