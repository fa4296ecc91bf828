--------------------------- MODULE SignalProcessor ---------------------------
(***************************************************************************)
(* ThresholdProcessor (internal/telemetry/signal_processor.go): which      *)
(* signals a batch of metrics, spans or log records yields.  These         *)
(* functions keep no state; the filter that follows them does, and is in   *)
(* module TelemetryReceiver.                                               *)
(*                                                                         *)
(* Of a signal the model keeps what createSignalFingerprint reads.  Ratios *)
(* are counted in hundredths, so that thresholds are compared exactly.     *)
(***************************************************************************)
EXTENDS Integers, Sequences, FiniteSets, SequencesExt

CONSTANTS ErrorRateThreshold, CPUThreshold, MemoryThreshold,  \* hundredths
          LatencyThreshold, SlowSpanThreshold,      \* milliseconds
          ErrorSpanThreshold,    \* spans of one service in one batch
          SpanBatches            \* batches of spans asked about, see ResourceSpans

ASSUME ThresholdAssumption ==
    {ErrorRateThreshold, CPUThreshold, MemoryThreshold, LatencyThreshold,
     SlowSpanThreshold, ErrorSpanThreshold} \subseteq Nat

Fingerprint(source, service, type) == <<source, service, type>>

If(condition, signal) == IF condition THEN <<signal>> ELSE <<>>

-----------------------------------------------------------------------------
(* Metrics.  words are the keywords the metric's name contains; a gauge    *)
(* carries ratios, a histogram the averages of its data points.            *)

Metric(service, words, type, points) ==
    [service |-> service, words |-> words, type |-> type, points |-> points]

SomePoint(m, Above(_)) == \E k \in DOMAIN m.points : Above(m.points[k])

(* Utilisations and their thresholds are in hundredths of a whole.  A      *)
(* value above 1.0 is taken for a percentage and divided by 100.           *)
Exceeds(value, threshold) ==
    IF value > 100 THEN value > 100 * threshold ELSE value > threshold

checkErrorRateMetric(m) ==
    If(/\ "error" \in m.words /\ m.type = "gauge"
       /\ SomePoint(m, LAMBDA v : v > ErrorRateThreshold),
       Fingerprint("otlp_metrics", m.service, "error_rate"))

checkLatencyMetric(m) ==
    If(/\ "latency" \in m.words /\ m.type = "histogram"
       /\ SomePoint(m, LAMBDA v : v > LatencyThreshold),
       Fingerprint("otlp_metrics", m.service, "latency"))

(* A name with both words is a CPU metric only. *)
checkResourceMetric(m) ==
    If(/\ "cpu" \in m.words /\ m.type = "gauge"
       /\ SomePoint(m, LAMBDA v : Exceeds(v, CPUThreshold)),
       Fingerprint("otlp_metrics", m.service, "cpu"))
    \o
    If(/\ "memory" \in m.words /\ "cpu" \notin m.words /\ m.type = "gauge"
       /\ SomePoint(m, LAMBDA v : Exceeds(v, MemoryThreshold)),
       Fingerprint("otlp_metrics", m.service, "memory"))

ProcessMetrics(metrics) ==
    FlattenSeq([k \in DOMAIN metrics |->
        checkErrorRateMetric(metrics[k]) \o checkLatencyMetric(metrics[k])
        \o checkResourceMetric(metrics[k])])

-----------------------------------------------------------------------------
(* Traces.  A batch lists resources, each with a service and its spans;    *)
(* one service may own several resources.                                  *)

ResourceSpans ==
    [service : STRING, spans : Seq([failed : BOOLEAN, duration : Int])]

ASSUME SpansAssumption == \A batch \in SpanBatches : batch \in Seq(ResourceSpans)

(* What each of the two maps, serviceErrors and serviceSlowSpans, counts.  *)
Counts(span, map) ==
    IF map = "errors" THEN span.failed ELSE span.duration > SlowSpanThreshold

(* The spans of some resources that a map counts. *)
Counted(resources, ks, map) ==
    UNION {{k} \X {i \in DOMAIN resources[k].spans : Counts(resources[k].spans[i], map)}
             : k \in ks}

(* Mutant: the counters start again at every resource. *)
CountOfResource(resources, k, map) == Cardinality(Counted(resources, {k}, map))

(* serviceErrors or serviceSlowSpans of its service when resource k has    *)
(* been counted: the maps live as long as the batch.                       *)
CountUpTo(resources, k, map) ==
    Cardinality(Counted(resources,
                        {j \in 1..k : resources[j].service = resources[k].service}, map))

(* Both counters are compared with the threshold for error spans. *)
ProcessTraces(resources) ==
    FlattenSeq([k \in DOMAIN resources |->
        If(CountUpTo(resources, k, "errors") >= ErrorSpanThreshold,
           Fingerprint("otlp_traces", resources[k].service, "trace_errors"))
        \o
        If(CountUpTo(resources, k, "slow") >= ErrorSpanThreshold,
           Fingerprint("otlp_traces", resources[k].service, "slow_spans"))])

-----------------------------------------------------------------------------
(* Logs.  A record matches the critical patterns, the error patterns, both *)
(* or none; either way its signal has the one type "log_pattern".          *)

Record(service, critical, error) ==
    [service |-> service, critical |-> critical, error |-> error]

ProcessLogs(records) ==
    FlattenSeq([k \in DOMAIN records |->
        If(records[k].critical \/ records[k].error,
           Fingerprint("otlp_logs", records[k].service, "log_pattern"))])

-----------------------------------------------------------------------------

Extract(batch) ==
    CASE batch.kind = "metrics" -> ProcessMetrics(batch.data)
      [] batch.kind = "traces"  -> ProcessTraces(batch.data)
      [] batch.kind = "logs"    -> ProcessLogs(batch.data)

-----------------------------------------------------------------------------
(* Reference: the services whose spans of the whole batch, over all their  *)
(* resources in any order, reach the threshold.                            *)
Overloaded(resources, map) ==
    {s \in {resources[k].service : k \in DOMAIN resources} :
        Cardinality(Counted(resources,
                            {k \in DOMAIN resources : resources[k].service = s}, map))
            >= ErrorSpanThreshold}

(* What is extracted from a batch of spans names exactly the services      *)
(* whose spans reach a threshold, in whatever way the batch spreads them   *)
(* over resources.                                                         *)
ExtractedExactly(resources) ==
    Range(ProcessTraces(resources)) =
        {Fingerprint("otlp_traces", s, "trace_errors") : s \in Overloaded(resources, "errors")}
        \cup
        {Fingerprint("otlp_traces", s, "slow_spans") : s \in Overloaded(resources, "slow")}

=============================================================================
