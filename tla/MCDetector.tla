----------------------------- MODULE MCDetector -----------------------------
(* Small instances of Detector for TLC. *)
EXTENDS Detector

(* A rule that matches, and one that is looked at and never matches. *)
MCRuleTypes == <<"metric_threshold", "trace_anomaly">>

MCRuleTypesWithRate == <<"metric_threshold", "error_rate">>

MCItems == {[isGroup |-> FALSE, applies |-> {1, 2}, meets |-> {1}],
            [isGroup |-> TRUE, applies |-> {1}, meets |-> {1}]}

=============================================================================
