------------------------------- MODULE MCServer -------------------------------
(* Small instances of Server for TLC. *)
EXTENDS Server

(* A payload that reports the memory of one service twice, as 90.5 and as  *)
(* 0.95 of the whole, around a metric below its threshold (1.5 is taken    *)
(* for 1.5 %), and one without a signal.                                   *)
MCBatches ==
    {[kind |-> "metrics", data |-> <<Metric("web", {"memory"}, "gauge", <<4, 9050>>),
                                     Metric("web", {"cpu"}, "gauge", <<150>>),
                                     Metric("web", {"memory"}, "gauge", <<95>>)>>],
     [kind |-> "logs", data |-> <<Record("web", FALSE, FALSE)>>]}

(* A failed span as slow as is still good, a slow one, and neither. *)
MCSpans == [failed : BOOLEAN, duration : {SlowSpanThreshold, SlowSpanThreshold + 1}]
           \ {[failed |-> TRUE, duration |-> SlowSpanThreshold + 1]}

(* Resources that repeat a service or not, in every order. *)
MCSpanBatches ==
    BoundedSeq([service : {"web", "db"}, spans : BoundedSeq(MCSpans, 2)], 3)

=============================================================================
