--------------------------- MODULE CircuitBreaker ---------------------------
(***************************************************************************)
(* The circuit breaker of internal/notification/webhook/client.go.  Every  *)
(* method runs under the breaker's own mutex, so each is a function from   *)
(* the record before to the record after.                                  *)
(*                                                                         *)
(* Time is kept as what is left of it: blockedFor is nextRetryTime - now,  *)
(* 0 once that moment has passed.  The counters saturate at the thresholds *)
(* they are compared with (thresholds are the only use of them).           *)
(***************************************************************************)
EXTENDS Naturals

CONSTANTS MaxFailures,        \* maxFailures, 5 in the code
          ResetTimeout,       \* resetTimeout, 60s in the code, in clock ticks
          HalfOpenMaxCalls    \* halfOpenMaxCalls, 3 in the code

ASSUME BreakerAssumption ==
    /\ MaxFailures \in Nat \ {0}
    /\ ResetTimeout \in Nat \ {0}
    /\ HalfOpenMaxCalls \in Nat \ {0}

Breaker == [state : {"closed", "open", "half_open"},
            failures : 0..MaxFailures, successes : 0..HalfOpenMaxCalls,
            blockedFor : 0..ResetTimeout]

NewCircuitBreaker ==
    [state |-> "closed", failures |-> 0, successes |-> 0, blockedFor |-> 0]

(* Mutant: the breaker is consulted only for its half-open budget. *)
CanExecuteAlways(b) ==
    b.state = "half_open" => b.successes < HalfOpenMaxCalls

CanExecute(b) ==
    \/ b.state = "closed"
    \/ b.state = "open" /\ b.blockedFor = 0
    \/ b.state = "half_open" /\ b.successes < HalfOpenMaxCalls

Saturate(n, limit) == IF n > limit THEN limit ELSE n

Closes(b) == b.state = "half_open" /\ b.successes + 1 >= HalfOpenMaxCalls

RecordSuccess(b) ==
    [b EXCEPT !.failures  = 0,
              !.successes = IF Closes(b) THEN 0 ELSE Saturate(@ + 1, HalfOpenMaxCalls),
              !.state     = IF Closes(b) THEN "closed" ELSE @]

Trips(b) == \/ b.state = "closed" /\ b.failures + 1 >= MaxFailures
            \/ b.state = "half_open"

(* A failure in the open state counts but moves nothing: nextRetryTime is  *)
(* set once, when the breaker opens.                                       *)
RecordFailure(b) ==
    [b EXCEPT !.failures   = Saturate(@ + 1, MaxFailures),
              !.successes  = IF b.state = "half_open" THEN 0 ELSE @,
              !.state      = IF Trips(b) THEN "open" ELSE @,
              !.blockedFor = IF Trips(b) THEN ResetTimeout ELSE @]

(* One tick of the clock. *)
Elapse(b) == [b EXCEPT !.blockedFor = IF @ > 0 THEN @ - 1 ELSE 0]

Blocking(b) == b.state = "open" /\ b.blockedFor > 0

=============================================================================
