-------------------------------- MODULE Server --------------------------------
(***************************************************************************)
(* The guvnor process, internal/server/server.go: the main goroutine of    *)
(* StartWithGracefulShutdown, the HTTP listener, HTTP requests, and the    *)
(* OTLP receiver (module TelemetryReceiver, receiver.go Start and Stop).   *)
(* A process that exits takes all its goroutines with it.                  *)
(***************************************************************************)
EXTENDS TelemetryReceiver

CONSTANT MaxRequests    \* bound: HTTP requests in progress at once

ASSUME ServerAssumption == MaxRequests \in Nat

VARIABLES main,        \* control of the main goroutine
          receiver,    \* the OTLP receiver and its isRunning
          listener,    \* the goroutine in ListenAndServe
          requests,    \* HTTP requests in progress
          deadline,    \* the context of Shutdown
          exit         \* how the process ended

serverVars == <<main, receiver, listener, requests, deadline, exit>>
vars == <<recentSignals, pc, raw, filtered, nowAge, doomed, passed, earlier, lost,
          main, receiver, listener, requests, deadline, exit>>

TypeOK ==
    /\ TelemetryTypeOK
    /\ main \in {"start", "spawn", "waiting", "stop_receiver", "shutdown", "exited"}
    /\ receiver \in {"stopped", "running", "draining"}
    /\ listener \in {"none", "starting", "serving", "failed", "closed"}
    /\ requests \in 0..MaxRequests
    /\ deadline \in {"none", "running", "expired"}
    /\ exit \in {"none", "start_error", "graceful", "forced", "crashed"}

Init ==
    /\ TelemetryInit
    /\ main = "start" /\ receiver = "stopped" /\ listener = "none"
    /\ requests = 0 /\ deadline = "none" /\ exit = "none"

Alive == main # "exited"

ExitWith(how) ==
    /\ main' = "exited" /\ exit' = how
    /\ receiver' = "stopped" /\ listener' = "none" /\ requests' = 0
    /\ TelemetryEnds

-----------------------------------------------------------------------------
(* Start: first the receiver, then a goroutine for the listener.           *)

StartReceiver ==
    /\ main = "start"
    /\ main' = "spawn"
    /\ receiver' = "running"
    /\ UNCHANGED <<listener, requests, deadline, exit, telemetryVars>>

(* A sub-receiver cannot start, for one because its port is in use. *)
StartFails ==
    /\ main = "start"
    /\ ExitWith("start_error")
    /\ UNCHANGED deadline

SpawnListener ==
    /\ main = "spawn"
    /\ main' = "waiting"
    /\ listener' = "starting"
    /\ UNCHANGED <<receiver, requests, deadline, exit, telemetryVars>>

(* A listener that finds the server shut down returns ErrServerClosed. *)
Listen ==
    /\ listener = "starting" /\ Alive
    /\ listener' \in (IF main = "shutdown" THEN {"closed"} ELSE {"serving", "failed"})
    /\ UNCHANGED <<main, receiver, requests, deadline, exit, telemetryVars>>

-----------------------------------------------------------------------------
(* Shutdown, after SIGINT or SIGTERM: the receiver first, then the HTTP    *)
(* server, both under the one deadline of the context.                     *)

(* Mutant: the context of the shutdown has no deadline. *)
SignalWithoutDeadline ==
    /\ main = "waiting"
    /\ main' = "stop_receiver"
    /\ receiver' = IF receiver = "running" THEN "draining" ELSE receiver
    /\ UNCHANGED <<listener, requests, deadline, exit, telemetryVars>>

Signal ==
    /\ main = "waiting"
    /\ main' = "stop_receiver"
    /\ deadline' = "running"
    /\ receiver' = IF receiver = "running" THEN "draining" ELSE receiver
    /\ UNCHANGED <<listener, requests, exit, telemetryVars>>

DeadlineExpires ==
    /\ deadline = "running" /\ Alive
    /\ deadline' = "expired"
    /\ UNCHANGED <<main, receiver, listener, requests, exit, telemetryVars>>

Drained == \A c \in Consumers : pc[c] = "idle"

(* httpServer.Shutdown begins by closing the listener. *)
BeginHTTPShutdown ==
    /\ main' = "shutdown"
    /\ listener' = IF listener = "serving" THEN "closed" ELSE listener

(* Stop returns when no consumer is left, or with an error, which is only  *)
(* logged and leaves isRunning true.                                       *)
ReceiverStopped ==
    /\ main = "stop_receiver" /\ Drained
    /\ receiver' = "stopped"
    /\ BeginHTTPShutdown
    /\ UNCHANGED <<requests, deadline, exit, telemetryVars>>

ReceiverStopFails ==
    /\ main = "stop_receiver" /\ ~Drained /\ deadline = "expired"
    /\ BeginHTTPShutdown
    /\ UNCHANGED <<receiver, requests, deadline, exit, telemetryVars>>

ShutdownDone ==
    /\ main = "shutdown" /\ requests = 0
    /\ ExitWith("graceful")
    /\ UNCHANGED deadline

ForcedClose ==
    /\ main = "shutdown" /\ requests > 0 /\ deadline = "expired"
    /\ ExitWith("forced")
    /\ UNCHANGED deadline

-----------------------------------------------------------------------------

BeginRequest ==
    /\ listener = "serving" /\ Alive /\ requests < MaxRequests
    /\ requests' = requests + 1
    /\ UNCHANGED <<main, receiver, listener, deadline, exit, telemetryVars>>

EndRequest ==
    /\ requests > 0 /\ Alive
    /\ requests' = requests - 1
    /\ UNCHANGED <<main, receiver, listener, deadline, exit, telemetryVars>>

Crash ==
    /\ Alive /\ MapRace
    /\ ExitWith("crashed")
    /\ UNCHANGED deadline

ReceiveBatch(c, batch) ==
    /\ receiver = "running" /\ Alive
    /\ Consume(c, batch)
    /\ UNCHANGED serverVars

Work(c) == Alive /\ ConsumerStep(c) /\ UNCHANGED serverVars

TimePasses == Alive /\ Tick /\ UNCHANGED serverVars

Main == StartReceiver \/ StartFails \/ SpawnListener
        \/ ReceiverStopped \/ ReceiverStopFails \/ ShutdownDone \/ ForcedClose

Next ==
    \/ Main \/ Listen \/ Signal \/ DeadlineExpires
    \/ BeginRequest \/ EndRequest \/ Crash \/ TimePasses
    \/ \E c \in Consumers :
          \/ Work(c)
          \/ \E batch \in Batches : ReceiveBatch(c, batch)

(* Every goroutine that can run does so, and time passes.  Nothing is      *)
(* assumed of the outside: signals, HTTP clients, OTLP clients.            *)
Fairness ==
    /\ WF_vars(Main) /\ WF_vars(Listen) /\ WF_vars(DeadlineExpires)
    /\ WF_vars(TimePasses)
    /\ \A c \in Consumers : WF_vars(Work(c))

Spec == Init /\ [][Next]_vars /\ Fairness

-----------------------------------------------------------------------------
(* Properties                                                              *)

(* Extraction from the spans of a batch is exact.  (A fact about           *)
(* ProcessTraces: one state decides it.)                                   *)
TracesExact == main = "start" => \A batch \in SpanBatches : ExtractedExactly(batch)

(* Shutdown ends, whatever HTTP clients and consumers are doing.           *)
ShutdownReturns == main = "stop_receiver" ~> ~Alive

(* Suppression ends: a condition reported again and again is handed to the *)
(* incident handler again and again, even if it fails there every time.    *)
SuppressionEnds ==
    \A f \in Fingerprints : []<>(Alive /\ Arrives(f)) => []<>Handled(f)

=============================================================================
