------------------------- MODULE NotificationService -------------------------
(***************************************************************************)
(* The notification service, internal/notification/service.go: callers     *)
(* enqueue requests into a bounded channel, a pool of workers takes them   *)
(* out and sends them; Start and Stop run against both.                    *)
(*                                                                         *)
(* Start and Stop hold the mutex from end to end, so while a Stop waits    *)
(* for the workers (stopping) nobody else gets past it.  At most one set   *)
(* of workers is alive: after a Stop that timed out started stays true and *)
(* Start refuses.  What one delivery does is module WebhookClient; here it *)
(* ends (property SendReturns there) and its outcome is only logged.       *)
(***************************************************************************)
EXTENDS Naturals, Sequences, FiniteSets

CONSTANTS Workers,      \* the worker goroutines of one Start
          Requests,     \* notification requests
          BufferSize,   \* capacity of workerPool
          MaxStarts,    \* bound on successful calls of Start
          Nothing       \* what an idle worker holds

ASSUME NotificationAssumption ==
    /\ BufferSize \in Nat \ {0}
    /\ MaxStarts \in Nat
    /\ Nothing \notin Requests

VARIABLES started,       \* the started field
          stopClosed,    \* stopChan is closed
          stopping,      \* a Stop holds the mutex and waits
          crashed,       \* the process died of a panic
          ctxDone,       \* the context given to the last Start is done
          queue,         \* workerPool
          worker,        \* control of each worker goroutine
          holding,       \* the request a busy worker works on
          life,          \* what became of each request
          starts,        \* successful Starts so far
          stopCalled     \* history: a Stop closed the channel since the last Start

vars == <<started, stopClosed, stopping, crashed, ctxDone, queue, worker,
          holding, life, starts, stopCalled>>

Life == {"new", "checked", "queued", "processing", "delivered", "failed", "refused"}

TypeOK ==
    /\ started \in BOOLEAN /\ stopClosed \in BOOLEAN /\ stopping \in BOOLEAN
    /\ crashed \in BOOLEAN /\ ctxDone \in BOOLEAN /\ stopCalled \in BOOLEAN
    /\ queue \in Seq(Requests) /\ Len(queue) <= BufferSize
    /\ worker \in [Workers -> {"absent", "waiting", "busy"}]
    /\ holding \in [Workers -> Requests \cup {Nothing}]
    /\ \A w \in Workers : worker[w] = "busy" <=> holding[w] # Nothing
    /\ life \in [Requests -> Life]
    /\ starts \in 0..MaxStarts

Init ==
    /\ started = FALSE /\ stopClosed = FALSE /\ stopping = FALSE
    /\ crashed = FALSE /\ ctxDone = FALSE /\ stopCalled = FALSE
    /\ queue = <<>>
    /\ worker = [w \in Workers |-> "absent"]
    /\ holding = [w \in Workers |-> Nothing]
    /\ life = [r \in Requests |-> "new"]
    /\ starts = 0

-----------------------------------------------------------------------------
(* Start and Stop                                                          *)

Start ==
    /\ ~stopping /\ ~started
    /\ starts < MaxStarts
    /\ worker' = [w \in Workers |-> "waiting"]
    /\ started' = TRUE
    /\ ctxDone' = FALSE
    /\ stopCalled' = FALSE
    /\ starts' = starts + 1
    /\ UNCHANGED <<stopClosed, stopping, crashed, queue, holding, life>>

(* close(stopChan): the second time it panics. *)
StopBegin ==
    /\ ~stopping /\ started
    /\ \/ /\ ~stopClosed
          /\ stopClosed' = TRUE
          /\ stopping' = TRUE
          /\ stopCalled' = TRUE
          /\ UNCHANGED crashed
       \/ /\ stopClosed
          /\ crashed' = TRUE
          /\ UNCHANGED <<stopClosed, stopping, stopCalled>>
    /\ UNCHANGED <<started, ctxDone, queue, worker, holding, life, starts>>

(* Mutant: Stop does not wait for the workers. *)
StopWithoutWait ==
    /\ stopping
    /\ stopping' = FALSE
    /\ started' = FALSE
    /\ UNCHANGED <<stopClosed, crashed, ctxDone, queue, worker, holding, life,
                   starts, stopCalled>>

StopDone ==
    /\ stopping
    /\ \A w \in Workers : worker[w] = "absent"
    /\ stopping' = FALSE
    /\ started' = FALSE
    /\ UNCHANGED <<stopClosed, crashed, ctxDone, queue, worker, holding, life,
                   starts, stopCalled>>

(* The caller's context ends first: an error, and started stays true. *)
StopTimeout ==
    /\ stopping
    /\ stopping' = FALSE
    /\ UNCHANGED <<started, stopClosed, crashed, ctxDone, queue, worker, holding,
                   life, starts, stopCalled>>

(* The context of Start, which the workers and their requests share. *)
CancelRun ==
    /\ started /\ ~ctxDone
    /\ ctxDone' = TRUE
    /\ UNCHANGED <<started, stopClosed, stopping, crashed, queue, worker, holding,
                   life, starts, stopCalled>>

-----------------------------------------------------------------------------
(* enqueueNotification: started is read under the lock and used after it.  *)
(* A caller may try a refused request again.                               *)

Notify(r) ==
    /\ life[r] \in {"new", "refused"}
    /\ ~stopping
    /\ life' = [life EXCEPT ![r] = IF started THEN "checked" ELSE "refused"]
    /\ UNCHANGED <<started, stopClosed, stopping, crashed, ctxDone, queue, worker,
                   holding, starts, stopCalled>>

Enqueue(r) ==
    /\ life[r] = "checked"
    /\ Len(queue) < BufferSize
    /\ queue' = Append(queue, r)
    /\ life' = [life EXCEPT ![r] = "queued"]
    /\ UNCHANGED <<started, stopClosed, stopping, crashed, ctxDone, worker, holding,
                   starts, stopCalled>>

(* The buffer is full and the default case drops the request, or the       *)
(* caller's context is done.                                               *)
Refuse(r) ==
    /\ life[r] = "checked"
    /\ life' = [life EXCEPT ![r] = "refused"]
    /\ UNCHANGED <<started, stopClosed, stopping, crashed, ctxDone, queue, worker,
                   holding, starts, stopCalled>>

-----------------------------------------------------------------------------
(* worker: select takes any case that is ready.                            *)

(* Mutant: the request stays in the channel until it is processed. *)
TakeKeeping(w) ==
    /\ worker[w] = "waiting" /\ queue # <<>>
    /\ holding' = [holding EXCEPT ![w] = Head(queue)]
    /\ life' = [life EXCEPT ![Head(queue)] = "processing"]
    /\ worker' = [worker EXCEPT ![w] = "busy"]
    /\ UNCHANGED <<started, stopClosed, stopping, crashed, ctxDone, queue, starts,
                   stopCalled>>

Take(w) ==
    /\ worker[w] = "waiting" /\ queue # <<>>
    /\ holding' = [holding EXCEPT ![w] = Head(queue)]
    /\ queue' = Tail(queue)
    /\ life' = [life EXCEPT ![Head(queue)] = "processing"]
    /\ worker' = [worker EXCEPT ![w] = "busy"]
    /\ UNCHANGED <<started, stopClosed, stopping, crashed, ctxDone, starts,
                   stopCalled>>

Outcomes == {"delivered", "failed"}

(* Mutant: a failed delivery ends the worker. *)
FinishOrDie(w) ==
    /\ worker[w] = "busy"
    /\ \E outcome \in Outcomes :
          /\ life' = [life EXCEPT ![holding[w]] = outcome]
          /\ worker' = [worker EXCEPT ![w] =
                            IF outcome = "failed" THEN "absent" ELSE "waiting"]
    /\ holding' = [holding EXCEPT ![w] = Nothing]
    /\ UNCHANGED <<started, stopClosed, stopping, crashed, ctxDone, queue, starts,
                   stopCalled>>

(* processNotification: the error is logged and the loop goes on. *)
Finish(w) ==
    /\ worker[w] = "busy"
    /\ \E outcome \in Outcomes : life' = [life EXCEPT ![holding[w]] = outcome]
    /\ worker' = [worker EXCEPT ![w] = "waiting"]
    /\ holding' = [holding EXCEPT ![w] = Nothing]
    /\ UNCHANGED <<started, stopClosed, stopping, crashed, ctxDone, queue, starts,
                   stopCalled>>

(* Mutant: the workers watch their context only. *)
ExitsOnCancel(w) == ctxDone

Exits(w) == stopClosed \/ ctxDone

WorkerExit(w) ==
    /\ worker[w] = "waiting" /\ Exits(w)
    /\ worker' = [worker EXCEPT ![w] = "absent"]
    /\ UNCHANGED <<started, stopClosed, stopping, crashed, ctxDone, queue, holding,
                   life, starts, stopCalled>>

-----------------------------------------------------------------------------

WorkerStep(w) == Take(w) \/ Finish(w) \/ WorkerExit(w)

Control == Start \/ StopBegin \/ StopDone \/ StopTimeout \/ CancelRun

Caller(r) == Notify(r) \/ Enqueue(r) \/ Refuse(r)

Next ==
    /\ ~crashed
    /\ \/ Control
       \/ \E r \in Requests : Caller(r)
       \/ \E w \in Workers : WorkerStep(w)

(* Goroutines that can run do: a worker's delivery returns, a worker that  *)
(* something is ready for wakes up, and Stop notices that they are gone.   *)
Fairness ==
    /\ \A w \in Workers : WF_vars(~crashed /\ WorkerStep(w))
    /\ WF_vars(~crashed /\ StopDone)

Spec == Init /\ [][Next]_vars /\ Fairness

-----------------------------------------------------------------------------
(* Properties                                                              *)

(* Once Stop has returned without an error no worker of the service is     *)
(* left, not even one that was in the middle of a delivery.                *)
StoppedIsQuiet == ~started => \A w \in Workers : worker[w] = "absent"

(* An accepted request is in exactly one place: once in the channel, or in *)
(* the hands of one worker.  No request is sent twice or dropped silently  *)
(* between the two, whatever Start and Stop do meanwhile.                  *)
OnePlace ==
    /\ \A i, j \in 1..Len(queue) : queue[i] = queue[j] => i = j
    /\ \A v, w \in Workers :
          worker[v] = "busy" /\ worker[w] = "busy" /\ holding[v] = holding[w] => v = w
    /\ \A r \in Requests :
          /\ life[r] = "queued" <=> \E i \in 1..Len(queue) : queue[i] = r
          /\ life[r] = "processing" <=>
                \E w \in Workers : worker[w] = "busy" /\ holding[w] = r

(* While nobody has stopped the service or cancelled its context, the      *)
(* workers that Start launched are there.                                  *)
RunningHasWorkers ==
    started /\ ~stopCalled /\ ~ctxDone => \A w \in Workers : worker[w] # "absent"

(* A Stop that begins to wait comes back even if nothing times it out:     *)
(* callers cannot feed the workers for ever, because they wait for the     *)
(* mutex that Stop holds.                                                  *)
StopReturns == stopping ~> ~stopping

Handled(r) == life[r] \in Outcomes

(* A request that was accepted is handled, unless the service is stopped   *)
(* or its context is cancelled.                                            *)
AcceptedHandled ==
    \A r \in Requests :
        life[r] = "queued" ~> Handled(r) \/ stopClosed \/ ctxDone

=============================================================================
