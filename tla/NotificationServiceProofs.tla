---------------------- MODULE NotificationServiceProofs ----------------------
(***************************************************************************)
(* Proofs about NotificationService, for any workers, requests and         *)
(* capacity.                                                               *)
(***************************************************************************)
EXTENDS NotificationService, TLAPS

(* The inductive invariant. *)
Inv == TypeOK /\ OnePlace /\ StoppedIsQuiet

USE NotificationAssumption

LEMMA InvInit == Init => Inv
<1> SUFFICES ASSUME Init PROVE Inv
  OBVIOUS
<1>1. TypeOK
  <2>1. queue \in Seq(Requests) /\ Len(queue) = 0
    BY DEF Init
  <2>2. /\ worker \in [Workers -> {"absent", "waiting", "busy"}]
        /\ holding \in [Workers -> Requests \cup {Nothing}]
        /\ \A w \in Workers : worker[w] = "busy" <=> holding[w] # Nothing
        /\ life \in [Requests -> Life]
    BY DEF Init, Life
  <2>3. starts \in 0..MaxStarts /\ Len(queue) <= BufferSize
    BY <2>1 DEF Init
  <2> QED
    BY <2>1, <2>2, <2>3, Zenon DEF Init, TypeOK
<1>2. OnePlace
  <2>1. 1..Len(queue) = {}
    BY DEF Init
  <2> QED
    BY <2>1 DEF Init, OnePlace
<1>3. StoppedIsQuiet
  BY DEF Init, StoppedIsQuiet
<1> QED
  BY <1>1, <1>2, <1>3 DEF Inv

(* Start, Stop and the contexts move nothing; the workers that Start       *)
(* launches are idle.                                                      *)
LEMMA ControlKeepsInv == Inv /\ Control => Inv'
<1> SUFFICES ASSUME Inv, Control PROVE Inv'
  OBVIOUS
<1>1. CASE Start
  <2>1. \A w \in Workers : worker[w] = "absent" /\ worker'[w] = "waiting"
    BY <1>1 DEF Start, Inv, StoppedIsQuiet
  <2>2. TypeOK'
    <3>1. /\ worker' \in [Workers -> {"absent", "waiting", "busy"}]
          /\ \A w \in Workers : worker'[w] = "busy" <=> holding'[w] # Nothing
      BY <1>1, <2>1 DEF Start, Inv, TypeOK
    <3>2. starts' \in 0..MaxStarts
      BY <1>1 DEF Start, Inv, TypeOK
    <3> QED
      BY <1>1, <3>1, <3>2, Zenon DEF Start, Inv, TypeOK
  <2>3. OnePlace'
    BY <1>1, <2>1 DEF Start, Inv, OnePlace
  <2>4. StoppedIsQuiet'
    BY <1>1 DEF Start, StoppedIsQuiet
  <2> QED
    BY <2>2, <2>3, <2>4 DEF Inv
<1>2. CASE StopBegin \/ StopDone \/ StopTimeout \/ CancelRun
  <2>1. UNCHANGED <<queue, worker, holding, life, starts>>
    BY <1>2 DEF StopBegin, StopDone, StopTimeout, CancelRun
  <2>2. TypeOK'
    BY <1>2, <2>1 DEF StopBegin, StopDone, StopTimeout, CancelRun, Inv, TypeOK
  <2>3. OnePlace'
    BY <2>1 DEF Inv, OnePlace
  <2>4. StoppedIsQuiet'
    BY <1>2, <2>1 DEF StopBegin, StopDone, StopTimeout, CancelRun, Inv, StoppedIsQuiet
  <2> QED
    BY <2>2, <2>3, <2>4 DEF Inv
<1> QED
  BY <1>1, <1>2 DEF Control

LEMMA CallerKeepsInv ==
    ASSUME Inv, NEW r \in Requests, Caller(r)
    PROVE  Inv'
<1>1. CASE Notify(r) \/ Refuse(r)
  <2>1. /\ UNCHANGED <<queue, worker, holding, started, starts, stopClosed,
                       stopping, crashed, ctxDone, stopCalled>>
        /\ life[r] \notin {"queued", "processing"}
        /\ life' \in [Requests -> Life]
        /\ life'[r] \notin {"queued", "processing"}
        /\ \A s \in Requests : s # r => life'[s] = life[s]
    BY <1>1 DEF Notify, Refuse, Inv, TypeOK, Life
  <2>2. TypeOK'
    BY <2>1 DEF Inv, TypeOK
  <2>3. OnePlace'
    BY <2>1 DEF Inv, OnePlace
  <2>4. StoppedIsQuiet'
    BY <2>1 DEF Inv, StoppedIsQuiet
  <2> QED
    BY <2>2, <2>3, <2>4 DEF Inv
<1>2. CASE Enqueue(r)
  <2> USE <1>2 DEF Enqueue, Inv, TypeOK, OnePlace
  <2>1. /\ queue' \in Seq(Requests) /\ Len(queue') = Len(queue) + 1
        /\ queue'[Len(queue) + 1] = r
        /\ \A i \in 1..Len(queue) : queue'[i] = queue[i]
    OBVIOUS
  <2>2. \A i \in 1..Len(queue) : queue[i] # r
    OBVIOUS
  <2>3. TypeOK'
    BY <2>1 DEF Life
  <2>4. \A i, j \in 1..Len(queue') : queue'[i] = queue'[j] => i = j
    BY <2>1, <2>2
  <2>5. \A s \in Requests :
           life'[s] = "queued" <=> \E i \in 1..Len(queue') : queue'[i] = s
    <3> TAKE s \in Requests
    <3>1. CASE s = r
      <4>1. Len(queue) + 1 \in 1..Len(queue') /\ life'[r] = "queued"
        BY <2>1
      <4> QED
        BY <3>1, <4>1, <2>1
    <3>2. CASE s # r
      <4>1. life'[s] = life[s]
        BY <3>2
      <4>2. \A i \in 1..Len(queue') :
               queue'[i] = s => i \in 1..Len(queue) /\ queue[i] = s
        BY <2>1, <3>2
      <4>3. \A i \in 1..Len(queue) : queue[i] = s =>
               i \in 1..Len(queue') /\ queue'[i] = s
        BY <2>1
      <4> QED
        BY <4>1, <4>2, <4>3
    <3> QED
      BY <3>1, <3>2
  <2>6. OnePlace'
    BY <2>4, <2>5
  <2> QED
    BY <2>3, <2>6 DEF StoppedIsQuiet
<1> QED
  BY <1>1, <1>2 DEF Caller

LEMMA WorkerKeepsInv ==
    ASSUME Inv, NEW w \in Workers, WorkerStep(w)
    PROVE  Inv'
<1>1. CASE Take(w)
  <2> USE <1>1 DEF Take, Inv, TypeOK, OnePlace
  <2>1. /\ queue' \in Seq(Requests) /\ Len(queue') = Len(queue) - 1
        /\ \A i \in 1..Len(queue') : queue'[i] = queue[i + 1]
        /\ Head(queue) = queue[1] /\ Len(queue) > 0 /\ Head(queue) \in Requests
    OBVIOUS
  <2>2. \A i \in 1..Len(queue') : queue'[i] # Head(queue)
    BY <2>1
  <2>3. TypeOK'
    BY <2>1 DEF Life
  <2>4. \A i, j \in 1..Len(queue') : queue'[i] = queue'[j] => i = j
    BY <2>1
  <2>5. \A s \in Requests :
           (\E i \in 1..Len(queue') : queue'[i] = s)
           <=> (s # Head(queue) /\ \E i \in 1..Len(queue) : queue[i] = s)
    <3> SUFFICES ASSUME NEW s \in Requests, s # Head(queue),
                        NEW i \in 1..Len(queue), queue[i] = s
                 PROVE  \E k \in 1..Len(queue') : queue'[k] = s
      BY <2>1, <2>2
    <3>1. i - 1 \in 1..Len(queue') /\ queue'[i - 1] = s
      BY <2>1
    <3> QED
      BY <3>1
  <2>6. \A s \in Requests :
           life'[s] = "queued" <=> \E i \in 1..Len(queue') : queue'[i] = s
    BY <2>1, <2>5
  <2>7. life[Head(queue)] = "queued"
    BY <2>1
  <2>8. \A v \in Workers : worker[v] = "busy" => holding[v] # Head(queue)
    BY <2>1, <2>7
  <2>9. \A s \in Requests :
           life'[s] = "processing" <=>
             \E v \in Workers : worker'[v] = "busy" /\ holding'[v] = s
    BY <2>1, <2>8
  <2>10. OnePlace'
    BY <2>4, <2>6, <2>8, <2>9
  <2> QED
    BY <2>3, <2>10 DEF StoppedIsQuiet
<1>2. CASE Finish(w)
  <2> USE <1>2 DEF Finish, Inv, TypeOK, OnePlace
  <2>1. PICK outcome \in Outcomes : life' = [life EXCEPT ![holding[w]] = outcome]
    OBVIOUS
  <2>2. holding[w] \in Requests /\ life[holding[w]] = "processing"
    OBVIOUS
  <2>3. TypeOK'
    BY <2>1, <2>2 DEF Life, Outcomes
  <2>4. OnePlace'
    BY <2>1, <2>2 DEF Outcomes
  <2> QED
    BY <2>3, <2>4 DEF StoppedIsQuiet
<1>3. CASE WorkerExit(w)
  BY <1>3 DEF WorkerExit, Inv, TypeOK, OnePlace, StoppedIsQuiet
<1> QED
  BY <1>1, <1>2, <1>3 DEF WorkerStep

(* The invariant holds in every reachable state, for any number of         *)
(* workers, requests and restarts.                                         *)
THEOREM Inductive == Spec => []Inv
<1>1. Init => Inv
  BY InvInit
<1>2. Inv /\ [Next]_vars => Inv'
  <2> SUFFICES ASSUME Inv, [Next]_vars PROVE Inv'
    OBVIOUS
  <2>1. CASE UNCHANGED vars
    BY <2>1 DEF vars, Inv, TypeOK, OnePlace, StoppedIsQuiet
  <2>2. CASE Next
    BY <2>2, ControlKeepsInv, CallerKeepsInv, WorkerKeepsInv DEF Next
  <2> QED
    BY <2>1, <2>2
<1> QED
  BY <1>1, <1>2, PTL DEF Spec

(* An accepted request is in the channel once or with one worker. *)
THEOREM RequestsInOnePlace == Spec => []OnePlace
<1>1. Inv => OnePlace
  BY DEF Inv
<1> QED
  BY <1>1, Inductive, PTL

(* No worker outlives a Stop that returned without an error. *)
THEOREM QuietAfterStop == Spec => []StoppedIsQuiet
<1>1. Inv => StoppedIsQuiet
  BY DEF Inv
<1> QED
  BY <1>1, Inductive, PTL

-----------------------------------------------------------------------------

(* What RunningHasWorkers rests on when the service is started only once:  *)
(* the stop channel was closed by a Stop of this very run.                 *)
FreshChannel ==
    /\ starts \in Nat
    /\ started => starts >= 1
    /\ stopClosed => stopCalled \/ starts > 1
    /\ stopClosed => starts >= 1

(* A service that is started once keeps its workers until it is stopped or *)
(* cancelled.  (Started twice it does not: the channel stays closed.)      *)
THEOREM WorkersWhileRunning ==
    ASSUME MaxStarts <= 1
    PROVE  Spec => []RunningHasWorkers
<1> DEFINE J == TypeOK /\ FreshChannel /\ RunningHasWorkers
<1>1. Init => J
  BY InvInit DEF Init, Inv, FreshChannel, RunningHasWorkers
<1>2. TypeOK /\ TypeOK' /\ J /\ [Next]_vars => J'
  <2> SUFFICES ASSUME TypeOK', J, [Next]_vars PROVE J'
    OBVIOUS
  <2> USE DEF FreshChannel, RunningHasWorkers, TypeOK
  <2>1. CASE UNCHANGED vars
    BY <2>1 DEF vars
  <2>2. CASE Control
    BY <2>2 DEF Control, Start, StopBegin, StopDone, StopTimeout, CancelRun
  <2>3. ASSUME NEW r \in Requests, Caller(r) PROVE J'
    BY <2>3 DEF Caller, Notify, Enqueue, Refuse
  <2>4. ASSUME NEW w \in Workers, WorkerStep(w) PROVE J'
    BY <2>4 DEF WorkerStep, Take, Finish, WorkerExit, Exits
  <2> QED
    BY <2>1, <2>2, <2>3, <2>4 DEF Next
<1>3. Inv => TypeOK
  BY DEF Inv
<1>4. J => RunningHasWorkers
  OBVIOUS
<1> QED
  BY <1>1, <1>2, <1>3, <1>4, Inductive, PTL DEF Spec

=============================================================================
