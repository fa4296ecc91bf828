------------------------- MODULE WebhookClientProofs -------------------------
(***************************************************************************)
(* For any number of senders, endpoints and retries: the senders at work   *)
(* on an endpoint share its breaker, SendNotification reports an error     *)
(* exactly when it had an endpoint to notify and none took the             *)
(* notification, and what starts at an endpoint while its breaker blocks   *)
(* stays below one round of attempts.                                      *)
(***************************************************************************)
EXTENDS WebhookClient, FiniteSetTheorems, TLAPS

(* What the sharing of breakers needs to know of types. *)
MapTyped ==
    /\ webhooks \in WebhookLists
    /\ registered \in [Endpoints -> {0} \cup Objects]
    /\ pc \in [Senders -> PC]
    /\ endpoint \in [Senders -> Endpoints]
    /\ mine \in [Senders -> {0} \cup Objects]

(* The breaker found, or about to be created: the map changes only from    *)
(* "none" to the one object of the endpoint.                               *)
OneObject == \A e \in Endpoints : registered[e] \in {0, 1}

Attached ==
    \A s \in Senders :
        pc[s] \in {"check", "request", "succeeded", "failed", "backoff"}
        => mine[s] = registered[endpoint[s]] /\ mine[s] = 1

MapInv == MapTyped /\ OneObject /\ Attached

(* What the outcome needs to know of types. *)
LoopTyped ==
    /\ webhooks \in WebhookLists
    /\ pc \in [Senders -> PC]
    /\ endpoint \in [Senders -> Endpoints]
    /\ delivered \in [Senders -> SUBSET Endpoints]
    /\ successCount \in [Senders -> Nat]
    /\ failed \in [Senders -> BOOLEAN]
    /\ returned \in [Senders -> {"none", "nil", "error"}]

(* The entries of the list the loop is done with. *)
Passed(s) ==
    {e \in DOMAIN webhooks : e < endpoint[s] \/ (pc[s] = "next" /\ e = endpoint[s])}

(* The locals of the loop follow the answers heard: success is counted one *)
(* step after it was heard, and an enabled endpoint left behind counts or  *)
(* failed; the loop works on enabled endpoints only.                       *)
LoopSound(s) ==
    /\ pc[s] = "idle" => endpoint[s] = 1 /\ successCount[s] = 0 /\ ~failed[s]
    /\ pc[s] \notin {"idle", "succeeded"} =>
          (successCount[s] > 0 <=> delivered[s] # {})
    /\ pc[s] = "succeeded" => delivered[s] # {}
    /\ (\E e \in Passed(s) : webhooks[e]) => successCount[s] > 0 \/ failed[s]
    /\ failed[s] \/ delivered[s] # {} => SomeEnabled
    /\ pc[s] # "idle" => endpoint[s] \in DOMAIN webhooks
    /\ pc[s] \notin {"idle", "next"} => webhooks[endpoint[s]]

(* While a SendNotification runs there is no result, and the last one was  *)
(* right.                                                                  *)
ResultSound(s) ==
    /\ pc[s] # "idle" => returned[s] = "none"
    /\ returned[s] # "none" =>
          (returned[s] = "error" <=> SomeEnabled /\ delivered[s] = {})

LoopInv == LoopTyped /\ \A s \in Senders : LoopSound(s) /\ ResultSound(s)

-----------------------------------------------------------------------------
(* The list of webhooks.                                                   *)

LEMMA ListFacts ==
    ASSUME WebhookAssumption, webhooks \in WebhookLists
    PROVE  /\ Len(webhooks) \in 0..MaxEndpoints
           /\ DOMAIN webhooks = 1..Len(webhooks)
           /\ DOMAIN webhooks \subseteq Endpoints
           /\ \A e \in DOMAIN webhooks : webhooks[e] \in BOOLEAN
           /\ webhooks # <<>> => 1 \in DOMAIN webhooks
<1>1. PICK n \in 0..MaxEndpoints : webhooks \in [1..n -> BOOLEAN]
  BY DEF WebhookLists
<1>2. n \in Nat /\ webhooks \in Seq(BOOLEAN) /\ DOMAIN webhooks = 1..n
  BY <1>1 DEF WebhookAssumption
<1>3. Len(webhooks) = n
  BY <1>2
<1> QED
  BY <1>1, <1>2, <1>3 DEF WebhookAssumption, Endpoints

-----------------------------------------------------------------------------
(* Sharing of breakers.                                                    *)

LEMMA FirstObject == ASSUME WebhookAssumption, NEW s \in Senders PROVE 1 \in Objects
<1>1. Cardinality(Senders) \in Nat /\ Cardinality(Senders) # 0
  BY FS_CardinalityType, FS_EmptySet DEF WebhookAssumption
<1> QED
  BY <1>1 DEF Objects

LEMMA MapInit == WebhookAssumption /\ Init => MapInv
BY DEF WebhookAssumption, Init, MapInv, MapTyped, OneObject, Attached, Endpoints, PC

LEMMA CreateKeepsMap ==
    ASSUME WebhookAssumption, MapInv, NEW s \in Senders, CreateBreaker(s),
           UNCHANGED webhooks
    PROVE  MapInv'
<1>1. endpoint[s] \in Endpoints /\ registered[endpoint[s]] \in {0, 1}
  BY DEF MapInv, MapTyped, OneObject
<1>2. /\ registered' = [registered EXCEPT ![endpoint[s]] = 1]
      /\ mine' = [mine EXCEPT ![s] = 1]
      /\ pc' = [pc EXCEPT ![s] = "check"] /\ endpoint' = endpoint
  BY <1>1 DEF CreateBreaker, GoTo
<1>3. MapTyped'
  BY <1>2, FirstObject DEF MapInv, MapTyped, PC
<1>4. OneObject'
  BY <1>1, <1>2 DEF MapInv, MapTyped, OneObject
<1>5. Attached'
  <2> SUFFICES ASSUME NEW t \in Senders,
                      pc'[t] \in {"check", "request", "succeeded", "failed", "backoff"}
               PROVE  mine'[t] = registered'[endpoint[t]] /\ mine'[t] = 1
    BY <1>2 DEF Attached
  <2>1. endpoint[t] \in Endpoints
    BY DEF MapInv, MapTyped
  <2>2. CASE t = s
    BY <1>2, <2>1, <2>2 DEF MapInv, MapTyped
  <2>3. CASE t # s
    <3>1. mine[t] = registered[endpoint[t]] /\ mine[t] = 1
      BY <1>2, <2>3 DEF MapInv, MapTyped, Attached
    <3> QED
      BY <1>2, <2>1, <2>3, <3>1 DEF MapInv, MapTyped
  <2> QED
    BY <2>2, <2>3
<1> QED
  BY <1>3, <1>4, <1>5 DEF MapInv

LEMMA MapKept == WebhookAssumption /\ MapInv /\ [Next]_vars => MapInv'
<1> SUFFICES ASSUME WebhookAssumption, MapInv, [Next]_vars PROVE MapInv'
  OBVIOUS
<1> USE DEF MapInv, MapTyped, OneObject, Attached
<1>1. ASSUME NEW s \in Senders, StartSend(s) \/ Cancel(s) PROVE MapInv'
  BY <1>1 DEF StartSend, TurnTo, Cancel, GoTo, PC
<1>2. ASSUME NEW s \in Senders, SenderStep(s) PROVE MapInv'
  <2>1. CASE Lookup(s)
    BY <1>2, <2>1 DEF SenderStep, Lookup, GoTo, PC
  <2>2. CASE CreateBreaker(s)
    BY <1>2, <2>2, CreateKeepsMap DEF SenderStep
  <2>3. CASE Check(s) \/ Request(s)
    BY <1>2, <2>3 DEF SenderStep, Check, Request, GoTo, PC
  <2>4. CASE Succeeded(s) \/ Failed(s)
    BY <1>2, <2>4 DEF SenderStep, Succeeded, Failed, GoTo, PC
  <2>5. CASE BackoffOver(s) \/ BackoffCancelled(s)
    BY <1>2, <2>5 DEF SenderStep, BackoffOver, BackoffCancelled, GoTo, PC
  <2>6. CASE NextEndpoint(s)
    <3>1. mine' = [mine EXCEPT ![s] = 0] /\ registered' = registered
      BY <2>6 DEF NextEndpoint
    <3>2. \E p \in {"lookup", "next", "idle"} : pc' = [pc EXCEPT ![s] = p]
      BY <2>6 DEF NextEndpoint, TurnTo, GoTo
    <3>3. \E e \in Endpoints : endpoint' = [endpoint EXCEPT ![s] = e]
      BY <2>6, ListFacts DEF NextEndpoint, Endpoints, WebhookAssumption
    <3> QED
      BY <1>2, <3>1, <3>2, <3>3 DEF PC, SenderStep
  <2> QED
    BY <1>2, <2>1, <2>2, <2>3, <2>4, <2>5, <2>6 DEF SenderStep
<1>3. CASE Tick
  BY <1>3 DEF Tick
<1>4. CASE UNCHANGED vars
  BY <1>4 DEF vars
<1> QED
  BY <1>1, <1>2, <1>3, <1>4 DEF Next

(* All senders at work on an endpoint hold the breaker that is in the map. *)
THEOREM BreakersAreShared == Spec => []SharedBreaker
<1> USE WebhookAssumption
<1>1. Init => MapInv
  BY MapInit
<1>2. MapInv /\ [Next]_vars => MapInv'
  BY MapKept
<1>3. MapInv => SharedBreaker
  BY DEF MapInv, Attached, SharedBreaker
<1> QED
  BY <1>1, <1>2, <1>3, PTL DEF Spec

-----------------------------------------------------------------------------
(* What SendNotification reports.                                          *)

LEMMA LoopInit == WebhookAssumption /\ Init => LoopInv
<1> SUFFICES ASSUME WebhookAssumption, Init PROVE LoopInv
  OBVIOUS
<1>1. LoopTyped
  BY DEF WebhookAssumption, Init, LoopTyped, Endpoints, PC
<1>2. DOMAIN webhooks = 1..Len(webhooks) /\ Len(webhooks) \in Nat
  BY <1>1, ListFacts DEF LoopTyped, WebhookAssumption
<1>3. \A s \in Senders : Passed(s) = {}
  BY <1>2 DEF Init, Passed
<1> QED
  BY <1>1, <1>3 DEF Init, LoopInv, LoopSound, ResultSound

(* A step of one sender leaves the other senders' loops alone. *)
OthersAlone(s) ==
    \A t \in Senders \ {s} :
        /\ pc'[t] = pc[t] /\ endpoint'[t] = endpoint[t]
        /\ delivered'[t] = delivered[t] /\ successCount'[t] = successCount[t]
        /\ failed'[t] = failed[t] /\ returned'[t] = returned[t]

LEMMA OthersKept ==
    ASSUME LoopInv, LoopTyped', UNCHANGED webhooks, NEW s \in Senders, OthersAlone(s),
           LoopSound(s)' /\ ResultSound(s)'
    PROVE  LoopInv'
BY DEF LoopInv, LoopSound, ResultSound, Passed, SomeEnabled, OthersAlone

LEMMA StartKeepsLoop ==
    ASSUME WebhookAssumption, LoopInv, NEW s \in Senders, StartSend(s)
    PROVE  LoopInv'
<1>1. LoopTyped'
  BY DEF LoopInv, LoopTyped, StartSend, TurnTo, GoTo, PC
<1>2. /\ DOMAIN webhooks = 1..Len(webhooks) /\ Len(webhooks) \in Nat
      /\ webhooks # <<>> => 1 \in DOMAIN webhooks
      /\ \A e \in DOMAIN webhooks : webhooks[e] \in BOOLEAN
  BY ListFacts DEF LoopInv, LoopTyped, WebhookAssumption
<1>3. /\ pc[s] = "idle" /\ endpoint[s] = 1 /\ successCount[s] = 0 /\ ~failed[s]
      /\ UNCHANGED <<webhooks, endpoint, successCount, failed>>
      /\ delivered'[s] = {}
  BY DEF StartSend, LoopInv, LoopTyped, LoopSound
<1>4. OthersAlone(s)
  BY DEF LoopInv, LoopTyped, StartSend, TurnTo, GoTo, OthersAlone
<1>5. CASE webhooks = <<>>
  <2>1. pc' = pc /\ returned'[s] = "nil" /\ ~SomeEnabled
    BY <1>2, <1>5 DEF StartSend, LoopInv, LoopTyped, SomeEnabled
  <2>2. Passed(s)' = {} /\ ~SomeEnabled'
    BY <1>2, <1>3, <2>1 DEF Passed, SomeEnabled
  <2>3. LoopSound(s)' /\ ResultSound(s)'
    BY <1>3, <2>1, <2>2 DEF LoopSound, ResultSound
  <2> QED
    BY <1>1, <1>3, <1>4, <2>3, OthersKept
<1>6. CASE webhooks # <<>>
  <2>1. /\ pc'[s] = IF webhooks[1] THEN "lookup" ELSE "next"
        /\ returned'[s] = "none"
    BY <1>6 DEF StartSend, TurnTo, GoTo, LoopInv, LoopTyped
  <2>2. \A e \in Passed(s)' : e = 1 /\ pc'[s] = "next"
    BY <1>2, <1>3 DEF Passed
  <2>3. LoopSound(s)' /\ ResultSound(s)'
    BY <1>2, <1>3, <1>6, <2>1, <2>2 DEF LoopSound, ResultSound
  <2> QED
    BY <1>1, <1>3, <1>4, <2>3, OthersKept
<1> QED
  BY <1>5, <1>6

(* A step on an endpoint, which does not move on in the list.              *)
LEMMA WorkKeepsLoop ==
    ASSUME WebhookAssumption, LoopInv, NEW s \in Senders, UNCHANGED webhooks,
           \/ Lookup(s) \/ CreateBreaker(s) \/ Check(s) \/ Request(s) \/ Succeeded(s)
           \/ Failed(s) \/ BackoffOver(s) \/ BackoffCancelled(s)
    PROVE  LoopInv'
<1> USE DEF LoopInv, LoopTyped, GoTo, PC
<1>1. LoopTyped'
  <2>1. CASE Lookup(s) \/ CreateBreaker(s)
    BY <2>1 DEF Lookup, CreateBreaker
  <2>2. CASE Check(s)
    BY <2>2 DEF Check
  <2>3. CASE Request(s)
    BY <2>3 DEF Request
  <2>4. CASE Succeeded(s)
    BY <2>4 DEF Succeeded
  <2>5. CASE Failed(s)
    BY <2>5 DEF Failed
  <2>6. CASE BackoffOver(s) \/ BackoffCancelled(s)
    BY <2>6 DEF BackoffOver, BackoffCancelled
  <2> QED
    BY <2>1, <2>2, <2>3, <2>4, <2>5, <2>6
<1>2. OthersAlone(s)
  BY DEF Lookup, CreateBreaker, Check, Request, Succeeded, Failed, BackoffOver,
     BackoffCancelled, OthersAlone
<1>3. /\ UNCHANGED <<webhooks, endpoint, returned>>
      /\ pc[s] \notin {"idle", "next"} /\ pc'[s] # "idle"
  BY DEF Lookup, CreateBreaker, Check, Request, Succeeded, Failed, BackoffOver,
     BackoffCancelled
<1>4. /\ endpoint[s] \in DOMAIN webhooks /\ webhooks[endpoint[s]]
      /\ SomeEnabled /\ returned[s] = "none"
  BY <1>3 DEF LoopSound, ResultSound, SomeEnabled
<1>5. /\ pc'[s] # "next" => Passed(s)' = Passed(s)
      /\ SomeEnabled'
  BY <1>3, <1>4 DEF Passed, SomeEnabled
<1>6. /\ pc'[s] \notin {"idle", "succeeded"} =>
            (successCount'[s] > 0 <=> delivered'[s] # {})
      /\ pc'[s] = "succeeded" => delivered'[s] # {}
  <2>1. CASE Request(s)
    <3>1. /\ pc[s] = "request" /\ successCount' = successCount
          /\ \/ pc'[s] = "succeeded" /\ delivered'[s] # {}
             \/ pc'[s] = "failed" /\ delivered' = delivered
      BY <2>1 DEF Request
    <3> QED
      BY <3>1 DEF LoopSound
  <2>2. CASE Succeeded(s)
    <3>1. /\ pc[s] = "succeeded" /\ pc'[s] = "next" /\ delivered' = delivered
          /\ successCount'[s] = successCount[s] + 1 /\ successCount[s] \in Nat
      BY <2>2 DEF Succeeded
    <3> QED
      BY <3>1 DEF LoopSound
  <2>3. CASE ~Request(s) /\ ~Succeeded(s)
    <3>1. /\ UNCHANGED <<delivered, successCount>>
          /\ pc[s] # "succeeded" /\ pc'[s] # "succeeded"
      BY <2>3 DEF Lookup, CreateBreaker, Check, Failed, BackoffOver, BackoffCancelled
    <3> QED
      BY <1>3, <3>1 DEF LoopSound
  <2> QED
    BY <2>1, <2>2, <2>3
<1>7. /\ pc'[s] = "next" => successCount'[s] > 0 \/ failed'[s]
      /\ successCount[s] > 0 \/ failed[s] => successCount'[s] > 0 \/ failed'[s]
  BY DEF Lookup, CreateBreaker, Check, Request, Succeeded, Failed, BackoffOver,
     BackoffCancelled
<1>8. LoopSound(s)'
  BY <1>3, <1>4, <1>5, <1>6, <1>7 DEF LoopSound
<1>9. ResultSound(s)'
  BY <1>3, <1>4 DEF ResultSound
<1> QED
  BY <1>1, <1>2, <1>8, <1>9, OthersKept

LEMMA NextKeepsLoop ==
    ASSUME WebhookAssumption, LoopInv, NEW s \in Senders, NextEndpoint(s),
           UNCHANGED webhooks
    PROVE  LoopInv'
<1>1. /\ DOMAIN webhooks = 1..Len(webhooks) /\ Len(webhooks) \in Nat
      /\ DOMAIN webhooks \subseteq Endpoints /\ 1 \in Endpoints
      /\ \A e \in DOMAIN webhooks : webhooks[e] \in BOOLEAN
  BY ListFacts DEF LoopInv, LoopTyped, WebhookAssumption, Endpoints
<1>2. /\ pc[s] = "next" /\ endpoint[s] \in DOMAIN webhooks /\ endpoint[s] \in Nat
      /\ delivered' = delivered
  BY <1>1 DEF NextEndpoint, LoopInv, LoopSound
<1>3. ASSUME NEW e \in DOMAIN webhooks PROVE e \in Passed(s) <=> e <= endpoint[s]
  <2>1. e \in Nat
    BY <1>1
  <2> QED
    BY <1>2, <2>1 DEF Passed
<1>4. CASE endpoint[s] < Len(webhooks)
  <2>1. PICK p \in {"lookup", "next"} :
           /\ pc' = [pc EXCEPT ![s] = p]
           /\ p = IF webhooks[endpoint[s] + 1] THEN "lookup" ELSE "next"
    BY <1>4 DEF NextEndpoint, TurnTo, GoTo
  <2>2. /\ endpoint' = [endpoint EXCEPT ![s] = endpoint[s] + 1]
        /\ endpoint[s] + 1 \in DOMAIN webhooks
        /\ UNCHANGED <<successCount, failed, returned>>
    BY <1>1, <1>2, <1>4 DEF NextEndpoint
  <2>3. LoopTyped' /\ OthersAlone(s)
    BY <1>1, <1>2, <2>1, <2>2 DEF LoopInv, LoopTyped, PC, OthersAlone
  <2>4. pc'[s] = p /\ endpoint'[s] = endpoint[s] + 1
    BY <2>1, <2>2 DEF LoopInv, LoopTyped
  <2>5. \A e \in Passed(s)' : webhooks[e] => e \in Passed(s)
    BY <1>1, <1>2, <1>3, <2>1, <2>2, <2>4 DEF Passed
  <2>6. LoopSound(s)'
    BY <1>2, <2>1, <2>2, <2>4, <2>5 DEF LoopInv, LoopSound, SomeEnabled, Passed
  <2>7. ResultSound(s)'
    BY <1>2, <2>1, <2>2, <2>4 DEF LoopInv, ResultSound
  <2> QED
    BY <2>3, <2>6, <2>7, OthersKept
<1>5. CASE endpoint[s] = Len(webhooks)
  <2>1. PICK o \in {"nil", "error"} :
           returned' = [returned EXCEPT ![s] = o] /\ o = Outcome(s)
    BY <1>1, <1>2, <1>5 DEF NextEndpoint, Outcome
  <2>2. /\ endpoint' = [endpoint EXCEPT ![s] = 1] /\ pc' = [pc EXCEPT ![s] = "idle"]
        /\ successCount' = [successCount EXCEPT ![s] = 0]
        /\ failed' = [failed EXCEPT ![s] = FALSE]
    BY <1>1, <1>2, <1>5 DEF NextEndpoint, GoTo
  <2>3. LoopTyped' /\ OthersAlone(s)
    BY <1>1, <1>2, <2>1, <2>2 DEF LoopInv, LoopTyped, PC, OthersAlone
  <2>4. /\ pc'[s] = "idle" /\ endpoint'[s] = 1 /\ successCount'[s] = 0 /\ ~failed'[s]
        /\ returned'[s] = o
    BY <2>1, <2>2 DEF LoopInv, LoopTyped
  <2>5. Passed(s)' = {}
    BY <1>1, <2>4 DEF Passed
  <2>6. LoopSound(s)'
    BY <1>2, <2>4, <2>5 DEF LoopInv, LoopSound, SomeEnabled
  <2>7. SomeEnabled => successCount[s] > 0 \/ failed[s]
    BY <1>1, <1>2, <1>3, <1>5 DEF LoopInv, LoopSound, SomeEnabled
  <2>8. /\ successCount[s] > 0 <=> delivered[s] # {}
        /\ failed[s] => SomeEnabled
        /\ successCount[s] \in Nat
    BY <1>2 DEF LoopInv, LoopTyped, LoopSound
  <2>9. o = "error" <=> SomeEnabled /\ delivered[s] = {}
    BY <2>1, <2>7, <2>8 DEF Outcome
  <2>10. ResultSound(s)'
    BY <1>2, <2>4, <2>9 DEF ResultSound, SomeEnabled
  <2> QED
    BY <2>3, <2>6, <2>10, OthersKept
<1> QED
  BY <1>4, <1>5 DEF NextEndpoint

LEMMA LoopKept == WebhookAssumption /\ LoopInv /\ [Next]_vars => LoopInv'
<1> SUFFICES ASSUME WebhookAssumption, LoopInv, [Next]_vars PROVE LoopInv'
  OBVIOUS
<1>1. ASSUME NEW s \in Senders, Cancel(s) PROVE LoopInv'
  BY <1>1 DEF Cancel, LoopInv, LoopTyped, LoopSound, ResultSound, Passed, SomeEnabled
<1>2. CASE Tick
  BY <1>2 DEF Tick, LoopInv, LoopTyped, LoopSound, ResultSound, Passed, SomeEnabled
<1>3. CASE UNCHANGED vars
  BY <1>3 DEF vars, LoopInv, LoopTyped, LoopSound, ResultSound, Passed, SomeEnabled
<1> QED
  BY <1>1, <1>2, <1>3, StartKeepsLoop, WorkKeepsLoop, NextKeepsLoop DEF Next, SenderStep

(* SendNotification returns an error exactly when it had an endpoint to    *)
(* notify and none took the notification, for any list of endpoints,       *)
(* enabled or not, and through retries, cancellation and blocked breakers. *)
THEOREM ErrorsAreHonest == Spec => []ErrorMeansUndelivered
<1> USE WebhookAssumption
<1>1. Init => LoopInv
  BY LoopInit
<1>2. LoopInv /\ [Next]_vars => LoopInv'
  BY LoopKept
<1>3. LoopInv => ErrorMeansUndelivered
  BY DEF LoopInv, ResultSound, ErrorMeansUndelivered
<1> QED
  BY <1>1, <1>2, <1>3, PTL DEF Spec

-----------------------------------------------------------------------------
(* Requests to an endpoint whose breaker blocks.                           *)

(* Attempts a sender can still make in its retry loop, by number. *)
Remaining(s) ==
    {n \in 1..MaxRetries : \/ pc[s] = "request" /\ n >= attempt[s]
                           \/ pc[s] \in {"failed", "backoff"} /\ n > attempt[s]}

Attempts == Senders \X (1..MaxRetries)

(* The requests to e that senders already admitted may yet make. *)
ToCome(e) == {a \in Attempts : endpoint[a[1]] = e /\ a[2] \in Remaining(a[1])}

LoadTyped ==
    /\ breaker \in [Endpoints -> [Objects -> Breaker]]
    /\ attempt \in [Senders -> 0..MaxRetries]
    /\ overrun \in [Endpoints -> Nat]

(* Only the object in the map is used, and none becomes half open. *)
OneInUse ==
    \A e \in Endpoints, k \in Objects :
        /\ breaker[e][k].state # "half_open"
        /\ k # 1 => breaker[e][k].state = "closed"

Attempted ==
    \A s \in Senders :
        /\ pc[s] \in {"request", "failed", "backoff"} => attempt[s] >= 1
        /\ pc[s] = "backoff" => attempt[s] < MaxRetries

(* What was overrun and what may still be is less than a full round: the   *)
(* request whose failure opened the breaker counts in neither.             *)
Budgeted(e) ==
    IF Blocking(breaker[e][1])
    THEN overrun[e] + Cardinality(ToCome(e)) < OverrunBound
    ELSE overrun[e] = 0

LoadInv ==
    LoadTyped /\ OneInUse /\ Attempted /\ \A e \in Endpoints : Budgeted(e)

(* How a breaker in use answers to an outcome and to time. *)
LEMMA BreakerSteps ==
    ASSUME BreakerAssumption, NEW b \in Breaker, b.state # "half_open"
    PROVE  /\ RecordSuccess(b) \in Breaker /\ RecordFailure(b) \in Breaker
           /\ Elapse(b) \in Breaker
           /\ RecordSuccess(b).state = b.state
           /\ RecordSuccess(b).blockedFor = b.blockedFor
           /\ RecordFailure(b).state # "half_open"
           /\ b.state = "open" => /\ RecordFailure(b).state = b.state
                                  /\ RecordFailure(b).blockedFor = b.blockedFor
           /\ Elapse(b).state = b.state
           /\ Blocking(Elapse(b)) => Blocking(b)
<1> USE DEF Breaker
<1>0. /\ \A n \in 0..MaxFailures : Saturate(n + 1, MaxFailures) \in 0..MaxFailures
      /\ \A n \in 0..HalfOpenMaxCalls :
            Saturate(n + 1, HalfOpenMaxCalls) \in 0..HalfOpenMaxCalls
      /\ 0 \in 0..MaxFailures /\ ResetTimeout \in 0..ResetTimeout
  BY DEF Saturate, BreakerAssumption
<1>1. /\ RecordSuccess(b) \in Breaker /\ RecordSuccess(b).state = b.state
      /\ RecordSuccess(b).blockedFor = b.blockedFor
  BY <1>0 DEF RecordSuccess, Closes
<1>2. RecordFailure(b) \in Breaker
  BY <1>0 DEF RecordFailure
<1>3. /\ RecordFailure(b).state # "half_open"
      /\ b.state = "open" => /\ RecordFailure(b).state = b.state
                             /\ RecordFailure(b).blockedFor = b.blockedFor
  BY DEF RecordFailure, Trips
<1>4. /\ Elapse(b) \in Breaker /\ Elapse(b).state = b.state
      /\ Blocking(Elapse(b)) => Blocking(b)
  BY DEF Elapse, Blocking, BreakerAssumption
<1> QED
  BY <1>1, <1>2, <1>3, <1>4

LEMMA AttemptsCount ==
    ASSUME WebhookAssumption
    PROVE  /\ IsFiniteSet(Attempts) /\ Cardinality(Attempts) = OverrunBound
           /\ OverrunBound \in Nat \ {0}
<1>1. IsFiniteSet(Senders) /\ Cardinality(Senders) \in Nat \ {0}
  BY FS_CardinalityType, FS_EmptySet DEF WebhookAssumption
<1>2. MaxRetries \in Nat \ {0}
  BY DEF WebhookAssumption
<1>3. IsFiniteSet(1..MaxRetries) /\ Cardinality(1..MaxRetries) = MaxRetries
  BY <1>2, FS_Interval
<1>4. IsFiniteSet(Attempts) /\ Cardinality(Attempts) = OverrunBound
  BY <1>1, <1>3, FS_Product DEF Attempts, OverrunBound
<1>5. OverrunBound \in Nat /\ OverrunBound # 0
  BY <1>1, <1>2 DEF OverrunBound
<1> QED
  BY <1>4, <1>5

LEMMA ToComeCount ==
    ASSUME WebhookAssumption, NEW e
    PROVE  IsFiniteSet(ToCome(e)) /\ Cardinality(ToCome(e)) \in Nat
BY AttemptsCount, FS_Subset, FS_CardinalityType DEF ToCome

LEMMA ToComeCountNext ==
    ASSUME WebhookAssumption, NEW e
    PROVE  IsFiniteSet(ToCome(e)') /\ Cardinality(ToCome(e)') \in Nat
BY AttemptsCount, FS_Subset, FS_CardinalityType DEF ToCome

(* A step that starts no attempt and moves neither breakers nor history.   *)
LEMMA QuietKeepsBudget ==
    ASSUME WebhookAssumption, LoadInv, UNCHANGED <<breaker, overrun>>,
           NEW e \in Endpoints,
           Blocking(breaker[e][1]) => ToCome(e)' \subseteq ToCome(e)
    PROVE  Budgeted(e)'
<1>1. CASE Blocking(breaker[e][1])
  <2>1. Cardinality(ToCome(e)') <= Cardinality(ToCome(e))
    BY <1>1, ToComeCount, FS_Subset
  <2>2. overrun[e] \in Nat /\ OverrunBound \in Nat
    BY AttemptsCount DEF LoadInv, LoadTyped
  <2> QED
    BY <1>1, <2>1, <2>2, ToComeCount, ToComeCountNext DEF LoadInv, Budgeted
<1>2. CASE ~Blocking(breaker[e][1])
  BY <1>2 DEF LoadInv, Budgeted
<1> QED
  BY <1>1, <1>2

LEMMA LoadInit == WebhookAssumption /\ BreakerAssumption /\ Init => LoadInv
<1> SUFFICES ASSUME WebhookAssumption, BreakerAssumption, Init PROVE LoadInv
  OBVIOUS
<1>1. NewCircuitBreaker \in Breaker /\ NewCircuitBreaker.state = "closed"
  BY DEF NewCircuitBreaker, Breaker, BreakerAssumption
<1>2. LoadTyped
  BY <1>1 DEF Init, LoadTyped, WebhookAssumption
<1>3. OneInUse /\ Attempted
  BY <1>1 DEF Init, OneInUse, Attempted
<1>4. \A e \in Endpoints : Budgeted(e)
  <2> SUFFICES ASSUME NEW e \in Endpoints PROVE Budgeted(e)
    OBVIOUS
  <2>1. 1 \in Objects
    BY FirstObject DEF WebhookAssumption
  <2> QED
    BY <1>1, <2>1 DEF Init, Budgeted, Blocking
<1> QED
  BY <1>2, <1>3, <1>4 DEF LoadInv

(* A step that leaves the breakers and the history alone. *)
LEMMA QuietStep ==
    ASSUME WebhookAssumption, MapInv, LoadInv, NEW s \in Senders,
           \/ StartSend(s) \/ Lookup(s) \/ CreateBreaker(s) \/ Check(s)
           \/ BackoffOver(s) \/ BackoffCancelled(s) \/ NextEndpoint(s) \/ Cancel(s)
    PROVE  LoadInv'
<1>1. UNCHANGED <<breaker, overrun>>
  BY DEF StartSend, Lookup, CreateBreaker, Check, BackoffOver, BackoffCancelled,
     NextEndpoint, Cancel
<1>2. LoadTyped' /\ Attempted'
  <2> USE DEF MapInv, MapTyped, LoadInv, LoadTyped, Attempted, WebhookAssumption, GoTo
  <2>1. CASE StartSend(s)
    BY <2>1 DEF StartSend, TurnTo
  <2>2. CASE Lookup(s) \/ CreateBreaker(s) \/ Check(s)
    BY <2>2 DEF Lookup, CreateBreaker, Check
  <2>3. CASE BackoffOver(s) \/ BackoffCancelled(s) \/ Cancel(s)
    BY <2>3 DEF BackoffOver, BackoffCancelled, Cancel
  <2>4. CASE NextEndpoint(s)
    <3>1. /\ UNCHANGED <<breaker, overrun>> /\ attempt' = [attempt EXCEPT ![s] = 0]
          /\ \E p \in {"lookup", "next", "idle"} : pc' = [pc EXCEPT ![s] = p]
      BY <2>4 DEF NextEndpoint, TurnTo
    <3> QED
      BY <3>1
  <2> QED
    BY <2>1, <2>2, <2>3, <2>4
<1>3. OneInUse'
  BY <1>1 DEF LoadInv, OneInUse
<1>4. ASSUME NEW e \in Endpoints, Blocking(breaker[e][1])
      PROVE  ToCome(e)' \subseteq ToCome(e)
  <2> SUFFICES ASSUME NEW t \in Senders, NEW n \in 1..MaxRetries,
                      endpoint'[t] = e, n \in Remaining(t)'
               PROVE  endpoint[t] = e /\ n \in Remaining(t)
    BY DEF ToCome, Attempts
  <2> USE DEF Remaining, MapInv, MapTyped, LoadInv, LoadTyped, GoTo
  <2>1. CASE StartSend(s) \/ Lookup(s) \/ CreateBreaker(s) \/ Cancel(s)
    BY <2>1 DEF StartSend, TurnTo, Lookup, CreateBreaker, Cancel
  <2>2. CASE Check(s)
    <3>1. \/ endpoint' = endpoint /\ attempt' = attempt
          \/ CanExecute(MyBreaker(s)) /\ pc[s] = "check" /\ endpoint' = endpoint
      BY <2>2 DEF Check
    <3>2. CanExecute(MyBreaker(s)) /\ pc[s] = "check" => endpoint[s] # e
      BY <1>4 DEF MyBreaker, Attached, CanExecute, Blocking
    <3> QED
      BY <2>2, <3>1, <3>2 DEF Check
  <2>3. CASE BackoffOver(s)
    BY <2>3 DEF BackoffOver, WebhookAssumption
  <2>4. CASE BackoffCancelled(s)
    BY <2>4 DEF BackoffCancelled
  <2>5. CASE NextEndpoint(s)
    <3>1. /\ \A u \in Senders \ {s} : /\ endpoint'[u] = endpoint[u]
                                      /\ attempt'[u] = attempt[u] /\ pc'[u] = pc[u]
          /\ pc'[s] \in {"lookup", "next", "idle"}
      BY <2>5 DEF NextEndpoint, TurnTo
    <3> QED
      BY <3>1
  <2> QED
    BY <2>1, <2>2, <2>3, <2>4, <2>5
<1>5. \A e \in Endpoints : Budgeted(e)'
  BY <1>1, <1>4, QuietKeepsBudget
<1> QED
  BY <1>2, <1>3, <1>5 DEF LoadInv

(* A request uses up one of the attempts that were to come. *)
LEMMA RequestKeepsLoad ==
    ASSUME WebhookAssumption, MapInv, LoadInv, NEW s \in Senders, Request(s)
    PROVE  LoadInv'
<1>0. PICK here \in Endpoints : here = endpoint[s]
  BY DEF MapInv, MapTyped
<1>1. /\ pc[s] = "request" /\ attempt[s] \in 1..MaxRetries
      /\ mine[s] = 1 /\ MyBreaker(s) = breaker[here][1]
  BY <1>0 DEF Request, MapInv, MapTyped, Attached, LoadInv, LoadTyped, Attempted,
     MyBreaker, WebhookAssumption
<1>2. /\ UNCHANGED <<breaker, attempt, endpoint>>
      /\ \E p \in {"succeeded", "failed"} : pc' = [pc EXCEPT ![s] = p]
      /\ overrun' = IF Blocking(breaker[here][1])
                    THEN [overrun EXCEPT ![here] = Saturate(@ + 1, OverrunBound)]
                    ELSE overrun
  BY <1>0, <1>1 DEF Request, GoTo
<1>3. OverrunBound \in Nat
  BY AttemptsCount
<1>4. LoadTyped'
  <2>1. Saturate(overrun[here] + 1, OverrunBound) \in Nat
    BY <1>1, <1>3 DEF LoadInv, LoadTyped, Saturate
  <2> QED
    BY <1>2, <2>1 DEF LoadInv, LoadTyped
<1>5. OneInUse' /\ Attempted'
  BY <1>1, <1>2 DEF LoadInv, OneInUse, Attempted, MapInv, MapTyped
<1>6. ASSUME NEW e \in Endpoints PROVE ToCome(e)' \subseteq ToCome(e)
  <2> SUFFICES ASSUME NEW t \in Senders, NEW n \in 1..MaxRetries,
                      endpoint'[t] = e, n \in Remaining(t)'
               PROVE  endpoint[t] = e /\ n \in Remaining(t)
    BY DEF ToCome, Attempts
  <2> QED
    BY <1>1, <1>2 DEF Remaining, MapInv, MapTyped
<1>7. <<s, attempt[s]>> \in ToCome(here) /\ <<s, attempt[s]>> \notin ToCome(here)'
  BY <1>0, <1>1, <1>2 DEF ToCome, Attempts, Remaining, MapInv, MapTyped
<1>8. ASSUME NEW e \in Endpoints PROVE Budgeted(e)'
  <2>1. CASE e = here /\ Blocking(breaker[here][1])
    <3>1. Cardinality(ToCome(here)') < Cardinality(ToCome(here))
      BY <1>1, <1>6, <1>7, ToComeCount, ToComeCountNext, FS_Subset
    <3>2. /\ overrun[here] \in Nat
          /\ overrun[here] + Cardinality(ToCome(here)) < OverrunBound
      BY <1>1, <2>1 DEF LoadInv, LoadTyped, Budgeted
    <3>3. overrun'[here] = overrun[here] + 1
      BY <1>1, <1>2, <1>3, <2>1, <3>2, ToComeCount DEF LoadInv, LoadTyped, Saturate
    <3> QED
      BY <1>2, <1>3, <2>1, <3>1, <3>2, <3>3, ToComeCount, ToComeCountNext DEF Budgeted
  <2>2. CASE e # here /\ Blocking(breaker[e][1])
    <3>1. overrun'[e] = overrun[e] /\ overrun[e] \in Nat
      BY <1>2, <2>2 DEF LoadInv, LoadTyped
    <3>2. Cardinality(ToCome(e)') <= Cardinality(ToCome(e))
      BY <1>6, ToComeCount, FS_Subset
    <3>3. overrun[e] + Cardinality(ToCome(e)) < OverrunBound
      BY <2>2 DEF LoadInv, Budgeted
    <3> QED
      BY <1>2, <1>3, <2>2, <3>1, <3>2, <3>3, ToComeCount, ToComeCountNext DEF Budgeted
  <2>3. CASE ~Blocking(breaker[e][1])
    <3>1. overrun'[e] = overrun[e]
      BY <1>2, <2>3 DEF LoadInv, LoadTyped
    <3> QED
      BY <1>2, <2>3, <3>1 DEF LoadInv, Budgeted
  <2> QED
    BY <2>1, <2>2, <2>3
<1> QED
  BY <1>4, <1>5, <1>8 DEF LoadInv

(* An outcome moves the sender's breaker; one that opens starts to count   *)
(* with at least one attempt, the failed one, already made.                *)
LEMMA OutcomeKeepsLoad ==
    ASSUME WebhookAssumption, BreakerAssumption, MapInv, LoadInv, NEW s \in Senders,
           Succeeded(s) \/ Failed(s)
    PROVE  LoadInv'
<1> DEFINE here == endpoint[s]
           old == breaker[here][1]
<1>1. /\ here \in Endpoints /\ 1 \in Objects /\ mine[s] = 1
      /\ old \in Breaker /\ old.state # "half_open"
  BY FirstObject DEF Succeeded, Failed, MapInv, MapTyped, Attached, LoadInv, LoadTyped,
     OneInUse
<1>2. PICK new \in Breaker :
         /\ breaker' = [breaker EXCEPT ![here][1] = new]
         /\ new.state # "half_open"
         /\ old.state = "open" => (Blocking(new) <=> Blocking(old))
         /\ new.state = "open" /\ old.state # "open" => Failed(s)
  <2>1. CASE Succeeded(s)
    <3>1. /\ RecordSuccess(old) \in Breaker /\ RecordSuccess(old).state = old.state
          /\ RecordSuccess(old).blockedFor = old.blockedFor
      BY <1>1, BreakerSteps
    <3>2. breaker' = [breaker EXCEPT ![here][1] = RecordSuccess(old)]
      BY <1>1, <2>1 DEF Succeeded, SetMyBreaker, MyBreaker
    <3> QED
      BY <1>1, <3>1, <3>2 DEF Blocking
  <2>2. CASE Failed(s)
    <3>1. /\ RecordFailure(old) \in Breaker /\ RecordFailure(old).state # "half_open"
          /\ old.state = "open" => /\ RecordFailure(old).state = old.state
                                   /\ RecordFailure(old).blockedFor = old.blockedFor
      BY <1>1, BreakerSteps
    <3>2. breaker' = [breaker EXCEPT ![here][1] = RecordFailure(old)]
      BY <1>1, <2>2 DEF Failed, SetMyBreaker, MyBreaker
    <3> QED
      BY <1>1, <2>2, <3>1, <3>2 DEF Blocking
  <2> QED
    BY <2>1, <2>2
<1>3. /\ UNCHANGED <<attempt, endpoint, overrun>>
      /\ \/ Succeeded(s) /\ pc' = [pc EXCEPT ![s] = "next"]
         \/ /\ Failed(s) /\ pc[s] = "failed" /\ pc' = [pc EXCEPT ![s] = "next"]
         \/ /\ Failed(s) /\ pc[s] = "failed" /\ pc' = [pc EXCEPT ![s] = "backoff"]
            /\ attempt[s] < MaxRetries
  BY DEF Succeeded, Failed, GoTo, MayRetry
<1>4. LoadTyped'
  BY <1>2, <1>3 DEF LoadInv, LoadTyped
<1>5. OneInUse'
  <2> SUFFICES ASSUME NEW e \in Endpoints, NEW k \in Objects
               PROVE  /\ breaker'[e][k].state # "half_open"
                      /\ k # 1 => breaker'[e][k].state = "closed"
    BY DEF OneInUse
  <2>1. breaker'[e][k] = IF e = here /\ k = 1 THEN new ELSE breaker[e][k]
    BY <1>1, <1>2 DEF LoadInv, LoadTyped
  <2> QED
    BY <1>2, <2>1 DEF LoadInv, OneInUse
<1>6. Attempted'
  BY <1>3 DEF LoadInv, Attempted, MapInv, MapTyped
<1>7. ASSUME NEW e \in Endpoints
      PROVE  ToCome(e)' \subseteq ToCome(e)
  <2> SUFFICES ASSUME NEW t \in Senders, NEW n \in 1..MaxRetries,
                      endpoint'[t] = e, n \in Remaining(t)'
               PROVE  endpoint[t] = e /\ n \in Remaining(t)
    BY DEF ToCome, Attempts
  <2> QED
    BY <1>3 DEF Remaining, MapInv, MapTyped
<1>8. ASSUME NEW e \in Endpoints PROVE Budgeted(e)'
  <2>0. /\ OverrunBound \in Nat /\ overrun'[e] = overrun[e] /\ overrun[e] \in Nat
        /\ Budgeted(e)
    BY <1>3, AttemptsCount DEF LoadInv, LoadTyped
  <2>1. CASE e # here
    <3>1. breaker'[e][1] = breaker[e][1]
      BY <1>1, <1>2, <2>1 DEF LoadInv, LoadTyped
    <3>2. Cardinality(ToCome(e)') <= Cardinality(ToCome(e))
      BY <1>7, ToComeCount, FS_Subset
    <3> QED
      BY <2>0, <3>1, <3>2, ToComeCount, ToComeCountNext DEF Budgeted
  <2>2. CASE e = here /\ old.state = "open"
    <3>1. Blocking(breaker'[e][1]) <=> Blocking(breaker[e][1])
      BY <1>1, <1>2, <2>2 DEF LoadInv, LoadTyped
    <3>2. Cardinality(ToCome(e)') <= Cardinality(ToCome(e))
      BY <1>7, ToComeCount, FS_Subset
    <3> QED
      BY <2>0, <3>1, <3>2, ToComeCount, ToComeCountNext DEF Budgeted
  <2>3. CASE e = here /\ old.state # "open"
    <3>1. breaker'[e][1] = new /\ overrun[e] = 0
      BY <1>1, <1>2, <2>0, <2>3 DEF LoadInv, LoadTyped, Budgeted, Blocking
    <3>2. CASE ~Blocking(new)
      BY <2>0, <3>1, <3>2 DEF Budgeted
    <3>3. CASE Blocking(new)
      <4>1. Failed(s) /\ attempt[s] \in 1..MaxRetries /\ 1 \in 1..MaxRetries
        BY <1>2, <2>3, <3>3 DEF Blocking, Failed, LoadInv, LoadTyped, Attempted,
           WebhookAssumption
      <4>2. <<s, 1>> \in Attempts /\ <<s, 1>> \notin ToCome(e)'
        BY <1>3, <4>1 DEF Attempts, ToCome, Remaining, MapInv, MapTyped
      <4>3. ToCome(e)' \subseteq Attempts
        BY DEF ToCome
      <4>4. Cardinality(ToCome(e)') < OverrunBound
        BY <2>0, <4>2, <4>3, AttemptsCount, ToComeCountNext, FS_Subset
      <4> QED
        BY <2>0, <3>1, <4>4, ToComeCountNext DEF Budgeted
    <3> QED
      BY <3>2, <3>3
  <2> QED
    BY <2>1, <2>2, <2>3
<1> QED
  BY <1>4, <1>5, <1>6, <1>8 DEF LoadInv

(* Time only lets breakers go, and forgets what they were overrun by.      *)
LEMMA TickKeepsLoad ==
    ASSUME WebhookAssumption, BreakerAssumption, MapInv, LoadInv, Tick
    PROVE  LoadInv'
<1>0. 1 \in Objects
  BY FirstObject DEF WebhookAssumption
<1>1. ASSUME NEW e \in Endpoints, NEW k \in Objects
      PROVE  /\ breaker'[e][k] \in Breaker /\ breaker'[e][k].state = breaker[e][k].state
             /\ Blocking(breaker'[e][k]) => k = 1 /\ Blocking(breaker[e][k])
  <2>1. breaker[e][k] \in Breaker /\ breaker[e][k].state # "half_open"
    BY DEF LoadInv, LoadTyped, OneInUse
  <2>2. breaker'[e][k] = Elapse(breaker[e][k])
    BY DEF Tick
  <2>3. k # 1 => breaker[e][k].state = "closed"
    BY DEF LoadInv, OneInUse
  <2> QED
    BY <2>1, <2>2, <2>3, BreakerSteps DEF Blocking
<1>2. LoadTyped'
  <2>1. breaker' \in [Endpoints -> [Objects -> Breaker]]
    BY <1>1 DEF Tick
  <2>2. overrun' \in [Endpoints -> Nat] /\ attempt' = attempt
    BY DEF Tick, LoadInv, LoadTyped
  <2> QED
    BY <2>1, <2>2 DEF LoadInv, LoadTyped
<1>3. OneInUse'
  BY <1>1 DEF LoadInv, OneInUse
<1>4. Attempted'
  BY DEF Tick, LoadInv, Attempted
<1>5. ASSUME NEW e \in Endpoints PROVE Budgeted(e)'
  <2>1. ToCome(e)' = ToCome(e)
    BY DEF Tick, ToCome, Remaining
  <2>2. CASE Blocking(breaker'[e][1])
    <3>1. overrun'[e] = overrun[e]
      BY <1>0, <2>2 DEF Tick
    <3> QED
      BY <1>0, <1>1, <2>1, <2>2, <3>1 DEF LoadInv, Budgeted
  <2>3. CASE ~Blocking(breaker'[e][1])
    <3>1. \A k \in Objects : ~Blocking(breaker'[e][k])
      BY <1>1, <2>3
    <3>2. overrun'[e] = 0
      BY <3>1 DEF Tick
    <3> QED
      BY <2>3, <3>2 DEF Budgeted
  <2> QED
    BY <2>2, <2>3
<1> QED
  BY <1>2, <1>3, <1>4, <1>5 DEF LoadInv

LEMMA LoadKept ==
    WebhookAssumption /\ BreakerAssumption /\ MapInv /\ LoadInv /\ [Next]_vars => LoadInv'
<1> SUFFICES ASSUME WebhookAssumption, BreakerAssumption, MapInv, LoadInv, [Next]_vars
             PROVE  LoadInv'
  OBVIOUS
<1>1. CASE UNCHANGED vars
  BY <1>1 DEF vars, LoadInv, LoadTyped, OneInUse, Attempted, Budgeted, ToCome, Remaining
<1>2. ASSUME NEW s \in Senders, StartSend(s) \/ SenderStep(s) \/ Cancel(s)
      PROVE  LoadInv'
  BY <1>2, QuietStep, RequestKeepsLoad, OutcomeKeepsLoad DEF SenderStep
<1> QED
  BY <1>1, <1>2, TickKeepsLoad DEF Next

(* Retries and other senders' admitted requests still reach an endpoint    *)
(* whose breaker has begun to block, but fewer than one full round of      *)
(* every sender does.                                                      *)
THEOREM OverrunsAreBounded == Spec => []OverrunBounded
<1> USE WebhookAssumption, BreakerAssumption
<1>1. Init => MapInv /\ LoadInv
  BY MapInit, LoadInit
<1>2. MapInv /\ LoadInv /\ [Next]_vars => MapInv' /\ LoadInv'
  BY MapKept, LoadKept
<1>3. LoadInv => OverrunBounded
  <2> SUFFICES ASSUME LoadInv, NEW e \in Endpoints PROVE overrun[e] < OverrunBound
    BY DEF OverrunBounded
  <2>1. overrun[e] \in Nat /\ Budgeted(e)
    BY DEF LoadInv, LoadTyped
  <2> QED
    BY <2>1, AttemptsCount, ToComeCount DEF Budgeted
<1> QED
  BY <1>1, <1>2, <1>3, PTL DEF Spec

=============================================================================
