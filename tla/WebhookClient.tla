---------------------------- MODULE WebhookClient ----------------------------
(***************************************************************************)
(* Webhook delivery, internal/notification/webhook/client.go: several      *)
(* senders (the notification workers) run SendNotification over the same   *)
(* client and share one circuit breaker per endpoint.  A request is        *)
(* answered 2xx or it fails: any other answer, no answer within the        *)
(* client's timeout, an answer that is lost, or a cancelled context.       *)
(***************************************************************************)
EXTENDS CircuitBreaker, FiniteSets, Sequences

CONSTANTS Senders,        \* goroutines that call SendNotification
          MaxEndpoints,   \* bound: length of the configured list of webhooks
          MaxRetries      \* attempts per endpoint (webhook.MaxRetries, default 3)

ASSUME WebhookAssumption ==
    /\ IsFiniteSet(Senders) /\ Senders # {}
    /\ MaxEndpoints \in Nat \ {0}
    /\ MaxRetries \in 1..35    \* the back-off fits a time.Duration

Endpoints == 1..MaxEndpoints

(* The configured webhooks, each enabled or not, with distinct URLs.       *)
WebhookLists == UNION {[1..n -> BOOLEAN] : n \in 0..MaxEndpoints}

(* Breaker objects an endpoint could be given; the map keeps one of them.  *)
Objects == 1..Cardinality(Senders)

VARIABLES webhooks,     \* the list each call is given, enabled flags by position
          registered,   \* circuitBreakers: the object in the map, 0 for none
          breaker,      \* the breaker objects
          pc, endpoint, \* control and loop position of each sender
          mine,         \* the breaker object sendToEndpoint got
          attempt,      \* retry counter
          backoff,      \* ticks left of the sender's back-off
          cancelled,    \* the sender's context is done
          delivered,    \* endpoints whose 2xx answer this SendNotification heard
          successCount, failed,   \* the locals successCount and lastErr # nil
          returned,     \* outcome of the last SendNotification
          overrun       \* history: requests begun while the breaker blocks,
                        \* since it began to

senderVars == <<pc, endpoint, mine, attempt, backoff, cancelled, delivered,
                successCount, failed, returned>>
vars == <<webhooks, registered, breaker, pc, endpoint, mine, attempt, backoff,
          cancelled, delivered, successCount, failed, returned, overrun>>

PC == {"idle", "lookup", "create", "check", "request", "succeeded", "failed",
       "backoff", "next"}

BackoffOf(n) == 2 ^ (n - 1)    \* 1<<(attempt-1) seconds
MaxBackoff == BackoffOf(MaxRetries)

(* A bound no behaviour reaches: each sender is admitted at most once      *)
(* before the breaker blocks and makes at most MaxRetries requests.        *)
OverrunBound == Cardinality(Senders) * MaxRetries

TypeOK ==
    /\ webhooks \in WebhookLists
    /\ registered \in [Endpoints -> {0} \cup Objects]
    /\ breaker \in [Endpoints -> [Objects -> Breaker]]
    /\ pc \in [Senders -> PC]
    /\ endpoint \in [Senders -> Endpoints]
    /\ mine \in [Senders -> {0} \cup Objects]
    /\ attempt \in [Senders -> 0..MaxRetries]
    /\ backoff \in [Senders -> 0..MaxBackoff]
    /\ cancelled \in [Senders -> BOOLEAN]
    /\ delivered \in [Senders -> SUBSET Endpoints]
    /\ successCount \in [Senders -> 0..MaxEndpoints]
    /\ failed \in [Senders -> BOOLEAN]
    /\ returned \in [Senders -> {"none", "nil", "error"}]
    /\ overrun \in [Endpoints -> 0..OverrunBound]

Init ==
    /\ webhooks \in WebhookLists
    /\ registered = [e \in Endpoints |-> 0]
    /\ breaker = [e \in Endpoints |-> [k \in Objects |-> NewCircuitBreaker]]
    /\ pc = [s \in Senders |-> "idle"]
    /\ endpoint = [s \in Senders |-> 1]
    /\ mine = [s \in Senders |-> 0]
    /\ attempt = [s \in Senders |-> 0]
    /\ backoff = [s \in Senders |-> 0]
    /\ cancelled = [s \in Senders |-> FALSE]
    /\ delivered = [s \in Senders |-> {}]
    /\ successCount = [s \in Senders |-> 0]
    /\ failed = [s \in Senders |-> FALSE]
    /\ returned = [s \in Senders |-> "none"]
    /\ overrun = [e \in Endpoints |-> 0]

-----------------------------------------------------------------------------

GoTo(s, p) == pc' = [pc EXCEPT ![s] = p]

MyBreaker(s) == breaker[endpoint[s]][mine[s]]

SetMyBreaker(s, b) == breaker' = [breaker EXCEPT ![endpoint[s]][mine[s]] = b]

(* The loop comes to endpoint e, and skips it when it is disabled.         *)
TurnTo(s, e) == GoTo(s, IF webhooks[e] THEN "lookup" ELSE "next")

(* An empty list is answered at once (the service does not even call). *)
StartSend(s) ==
    /\ pc[s] = "idle"
    /\ delivered' = [delivered EXCEPT ![s] = {}]
    /\ \/ /\ webhooks = <<>>
          /\ returned' = [returned EXCEPT ![s] = "nil"]
          /\ UNCHANGED pc
       \/ /\ webhooks # <<>>
          /\ returned' = [returned EXCEPT ![s] = "none"]
          /\ TurnTo(s, 1)
    /\ UNCHANGED <<webhooks, registered, breaker, endpoint, mine, attempt, backoff, cancelled,
                   successCount, failed, overrun>>

(* getCircuitBreaker: a read under RLock, then create under Lock with a    *)
(* second look at the map.                                                 *)
Lookup(s) ==
    /\ pc[s] = "lookup"
    /\ mine' = [mine EXCEPT ![s] = registered[endpoint[s]]]
    /\ GoTo(s, IF registered[endpoint[s]] = 0 THEN "create" ELSE "check")
    /\ UNCHANGED <<registered, breaker, endpoint, attempt, backoff, cancelled,
                   delivered, successCount, failed, returned, overrun>>

(* Mutant: the map is not looked at again under the write lock. *)
CreateUnchecked(s) ==
    LET e == endpoint[s]
        k == registered[e] + 1
    IN
    /\ pc[s] = "create"
    /\ registered' = [registered EXCEPT ![e] = k]
    /\ mine' = [mine EXCEPT ![s] = k]
    /\ GoTo(s, "check")
    /\ UNCHANGED <<breaker, endpoint, attempt, backoff, cancelled,
                   delivered, successCount, failed, returned, overrun>>

CreateBreaker(s) ==
    LET e == endpoint[s]
        k == IF registered[e] = 0 THEN 1 ELSE registered[e]
    IN
    /\ pc[s] = "create"
    /\ registered' = [registered EXCEPT ![e] = k]
    /\ mine' = [mine EXCEPT ![s] = k]
    /\ GoTo(s, "check")
    /\ UNCHANGED <<breaker, endpoint, attempt, backoff, cancelled,
                   delivered, successCount, failed, returned, overrun>>

(* The breaker is consulted once per endpoint, before the retry loop. *)
Check(s) ==
    /\ pc[s] = "check"
    /\ \/ /\ CanExecute(MyBreaker(s))
          /\ attempt' = [attempt EXCEPT ![s] = 1]
          /\ GoTo(s, "request")
          /\ UNCHANGED failed
       \/ /\ ~CanExecute(MyBreaker(s))
          /\ failed' = [failed EXCEPT ![s] = TRUE]
          /\ GoTo(s, "next")
          /\ UNCHANGED attempt
    /\ UNCHANGED <<registered, breaker, endpoint, mine, backoff, cancelled,
                   delivered, successCount, returned, overrun>>

(* executeWebhookRequest, under the sender's context. *)
Request(s) ==
    LET e == endpoint[s] IN
    /\ pc[s] = "request"
    /\ \/ /\ ~cancelled[s]
          /\ GoTo(s, "succeeded")
          /\ delivered' = [delivered EXCEPT ![s] = @ \cup {e}]
       \/ /\ GoTo(s, "failed")
          /\ UNCHANGED delivered
    /\ overrun' = IF Blocking(MyBreaker(s))
                  THEN [overrun EXCEPT ![e] = Saturate(@ + 1, OverrunBound)]
                  ELSE overrun
    /\ UNCHANGED <<registered, breaker, endpoint, mine, attempt, backoff,
                   cancelled, successCount, failed, returned>>

Succeeded(s) ==
    /\ pc[s] = "succeeded"
    /\ SetMyBreaker(s, RecordSuccess(MyBreaker(s)))
    /\ successCount' = [successCount EXCEPT ![s] = @ + 1]
    /\ GoTo(s, "next")
    /\ UNCHANGED <<registered, endpoint, mine, attempt, backoff, cancelled,
                   delivered, failed, returned, overrun>>

MayRetry(s) == attempt[s] < MaxRetries

Failed(s) ==
    /\ pc[s] = "failed"
    /\ SetMyBreaker(s, RecordFailure(MyBreaker(s)))
    /\ \/ /\ MayRetry(s)
          /\ backoff' = [backoff EXCEPT ![s] = BackoffOf(attempt[s])]
          /\ GoTo(s, "backoff")
          /\ UNCHANGED failed
       \/ /\ ~MayRetry(s)
          /\ failed' = [failed EXCEPT ![s] = TRUE]
          /\ GoTo(s, "next")
          /\ UNCHANGED backoff
    /\ UNCHANGED <<registered, endpoint, mine, attempt, cancelled, delivered,
                   successCount, returned, overrun>>

(* Mutant: the retry does not count. *)
BackoffOverSameAttempt(s) ==
    /\ pc[s] = "backoff" /\ backoff[s] = 0
    /\ GoTo(s, "request")
    /\ UNCHANGED <<registered, breaker, endpoint, mine, attempt, backoff,
                   cancelled, delivered, successCount, failed, returned, overrun>>

(* The back-off ends, or the context does; when both are ready select      *)
(* takes either.                                                           *)
BackoffOver(s) ==
    /\ pc[s] = "backoff" /\ backoff[s] = 0
    /\ attempt' = [attempt EXCEPT ![s] = @ + 1]
    /\ GoTo(s, "request")
    /\ UNCHANGED <<registered, breaker, endpoint, mine, backoff, cancelled,
                   delivered, successCount, failed, returned, overrun>>

BackoffCancelled(s) ==
    /\ pc[s] = "backoff" /\ cancelled[s]
    /\ failed' = [failed EXCEPT ![s] = TRUE]
    /\ backoff' = [backoff EXCEPT ![s] = 0]
    /\ GoTo(s, "next")
    /\ UNCHANGED <<registered, breaker, endpoint, mine, attempt, cancelled,
                   delivered, successCount, returned, overrun>>

(* Mutant: any endpoint's error fails the whole notification. *)
OutcomeAny(s) == IF failed[s] THEN "error" ELSE "nil"

(* An error only when no endpoint succeeded and one failed. *)
Outcome(s) == IF successCount[s] = 0 /\ failed[s] THEN "error" ELSE "nil"

(* The loop goes on, or SendNotification returns and its locals are gone.  *)
NextEndpoint(s) ==
    /\ pc[s] = "next"
    /\ attempt' = [attempt EXCEPT ![s] = 0]
    /\ mine' = [mine EXCEPT ![s] = 0]
    /\ \/ /\ endpoint[s] < Len(webhooks)
          /\ endpoint' = [endpoint EXCEPT ![s] = @ + 1]
          /\ TurnTo(s, endpoint[s] + 1)
          /\ UNCHANGED <<cancelled, successCount, failed, returned>>
       \/ /\ endpoint[s] = Len(webhooks)
          /\ returned' = [returned EXCEPT ![s] = Outcome(s)]
          /\ GoTo(s, "idle")
          /\ endpoint' = [endpoint EXCEPT ![s] = 1]
          /\ successCount' = [successCount EXCEPT ![s] = 0]
          /\ failed' = [failed EXCEPT ![s] = FALSE]
          /\ cancelled' = [cancelled EXCEPT ![s] = FALSE]
    /\ UNCHANGED <<registered, breaker, backoff, delivered, overrun>>

-----------------------------------------------------------------------------
(* Environment: time and contexts.                                         *)

Tick ==
    /\ breaker' = [e \in Endpoints |-> [k \in Objects |-> Elapse(breaker[e][k])]]
    /\ backoff' = [s \in Senders |-> IF backoff[s] > 0 THEN backoff[s] - 1 ELSE 0]
    /\ <<breaker', backoff'>> # <<breaker, backoff>>
    /\ overrun' = [e \in Endpoints |->
          IF \E k \in Objects : Blocking(breaker'[e][k]) THEN overrun[e] ELSE 0]
    /\ UNCHANGED <<webhooks, registered, pc, endpoint, mine, attempt, cancelled,
                   delivered, successCount, failed, returned>>

Cancel(s) ==
    /\ pc[s] # "idle" /\ ~cancelled[s]
    /\ cancelled' = [cancelled EXCEPT ![s] = TRUE]
    /\ UNCHANGED <<webhooks, registered, breaker, pc, endpoint, mine, attempt, backoff,
                   delivered, successCount, failed, returned, overrun>>

SenderStep(s) ==
    /\ \/ Lookup(s) \/ CreateBreaker(s) \/ Check(s) \/ Request(s) \/ Succeeded(s)
       \/ Failed(s) \/ BackoffOver(s) \/ BackoffCancelled(s) \/ NextEndpoint(s)
    /\ UNCHANGED webhooks

Next ==
    \/ \E s \in Senders : StartSend(s) \/ SenderStep(s) \/ Cancel(s)
    \/ Tick

(* A goroutine that can run does, and time passes. *)
Fairness == WF_vars(Tick) /\ \A s \in Senders : WF_vars(SenderStep(s))

Spec == Init /\ [][Next]_vars /\ Fairness

-----------------------------------------------------------------------------
(* Properties                                                              *)

(* All senders at work on an endpoint hold the breaker that is in the map: *)
(* getCircuitBreaker's two lock sections never hand out a second object.   *)
SharedBreaker ==
    \A s \in Senders :
        pc[s] \in {"check", "request", "succeeded", "failed", "backoff"}
        => mine[s] = registered[endpoint[s]]

(* The breaker is asked once per endpoint, so retries and other senders'   *)
(* admitted requests still reach an endpoint it has started to block; but  *)
(* fewer than one full round of every sender does.                         *)
OverrunBounded == \A e \in Endpoints : overrun[e] < OverrunBound

SomeEnabled == \E e \in DOMAIN webhooks : webhooks[e]

(* SendNotification returns an error exactly when it had an endpoint to    *)
(* notify and none took the notification, through retries, cancellation    *)
(* and blocked breakers; nothing to notify is no error.                    *)
ErrorMeansUndelivered ==
    \A s \in Senders : returned[s] # "none" =>
        (returned[s] = "error" <=> SomeEnabled /\ delivered[s] = {})

(* Every SendNotification returns: the retry loop and its back-off end.    *)
SendReturns == \A s \in Senders : pc[s] # "idle" ~> pc[s] = "idle"

=============================================================================
