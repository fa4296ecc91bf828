----------------------------- MODULE IncidentAPI -----------------------------
(***************************************************************************)
(* The HTTP handlers (internal/api/handlers/incident_handler.go) over the  *)
(* incident service: a request is one or more service calls with the       *)
(* client's context, and the answer is decided by the errors they return.  *)
(* Every step is a step of the service or leaves its state alone.          *)
(***************************************************************************)
EXTENDS IncidentService

CONSTANTS NoAnswer,     \* a client that has not been answered yet
          Wanted        \* bound: the statuses that requests ask for

VARIABLES http,         \* the request each client has in progress
          answer,       \* the last answer each client received
          writer        \* history: the client whose update is stored, by ID

apiVars == <<http, answer, writer>>
allVars == <<vars, apiVars>>

(* What a request asks for.  A comment is stored as an event, which needs  *)
(* an actor; the API leaves the actor optional.                            *)
Route == {"create", "patch", "event"}
Comment == {"none", "signed", "anonymous"}

(* stage: in the service call, or past it and about to record the comment, *)
(* or about to read the incident back.  stored is history: the update of   *)
(* this request has taken effect.                                          *)
HTTPRequest == [route : Route, id : Ids, want : Status, comment : Comment,
                stage : {"service", "comment", "read"},
                cancelled : BOOLEAN, stored : BOOLEAN]

ASSUME APIAssumption ==
    /\ Wanted \subseteq Status
    /\ NoRequest \notin Clients /\ NoRequest \notin HTTPRequest

(* An answer to a request that asked for status want, and the status it    *)
(* shows.  The rest is history: the update took effect, the client had     *)
(* gone away, another client's update lay between.                         *)
HTTPAnswer == [code : {200, 201, 404, 408, 409, 500}, id : Ids,
               want : Status, seen : Status,
               stored : BOOLEAN, cancelled : BOOLEAN, overwritten : BOOLEAN]

APITypeOK ==
    /\ http \in [Clients -> HTTPRequest \cup {NoRequest}]
    /\ answer \in [Clients -> HTTPAnswer \cup {NoAnswer}]
    /\ writer \in [Ids -> Clients \cup {NoRequest}]

APIInit ==
    /\ Init
    /\ http = [c \in Clients |-> NoRequest]
    /\ answer = [c \in Clients |-> NoAnswer]
    /\ writer = [id \in Ids |-> NoRequest]

Free(c) == http[c] = NoRequest /\ pc[c] = "idle"

(* The service call of client c's request has returned. *)
Returned(c) == http[c] # NoRequest /\ pc[c] = "idle"

At(c, stage) == Returned(c) /\ http[c].stage = stage

-----------------------------------------------------------------------------

(* A request reaches its handler, passes validation and makes its first    *)
(* service call.                                                           *)
Accept(c, route, id, want, comment) ==
    /\ http' = [http EXCEPT ![c] =
                  [route |-> route, id |-> id, want |-> want, comment |-> comment,
                   stage |-> "service", cancelled |-> FALSE, stored |-> FALSE]]
    /\ answer' = [answer EXCEPT ![c] = NoAnswer]
    /\ UNCHANGED writer

Respond(c, code, seen, cancelled) ==
    /\ answer' = [answer EXCEPT ![c] =
                    [code |-> code, id |-> http[c].id, want |-> http[c].want,
                     seen |-> seen, stored |-> http[c].stored,
                     cancelled |-> cancelled,
                     overwritten |-> http[c].stored /\ writer[http[c].id] # c]]
    /\ http' = [http EXCEPT ![c] = NoRequest]
    /\ UNCHANGED writer

Move(c, stage) ==
    /\ http' = [http EXCEPT ![c].stage = stage]
    /\ UNCHANGED <<answer, writer>>

(* handleServiceError compares with ==.  The repository's errors arrive as *)
(* they are; a refused transition arrives wrapped and is answered 500.     *)
ErrorCode(r) ==
    CASE r = "not_found"      -> 404
      [] r = "already_exists" -> 409
      [] r = "context"        -> 408
      [] OTHER                -> 500

-----------------------------------------------------------------------------
(* Handlers.                                                               *)

(* The description, service and labels of the request are set on the       *)
(* answered copy only and appear nowhere else.                             *)
HandleCreateIncident(c) ==
    /\ Free(c)
    /\ CreateIncident(c)
    /\ Accept(c, "create", local'[c].object.id, "triggered", "none")

HandleUpdateStatus(c, id, status, comment) ==
    /\ Free(c)
    /\ UpdateStatus(c, id, status)
    /\ Accept(c, "patch", id, status, comment)

HandleAddEvent(c, id) ==
    /\ Free(c)
    /\ RecordCustomEvent(c, id)
    /\ Accept(c, "event", id, "triggered", "signed")

(* A request that is answered without effect: an event without an actor    *)
(* fails its validation in RecordEvent and the wrapped error is answered   *)
(* 500; a client that has gone away fails the first call.  (Bound: none    *)
(* comes after the last operation.)                                        *)
HandleWithoutEffect(c, id, code) ==
    /\ Free(c) /\ nextOp < MaxOps
    /\ answer' = [answer EXCEPT ![c] =
                    [code |-> code, id |-> id, want |-> "triggered", seen |-> "triggered",
                     stored |-> FALSE, cancelled |-> code = 408, overwritten |-> FALSE]]
    /\ UNCHANGED <<vars, http, writer>>

(* The service part of a request goes on while its context is alive; the   *)
(* history notes whose update the repository took.                         *)
ServiceStep(c) ==
    /\ http[c] # NoRequest /\ ~http[c].cancelled
    /\ \/ CreateStore(c) \/ CreateEvent(c) \/ StatusEvent(c) \/ RecordStore(c)
    /\ UNCHANGED apiVars

ServiceUpdate(c) ==
    /\ http[c] # NoRequest /\ ~http[c].cancelled
    /\ StatusUpdate(c)
    /\ IF pc'[c] = "status_event"
       THEN /\ http' = [http EXCEPT ![c].stored = TRUE]
            /\ writer' = [writer EXCEPT ![http[c].id] = c]
       ELSE UNCHANGED <<http, writer>>
    /\ UNCHANGED answer

(* The client has gone away: the next call that checks the context finds   *)
(* it done, and every later call of the request does too.                  *)
CallFails(c) ==
    /\ http[c] # NoRequest
    /\ ContextDone(c)
    /\ http' = [http EXCEPT ![c].cancelled = TRUE]
    /\ UNCHANGED <<answer, writer>>

(* CreateIncident and AddEvent answer as soon as the service returns. *)
AnswerCall(c) ==
    /\ At(c, "service") /\ http[c].route # "patch"
    /\ Respond(c, IF result[c] = "ok" THEN 201 ELSE ErrorCode(result[c]),
               "triggered", http[c].cancelled)
    /\ UNCHANGED vars

(* Mutant: the error of the service's UpdateStatus is ignored. *)
AfterUpdateIgnoringError(c) ==
    /\ At(c, "service") /\ http[c].route = "patch"
    /\ Move(c, IF http[c].comment = "none" THEN "read" ELSE "comment")
    /\ UNCHANGED vars

(* UpdateStatus: an error ends the request, otherwise the comment is next. *)
AfterUpdate(c) ==
    /\ At(c, "service") /\ http[c].route = "patch"
    /\ IF result[c] = "ok"
       THEN Move(c, IF http[c].comment = "none" THEN "read" ELSE "comment")
       ELSE Respond(c, ErrorCode(result[c]), http[c].want, http[c].cancelled)
    /\ UNCHANGED vars

(* RecordEvent of the comment: it is stored, lacks an actor, or finds the  *)
(* context done, which is remembered.                                      *)
CommentStored(c) ==
    /\ ~http[c].cancelled /\ http[c].comment = "signed"
    /\ RecordCustomEvent(c, http[c].id)
    /\ Move(c, "read")

CommentAbandoned(c) ==
    /\ UNCHANGED <<vars, answer, writer>>
    /\ http' = [http EXCEPT ![c].cancelled = TRUE, ![c].stage = "read"]

(* Mutant: a comment that cannot be recorded fails the request. *)
RecordCommentOrFail(c) ==
    /\ At(c, "comment")
    /\ \/ CommentStored(c)
       \/ /\ http[c].comment = "anonymous"
          /\ Respond(c, 500, http[c].want, FALSE)
          /\ UNCHANGED vars
       \/ CommentAbandoned(c)

(* Whatever becomes of the comment, the request goes on. *)
RecordComment(c) ==
    /\ At(c, "comment")
    /\ \/ CommentStored(c)
       \/ http[c].comment = "anonymous" /\ Move(c, "read") /\ UNCHANGED vars
       \/ CommentAbandoned(c)

(* UpdateStatus answers with what a second read finds.                     *)
ReadBack(c) ==
    /\ At(c, "read")
    /\ \/ Respond(c, 408, http[c].want, TRUE)
       \/ /\ ~http[c].cancelled /\ ~Exists(http[c].id)
          /\ Respond(c, 404, http[c].want, FALSE)
       \/ /\ ~http[c].cancelled /\ Exists(http[c].id)
          /\ Respond(c, 200, incidents[http[c].id].status, FALSE)
    /\ UNCHANGED vars

(* Deletions come from outside the API. *)
DeleteElsewhere(c, id) ==
    /\ Free(c)
    /\ DeleteIncident(c, id)
    /\ UNCHANGED apiVars

(* No handler reads the clock, so the year stands still here. *)
APINext ==
    \/ \E c \in Clients :
          \/ HandleCreateIncident(c)
          \/ ServiceStep(c) \/ ServiceUpdate(c)
          \/ CallFails(c)
          \/ AnswerCall(c) \/ AfterUpdate(c) \/ RecordComment(c) \/ ReadBack(c)
          \/ \E id \in Ids :
                \/ \E status \in Wanted, comment \in Comment :
                      HandleUpdateStatus(c, id, status, comment)
                \/ HandleAddEvent(c, id) \/ \E code \in {408, 500} : HandleWithoutEffect(c, id, code)
                \/ DeleteElsewhere(c, id)

APISpec == APIInit /\ [][APINext]_allVars

-----------------------------------------------------------------------------
(* Properties *)

(* PATCH .../status answered 200: the update of this very request was      *)
(* stored, and the status shown is the one asked for unless another client *)
(* changed it in between.                                                  *)
SuccessIsStored ==
    \A c \in Clients : answer[c] # NoAnswer /\ answer[c].code = 200 =>
        /\ answer[c].stored
        /\ answer[c].seen = answer[c].want \/ answer[c].overwritten

(* An error answer after the update took effect (the comment and the read  *)
(* come later) is given only to a client that has gone away, or for an     *)
(* incident that no longer exists; it never hides a change that can still  *)
(* be seen from a client that is waiting.                                  *)
FailureIsHonest ==
    \A c \in Clients :
        /\ answer[c] # NoAnswer /\ answer[c].code \notin {200, 201}
        /\ answer[c].stored
        => \/ answer[c].cancelled
           \/ answer[c].code = 404 /\ ~Exists(answer[c].id)

-----------------------------------------------------------------------------
(* The inductive invariant behind them, beside IInv of the service.        *)

(* Where a PATCH is in its service call, and what that says of its update. *)
InUpdate(c) ==
    \/ /\ pc[c] = "status" /\ ~http[c].stored
       /\ local[c].object.id = http[c].id
       /\ local[c].object.status = http[c].want
    \/ pc[c] = "status_event" /\ http[c].stored
    \/ pc[c] = "idle" /\ (http[c].stored <=> result[c] = "ok")

(* The service is busy for a client only on behalf of its request, and a   *)
(* request past its first call is a PATCH whose update took effect.        *)
RequestsTracked ==
    \A c \in Clients :
        IF http[c] = NoRequest THEN pc[c] = "idle"
        ELSE \/ http[c].route = "patch" /\ http[c].stage = "service" /\ InUpdate(c)
             \/ /\ http[c].route = "patch" /\ http[c].stage # "service"
                /\ http[c].stored /\ pc[c] \in {"idle", "record"}
             \/ /\ http[c].route # "patch" /\ http[c].stage = "service"
                /\ ~http[c].stored /\ pc[c] \notin {"status", "status_event"}

(* An incident that was ever written is no longer one to be created. *)
WrittenExisted ==
    /\ \A id \in Ids : writer[id] # NoRequest =>
          /\ id \in used
          /\ \A d \in Clients : pc[d] = "create" => local[d].object.id # id
    /\ \A c \in Clients : http[c] # NoRequest /\ http[c].stored =>
          writer[http[c].id] # NoRequest
    /\ \A c \in Clients : answer[c] # NoAnswer /\ answer[c].stored =>
          writer[answer[c].id] # NoRequest

(* Until another client writes, an incident shows what its writer asked.   *)
WriterSeen ==
    \A c \in Clients :
        LET h == http[c] IN
        h # NoRequest /\ h.stored /\ writer[h.id] = c /\ Exists(h.id) =>
           incidents[h.id].status = h.want

APIInv ==
    /\ APITypeOK /\ RequestsTracked /\ WrittenExisted /\ WriterSeen
    /\ SuccessIsStored /\ FailureIsHonest

=============================================================================
