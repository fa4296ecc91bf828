--------------------------- MODULE IncidentService ---------------------------
(***************************************************************************)
(* IncidentService (internal/core/services/incident_service.go) over the   *)
(* in-memory repository, called by concurrent clients: one goroutine per   *)
(* HTTP request, or the telemetry handler.  A repository call is one step; *)
(* between two calls of one operation the other clients run, while this    *)
(* one holds the object its Get returned.  The wall clock may be stepped   *)
(* back at any time: whether an update's stamp lies behind the creation's  *)
(* is free in every update.                                                *)
(***************************************************************************)
EXTENDS IncidentRepository

CONSTANTS Clients,      \* concurrent callers
          Kinds,        \* the operations they issue, a subset of AllKinds
          MaxOps,       \* bound: requests issued in a behaviour
          FirstYear,    \* year of the wall clock at start
          MaxYear,      \* bound: last year the clock reaches
          NoRequest     \* a client with no request in progress

AllKinds == {"create", "status", "responder", "event", "delete"}

ASSUME ServiceAssumption ==
    /\ Kinds \subseteq AllKinds
    /\ MaxOps \in Nat
    /\ FirstYear \in Nat /\ MaxYear \in Nat

VARIABLES year,      \* wall-clock year
          counter,   \* incidentCounter: the year and the last sequence used
          used,      \* UUIDs already generated
          nextOp,    \* number of requests issued so far
          pc,        \* where each client is in its operation
          local,     \* its request: target, number and the object it holds
          result     \* outcome of its last finished operation

serviceVars == <<year, counter, used, nextOp, pc, local, result>>
vars == <<incidents, events, year, counter, used, nextOp, pc, local, result>>

PC == {"idle", "create", "create_event", "status", "status_event",
       "responder", "responder_event", "record"}

Result == {"none", "ok", "not_found", "conflict", "invalid_input",
           "already_exists", "context"}

Request == [op : Nat, object : Object]

TypeOK ==
    /\ incidents \in [Ids -> Incident \cup {NoIncident}]
    /\ events \in [Ids -> Seq(Event)]
    /\ year \in Nat
    /\ counter \in [year : Nat, sequence : Nat]
    /\ used \subseteq Ids
    /\ nextOp \in Nat
    /\ pc \in [Clients -> PC]
    /\ local \in [Clients -> Request \cup {NoRequest}]
    /\ result \in [Clients -> Result]

Init ==
    /\ RepoInit
    /\ year = FirstYear
    /\ counter = [year |-> FirstYear, sequence |-> 0]
    /\ used = {}
    /\ nextOp = 0
    /\ pc = [c \in Clients |-> "idle"]
    /\ local = [c \in Clients |-> NoRequest]
    /\ result = [c \in Clients |-> "none"]

-----------------------------------------------------------------------------

(* Client c enters a new operation at control point p, holding object o. *)
Begin(c, p, o) ==
    /\ nextOp' = nextOp + 1
    /\ pc' = [pc EXCEPT ![c] = p]
    /\ local' = [local EXCEPT ![c] = [op |-> nextOp, object |-> o]]
    /\ UNCHANGED result

(* An operation that is answered by its first repository call. *)
Answer(c, r) ==
    /\ nextOp' = nextOp + 1
    /\ result' = [result EXCEPT ![c] = r]
    /\ UNCHANGED <<pc, local>>

GoTo(c, p) ==
    /\ pc' = [pc EXCEPT ![c] = p]
    /\ UNCHANGED <<nextOp, local, result>>

Finish(c, r) ==
    /\ pc' = [pc EXCEPT ![c] = "idle"]
    /\ local' = [local EXCEPT ![c] = NoRequest]
    /\ result' = [result EXCEPT ![c] = r]
    /\ UNCHANGED nextOp

MayIssue(c, kind) == pc[c] = "idle" /\ kind \in Kinds /\ nextOp < MaxOps

(* Mutant: the event is built without an ID. *)
EventWithoutID(c, source, to) ==
    [incident |-> local[c].object.id, source |-> source, to |-> to]

EventOf(c, source, to) ==
    [incident |-> local[c].object.id, source |-> source, to |-> to,
     op |-> local[c].op]

(* A repository call whose error the service reports.                      *)
Fails(c, r) == Finish(c, r) /\ UNCHANGED repoVars

(* generateHumanReadableID: the sequence restarts in a new year. *)
NextHumanID ==
    [year |-> year,
     seq |-> (IF year # counter.year THEN 0 ELSE counter.sequence) + 1]

(* Mutant: the year of the counter is never updated. *)
CountHumanIDSameYear ==
    counter' = [counter EXCEPT !.sequence = NextHumanID.seq]

CountHumanID ==
    counter' = [year |-> year, sequence |-> NextHumanID.seq]

-----------------------------------------------------------------------------
(* CreateIncident: identifiers first, then repo.Create, then the creation  *)
(* event, whose failure is only logged.                                    *)

CreateIncident(c) ==
    /\ MayIssue(c, "create")
    /\ \E id \in Ids \ used :
          /\ used' = used \cup {id}
          /\ Begin(c, "create", NewIncident(id, NextHumanID))
    /\ CountHumanID
    /\ UNCHANGED <<incidents, events, year>>

CreateStore(c) ==
    /\ pc[c] = "create"
    /\ \/ Create(local[c].object) /\ GoTo(c, "create_event")
       \/ ~Validate(local[c].object) /\ Fails(c, "invalid_input")
       \/ /\ Validate(local[c].object) /\ Exists(local[c].object.id)
          /\ Fails(c, "already_exists")
    /\ UNCHANGED <<year, counter, used>>

(* The event step shared by CreateIncident, UpdateStatus and AddResponder: *)
(* the operation reports success whether or not the event was stored.      *)
AddServiceEvent(c, source, to) ==
    /\ \/ AddEvent(EventOf(c, source, to))
       \/ ~Exists(local[c].object.id) /\ UNCHANGED repoVars
    /\ Finish(c, "ok")
    /\ UNCHANGED <<year, counter, used>>

CreateEvent(c) ==
    /\ pc[c] = "create_event"
    /\ AddServiceEvent(c, "incident_created", "triggered")

-----------------------------------------------------------------------------
(* UpdateStatus: Get, check and transition the copy, Update, AddEvent.     *)

(* Mutant: the transition is applied unchecked. *)
UpdateStatusUnchecked(c, id, status) ==
    /\ MayIssue(c, "status")
    /\ \/ ~Exists(id) /\ Answer(c, "not_found")
       \/ /\ Exists(id)
          /\ \E behind \in BOOLEAN :
                Begin(c, "status", TransitionTo(Get(id), status, nextOp, behind))
    /\ UNCHANGED <<incidents, events, year, counter, used>>

UpdateStatus(c, id, status) ==
    /\ MayIssue(c, "status")
    /\ \/ ~Exists(id) /\ Answer(c, "not_found")
       \/ /\ Exists(id) /\ ~CanTransitionTo(incidents[id].status, status)
          /\ Answer(c, "conflict")
       \/ /\ Exists(id) /\ CanTransitionTo(incidents[id].status, status)
          /\ \E behind \in BOOLEAN :
                Begin(c, "status", TransitionTo(Get(id), status, nextOp, behind))
    /\ UNCHANGED <<incidents, events, year, counter, used>>

(* repo.Update of the object the client holds, then on to control point p. *)
StoreHeldObject(c, p) ==
    /\ \/ Update(local[c].object) /\ GoTo(c, p)
       \/ ~Validate(local[c].object) /\ Fails(c, "invalid_input")
       \/ /\ Validate(local[c].object) /\ ~Exists(local[c].object.id)
          /\ Fails(c, "not_found")
    /\ UNCHANGED <<year, counter, used>>

StatusUpdate(c) == pc[c] = "status" /\ StoreHeldObject(c, "status_event")

StatusEvent(c) ==
    /\ pc[c] = "status_event"
    /\ AddServiceEvent(c, "status_changed", local[c].object.status)

-----------------------------------------------------------------------------
(* AddResponder: Get, set the assignee of the copy and stamp it, Update,   *)
(* AddEvent.                                                               *)

AddResponder(c, id, responder) ==
    /\ MayIssue(c, "responder")
    /\ \/ ~Exists(id) /\ Answer(c, "not_found")
       \/ /\ Exists(id)
          /\ \E behind \in BOOLEAN :
                Begin(c, "responder", [Get(id) EXCEPT !.assignee = responder,
                                                      !.behind = behind])
    /\ UNCHANGED <<incidents, events, year, counter, used>>

ResponderUpdate(c) ==
    pc[c] = "responder" /\ StoreHeldObject(c, "responder_event")

ResponderEvent(c) ==
    /\ pc[c] = "responder_event"
    /\ AddServiceEvent(c, "responder", "triggered")

-----------------------------------------------------------------------------
(* RecordEvent: Get only checks that the incident exists; a failure of     *)
(* AddEvent is reported.                                                   *)

RecordCustomEvent(c, id) ==
    /\ MayIssue(c, "event")
    /\ \/ ~Exists(id) /\ Answer(c, "not_found")
       \/ Exists(id) /\ Begin(c, "record", Get(id))
    /\ UNCHANGED <<incidents, events, year, counter, used>>

RecordStore(c) ==
    /\ pc[c] = "record"
    /\ \/ AddEvent(EventOf(c, "custom", "triggered")) /\ Finish(c, "ok")
       \/ ~Exists(local[c].object.id) /\ Fails(c, "not_found")
    /\ UNCHANGED <<year, counter, used>>

(* Delete of the repository port; no method of the service calls it. *)
DeleteIncident(c, id) ==
    /\ MayIssue(c, "delete")
    /\ \/ Delete(id) /\ Answer(c, "ok")
       \/ ~Exists(id) /\ Answer(c, "not_found") /\ UNCHANGED repoVars
    /\ UNCHANGED <<year, counter, used>>

-----------------------------------------------------------------------------

(* Every repository method first checks ctx.Err().  A cancelled request    *)
(* ends at its next call; lost event records are only logged.              *)
ContextDone(c) ==
    /\ pc[c] # "idle"
    /\ Fails(c, IF pc[c] \in {"create_event", "status_event", "responder_event"}
                THEN "ok" ELSE "context")
    /\ UNCHANGED <<year, counter, used>>

NewYear ==
    /\ year < MaxYear
    /\ year' = year + 1
    /\ UNCHANGED <<incidents, events, counter, used, nextOp, pc, local, result>>

Next ==
    \/ \E c \in Clients :
          \/ CreateIncident(c) \/ CreateStore(c) \/ CreateEvent(c)
          \/ StatusUpdate(c) \/ StatusEvent(c)
          \/ ResponderUpdate(c) \/ ResponderEvent(c)
          \/ RecordStore(c)
          \/ ContextDone(c)
          \/ \E id \in Ids :
                \/ \E status \in Status : UpdateStatus(c, id, status)
                \/ \E responder \in Responders : AddResponder(c, id, responder)
                \/ RecordCustomEvent(c, id)
                \/ DeleteIncident(c, id)
    \/ NewYear

Spec == Init /\ [][Next]_vars

-----------------------------------------------------------------------------
(* Properties                                                              *)

(* A stored incident is resolved exactly when it carries a resolved_at     *)
(* stamp: TransitionTo, Validate and the repository's copies keep the two  *)
(* fields in step through every reopening.                                 *)
ResolvedConsistent ==
    \A id \in Ids :
        Exists(id) => (incidents[id].status = "resolved") <=> incidents[id].resolvedAt

Busy(c) == pc[c] # "idle"

(* The repository refuses what the service built only for the wall clock:  *)
(* whatever CanTransitionTo approves and TransitionTo makes of any         *)
(* snapshot passes Validate, and a fresh incident never collides, unless   *)
(* the update is stamped before the incident's creation.                   *)
RefusedOnlyBehindClock ==
    [][\A c \in Clients :
          /\ Busy(c) /\ ~Busy(c)'
          /\ result'[c] \in {"invalid_input", "already_exists"}
          => local[c].object.behind]_vars

(* No event outlives or precedes its incident in the two maps, however     *)
(* AddEvent, Update and Delete of different clients interleave.            *)
NoOrphanEvents == \A id \in Ids : events[id] # <<>> => Exists(id)

(* Two stored incidents never share a human-readable ID, with concurrent   *)
(* creations and across the turn of the year (generateHumanReadableID).    *)
(* The year is assumed never to be stepped back.                           *)
HumanIDsUnique ==
    \A i, j \in Ids :
        /\ i # j /\ Exists(i) /\ Exists(j)
        => incidents[i].humanID # incidents[j].humanID

(* The stored UUID has been issued, is stored nowhere, and is not about to *)
(* be stored by the operation that issued it.                              *)
Gone(id) ==
    /\ id \in used /\ ~Exists(id)
    /\ \A c \in Clients : ~(pc[c] = "create" /\ local[c].object.id = id)

(* A deleted incident is not resurrected by an Update that was under way   *)
(* when Delete ran.                                                        *)
DeletedStaysDeleted == [][\A id \in Ids : Gone(id) => ~Exists(id)']_vars

-----------------------------------------------------------------------------
(* The inductive invariant behind the properties above.                    *)

(* Every stored record passes Validate under its own key. *)
StoredValid ==
    \A id \in Ids : Exists(id) => incidents[id].id = id /\ Validate(Get(id))

(* Every object a client is about to store or to refer to passes Validate, *)
(* its stamps apart.                                                       *)
HeldValid ==
    \A c \in Clients :
        Busy(c) => local[c] \in Request /\ WellFormed(local[c].object)

(* Objects come from issued UUIDs only. *)
Issued ==
    /\ \A id \in Ids : Exists(id) => id \in used
    /\ \A c \in Clients : Busy(c) => local[c].object.id \in used

(* A UUID being created is stored nowhere and claimed by nobody else, and  *)
(* the new incident carries one stamp.                                     *)
CreatesFresh ==
    \A c \in Clients : pc[c] = "create" =>
        /\ ~Exists(local[c].object.id) /\ ~local[c].object.behind
        /\ \A d \in Clients \ {c} :
              pc[d] = "create" => local[d].object.id # local[c].object.id

IInv ==
    /\ TypeOK /\ StoredValid /\ HeldValid /\ NoOrphanEvents
    /\ Issued /\ CreatesFresh

(* A human-readable ID the counter will not produce again. *)
Spent(h) ==
    \/ h.year < counter.year
    \/ h.year = counter.year /\ h.seq <= counter.sequence

(* The human-readable IDs in use: each with the incident that bears it in  *)
(* the repository or in an object some client holds.                       *)
Bearers ==
    {<<id, incidents[id].humanID>> : id \in {i \in Ids : Exists(i)}}
    \cup {<<local[c].object.id, local[c].object.humanID>> :
             c \in {d \in Clients : Busy(d)}}

HumanInv ==
    /\ counter.year <= year
    /\ \A b \in Bearers : Spent(b[2])
    /\ \A a, b \in Bearers : a[1] # b[1] => a[2] # b[2]

-----------------------------------------------------------------------------

(* Positions j < k of a trail hold consecutive transitions. *)
Consecutive(trail, j, k) ==
    /\ j < k
    /\ trail[j].source = "transition" /\ trail[k].source = "transition"
    /\ \A m \in (j + 1)..(k - 1) : trail[m].source # "transition"

IsFirst(trail, k) ==
    /\ trail[k].source = "transition"
    /\ \A m \in 1..(k - 1) : trail[m].source # "transition"

IsLast(trail, k) ==
    /\ trail[k].source = "transition"
    /\ \A m \in (k + 1)..Len(trail) : trail[m].source # "transition"

(* The transitions of a trail lead from "triggered" to status along the    *)
(* permitted transitions.                                                  *)
LeadsTo(trail, status) ==
    /\ \A k \in 1..Len(trail) : IsFirst(trail, k) => CanTransitionTo("triggered", trail[k].to)
    /\ \A j, k \in 1..Len(trail) :
          Consecutive(trail, j, k) => CanTransitionTo(trail[j].to, trail[k].to)
    /\ \A k \in 1..Len(trail) : IsLast(trail, k) => trail[k].to = status
    /\ (\A k \in 1..Len(trail) : trail[k].source # "transition") => status = "triggered"

(* Whatever updates were lost, the surviving trail tells a legal story     *)
(* that ends in the stored status: Update replaces the record and the      *)
(* trail by the same snapshot.  (AddResponder, which may write a record    *)
(* without events over a newer one, can break it; the HTTP API never       *)
(* calls it.)                                                              *)
TrailExplainsStatus ==
    \A id \in Ids : Exists(id) => LeadsTo(events[id], incidents[id].status)

(* UpdateStatus: "This method enforces status transition rules defined in  *)
(* the domain model" - of two successive stored statuses the second is     *)
(* reachable from the first.                                               *)
LegalTransitions ==
    [][\A id \in Ids :
          Exists(id) /\ Exists(id)' =>
             CanTransitionTo(incidents[id].status, incidents'[id].status)]_vars

(* One client at a time, the service is the ledger: every repository       *)
(* write is a permitted move or one appended event.                        *)
Statuses == [id \in Ids |-> IF Exists(id) THEN incidents[id].status ELSE "absent"]

Ledger == INSTANCE IncidentLedger WITH status <- Statuses, trail <- events

ImplementsLedger == Ledger!LedgerSpec

=============================================================================
