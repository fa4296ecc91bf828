--------------------------- MODULE IncidentDomain ---------------------------
(***************************************************************************)
(* The incident aggregate of internal/core/domain/incident.go: statuses,   *)
(* the transition relation, TransitionTo and Validate.  An incident in Go  *)
(* memory is a record; of its fields the model keeps those the rules read  *)
(* (status, resolvedAt, assignee, humanID, events), of its two stamps the  *)
(* one thing Validate asks of them (behind), and leaves out free text,     *)
(* severity, labels and signals, which no rule here depends on.            *)
(***************************************************************************)
EXTENDS Naturals, Sequences

CONSTANTS Ids,          \* incident UUIDs
          Responders,   \* values of Incident.AssigneeID other than ""
          NoResponder   \* AssigneeID = ""

Status == {"triggered", "acknowledged", "investigating", "resolved"}

(* Where an event of the audit trail comes from.  "transition" events are  *)
(* appended by TransitionTo itself, "status_changed" ones by the service.  *)
EventSource ==
    {"incident_created", "transition", "status_changed", "responder", "custom"}

(* op is the number of the request that produced the event: it stands for  *)
(* the event ID, unique per request and source.  to is the new_status of   *)
(* the metadata ("triggered" for events that carry none).                  *)
Event == [incident : Ids, source : EventSource, to : Status, op : Nat]

HumanID == [year : Nat, seq : Nat]

(* What the repository keeps in its incidents map (events are a map of     *)
(* their own) and what a caller holds after Get.  behind says that         *)
(* UpdatedAt is before CreatedAt: both are time.Now().UTC(), which drops   *)
(* the monotonic reading, so a wall clock that was stepped back since the  *)
(* creation stamps an update behind it.                                    *)
Incident == [id : Ids, status : Status, resolvedAt : BOOLEAN, behind : BOOLEAN,
             assignee : Responders \cup {NoResponder}, humanID : HumanID]

Object == [id : Ids, status : Status, resolvedAt : BOOLEAN, behind : BOOLEAN,
           assignee : Responders \cup {NoResponder}, humanID : HumanID,
           events : Seq(Event)]

-----------------------------------------------------------------------------

Forward == [triggered     |-> {"acknowledged", "investigating", "resolved"},
            acknowledged  |-> {"investigating", "resolved"},
            investigating |-> {"resolved"},
            resolved      |-> {}]

(* Same status is a permitted no-op and every incident may be reopened.    *)
CanTransitionTo(from, to) ==
    to = from \/ to = "triggered" \/ to \in Forward[from]

(* The rules of Validate that a program can break after construction: the  *)
(* resolved_at stamp agrees with the status, attached events are the       *)
(* incident's own, and the update is not stamped before the creation.      *)
WellFormed(o) ==
    /\ (o.status = "resolved") <=> o.resolvedAt
    /\ \A k \in DOMAIN o.events : o.events[k].incident = o.id

Validate(o) == ~o.behind /\ WellFormed(o)

(* Incident.RecordEvent stamps the event with the incident's own ID, and   *)
(* the incident with the wall clock once more.                             *)
RecordEvent(o, source, to, op, behind) ==
    [o EXCEPT !.behind = behind,
              !.events = Append(@, [incident |-> o.id, source |-> source,
                                   to |-> to, op |-> op])]

(* Mutant: a transition that leaves no trace in the trail. *)
TransitionToSilently(o, target, op, behind) ==
    [o EXCEPT !.status = target, !.behind = behind,
              !.resolvedAt = (target = "resolved")]

(* Mutant: reopening keeps the resolved_at stamp. *)
TransitionToKeepingStamp(o, target, op, behind) ==
    RecordEvent([o EXCEPT !.status = target,
                          !.resolvedAt = (@ \/ target = "resolved")],
                "transition", target, op, behind)

TransitionTo(o, target, op, behind) ==
    RecordEvent([o EXCEPT !.status = target,
                          !.resolvedAt = (target = "resolved")],
                "transition", target, op, behind)

(* The object CreateIncident builds: one reading of the clock stamps both. *)
NewIncident(id, humanID) ==
    [id |-> id, status |-> "triggered", resolvedAt |-> FALSE,
     behind |-> FALSE, assignee |-> NoResponder, humanID |-> humanID, events |-> <<>>]

=============================================================================
