------------------------- MODULE IncidentRepository -------------------------
(***************************************************************************)
(* The in-memory incident repository,                                      *)
(* internal/adapters/storage/memory/incident_repository.go.  Each method   *)
(* holds the RWMutex for its whole body, so each is one atomic step; the   *)
(* operators below are its outcomes, as conditions on the state before and *)
(* the state after.                                                        *)
(***************************************************************************)
EXTENDS IncidentDomain

CONSTANT NoIncident     \* "not in the incidents map"

ASSUME NoIncidentAssumption == NoIncident \notin Incident

VARIABLES incidents,    \* the incidents map
          events        \* the events map; <<>> when the key is missing

repoVars == <<incidents, events>>

RepoInit == /\ incidents = [id \in Ids |-> NoIncident]
            /\ events    = [id \in Ids |-> <<>>]

Exists(id) == incidents[id] # NoIncident

(* Mutant: the deep copy forgets the resolved_at pointer. *)
CopyIncidentWithoutStamp(o) ==
    [id |-> o.id, status |-> o.status, resolvedAt |-> FALSE,
     behind |-> o.behind, assignee |-> o.assignee, humanID |-> o.humanID]

(* copyIncident: every field but Events, which live in their own map. *)
CopyIncident(o) ==
    [id |-> o.id, status |-> o.status, resolvedAt |-> o.resolvedAt,
     behind |-> o.behind, assignee |-> o.assignee, humanID |-> o.humanID]

(* Get: a deep copy of the record with the events attached. *)
Get(id) ==
    [id |-> incidents[id].id, status |-> incidents[id].status,
     resolvedAt |-> incidents[id].resolvedAt, behind |-> incidents[id].behind,
     assignee |-> incidents[id].assignee, humanID |-> incidents[id].humanID,
     events |-> events[id]]

StoreEvents(o) ==
    events' = IF Len(o.events) > 0 THEN [events EXCEPT ![o.id] = o.events]
                                   ELSE events

(* Mutant: the events of the object are written only when there are several. *)
StoreSeveralEvents(o) ==
    events' = IF Len(o.events) > 1 THEN [events EXCEPT ![o.id] = o.events]
                                   ELSE events

Create(o) ==
    /\ Validate(o) /\ ~Exists(o.id)
    /\ incidents' = [incidents EXCEPT ![o.id] = CopyIncident(o)]
    /\ StoreEvents(o)

(* Mutant: Update as an upsert, without the existence check. *)
UpdateOrInsert(o) ==
    /\ Validate(o)
    /\ incidents' = [incidents EXCEPT ![o.id] = CopyIncident(o)]
    /\ StoreEvents(o)

(* Mutant: the attached events are only written when there are several. *)
UpdateFewEventsLost(o) ==
    /\ Validate(o) /\ Exists(o.id)
    /\ incidents' = [incidents EXCEPT ![o.id] = CopyIncident(o)]
    /\ StoreSeveralEvents(o)

(* Update replaces the whole record and, when the object carries events,   *)
(* the whole event list, with whatever the caller holds.                   *)
Update(o) ==
    /\ Validate(o) /\ Exists(o.id)
    /\ incidents' = [incidents EXCEPT ![o.id] = CopyIncident(o)]
    /\ StoreEvents(o)

(* Mutant: AddEvent without the existence check. *)
AddEventUnchecked(e) ==
    /\ events' = [events EXCEPT ![e.incident] = Append(@, e)]
    /\ UNCHANGED incidents

AddEvent(e) ==
    /\ Exists(e.incident)
    /\ events' = [events EXCEPT ![e.incident] = Append(@, e)]
    /\ UNCHANGED incidents

(* Delete removes the record and its events for good. *)
Delete(id) ==
    /\ Exists(id)
    /\ incidents' = [incidents EXCEPT ![id] = NoIncident]
    /\ events'    = [events EXCEPT ![id] = <<>>]

=============================================================================
