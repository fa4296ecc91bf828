---------------------------- MODULE IncidentProofs ----------------------------
(***************************************************************************)
(* Proofs about IncidentService and IncidentAPI, for any sets of clients,  *)
(* incidents and responders and any bounds.                                *)
(***************************************************************************)
EXTENDS IncidentAPI, TLAPS


(* Objects handed between the service and the repository are well typed. *)
LEMMA NewIncidentType ==
    ASSUME NEW id \in Ids, NEW h \in HumanID
    PROVE  NewIncident(id, h) \in Object
BY DEF NewIncident, Object, Status

LEMMA RecordEventType ==
    ASSUME NEW o \in Object, NEW source \in EventSource, NEW to \in Status,
           NEW op \in Nat, NEW behind \in BOOLEAN
    PROVE  RecordEvent(o, source, to, op, behind) \in Object
<1> DEFINE e == [incident |-> o.id, source |-> source, to |-> to, op |-> op]
<1>1. e \in Event
  BY DEF Event, Object
<1>2. Append(o.events, e) \in Seq(Event)
  BY <1>1 DEF Object
<1> QED
  BY <1>2 DEF RecordEvent, Object

LEMMA TransitionToType ==
    ASSUME NEW o \in Object, NEW target \in Status, NEW op \in Nat,
           NEW behind \in BOOLEAN
    PROVE  TransitionTo(o, target, op, behind) \in Object
<1> DEFINE p == [o EXCEPT !.status = target, !.resolvedAt = (target = "resolved")]
<1>1. p \in Object
  BY DEF Object
<1>2. "transition" \in EventSource
  BY DEF EventSource
<1> QED
  BY <1>1, <1>2, RecordEventType DEF TransitionTo

LEMMA CopyIncidentType ==
    ASSUME NEW o \in Object
    PROVE  CopyIncident(o) \in Incident
BY DEF CopyIncident, Object, Incident

LEMMA GetType ==
    ASSUME TypeOK, NEW id \in Ids, Exists(id)
    PROVE  Get(id) \in Object
<1>1. incidents[id] \in Incident /\ events[id] \in Seq(Event)
  BY DEF TypeOK, Exists
<1> QED
  BY <1>1 DEF Get, Object, Incident

LEMMA NextHumanIDType ==
    ASSUME TypeOK
    PROVE  NextHumanID \in HumanID
BY DEF TypeOK, NextHumanID, HumanID

(* The bookkeeping operators keep the client variables well typed. *)
ClientTypeOK ==
    /\ nextOp \in Nat
    /\ pc \in [Clients -> PC]
    /\ local \in [Clients -> Request \cup {NoRequest}]
    /\ result \in [Clients -> Result]

RepoTypeOK ==
    /\ incidents \in [Ids -> Incident \cup {NoIncident}]
    /\ events \in [Ids -> Seq(Event)]

LEMMA BeginType ==
    ASSUME ClientTypeOK, NEW c \in Clients, NEW p \in PC, NEW o \in Object,
           Begin(c, p, o)
    PROVE  ClientTypeOK'
<1>1. [op |-> nextOp, object |-> o] \in Request
  BY DEF ClientTypeOK, Request
<1> QED
  BY <1>1 DEF Begin, ClientTypeOK

LEMMA AnswerType ==
    ASSUME ClientTypeOK, NEW c \in Clients, NEW r \in Result, Answer(c, r)
    PROVE  ClientTypeOK'
BY DEF Answer, ClientTypeOK

LEMMA GoToType ==
    ASSUME ClientTypeOK, NEW c \in Clients, NEW p \in PC, GoTo(c, p)
    PROVE  ClientTypeOK'
BY DEF GoTo, ClientTypeOK

LEMMA FinishType ==
    ASSUME ClientTypeOK, NEW c \in Clients, NEW r \in Result, Finish(c, r)
    PROVE  ClientTypeOK'
<1>1. "idle" \in PC
  BY DEF PC
<1> QED
  BY <1>1 DEF Finish, ClientTypeOK

(* The repository methods keep the two maps well typed. *)
LEMMA UpdateType ==
    ASSUME RepoTypeOK, NEW o \in Object, Update(o) \/ Create(o)
    PROVE  RepoTypeOK'
<1>1. o.id \in Ids /\ o.events \in Seq(Event)
  BY DEF Object
<1>2. CopyIncident(o) \in Incident
  BY CopyIncidentType
<1>3. incidents' = [incidents EXCEPT ![o.id] = CopyIncident(o)]
  BY DEF Update, Create
<1>4. events' \in [Ids -> Seq(Event)]
  BY <1>1 DEF Update, Create, StoreEvents, RepoTypeOK
<1> QED
  BY <1>1, <1>2, <1>3, <1>4 DEF RepoTypeOK

LEMMA AddEventType ==
    ASSUME RepoTypeOK, NEW e \in Event, AddEvent(e)
    PROVE  RepoTypeOK'
<1>1. e.incident \in Ids
  BY DEF Event
<1>2. Append(events[e.incident], e) \in Seq(Event)
  BY <1>1 DEF RepoTypeOK
<1> QED
  BY <1>1, <1>2 DEF RepoTypeOK, AddEvent

LEMMA DeleteType ==
    ASSUME RepoTypeOK, NEW id \in Ids, Delete(id)
    PROVE  RepoTypeOK'
BY DEF RepoTypeOK, Delete

-----------------------------------------------------------------------------
(* The inductive invariant                                                 *)

LEMMA TypeParts == TypeOK => RepoTypeOK /\ ClientTypeOK
BY DEF TypeOK, RepoTypeOK, ClientTypeOK

LEMMA InitInv == Init => IInv
<1> SUFFICES ASSUME Init PROVE IInv
  OBVIOUS
<1> USE ServiceAssumption DEF Init, RepoInit
<1>1. TypeOK
  BY DEF TypeOK, PC, Result
<1>2. \A id \in Ids : ~Exists(id)
  BY DEF Exists
<1>3. \A c \in Clients : ~Busy(c) /\ pc[c] # "create" /\ result[c] = "none"
  BY DEF Busy
<1>4. NoOrphanEvents
  BY DEF NoOrphanEvents
<1> QED
  BY <1>1, <1>2, <1>3, <1>4
     DEF IInv, StoredValid, HeldValid, Issued, CreatesFresh

LEMMA ValidNew ==
    ASSUME NEW id \in Ids, NEW h \in HumanID
    PROVE  WellFormed(NewIncident(id, h))
BY DEF WellFormed, NewIncident

LEMMA ValidTransition ==
    ASSUME NEW o \in Object, WellFormed(o), NEW target \in Status, NEW op \in Nat,
           NEW behind \in BOOLEAN
    PROVE  WellFormed(TransitionTo(o, target, op, behind))
           /\ TransitionTo(o, target, op, behind).id = o.id
<1> DEFINE e == [incident |-> o.id, source |-> "transition", to |-> target, op |-> op]
           t == TransitionTo(o, target, op, behind)
<1>1. o.events \in Seq(Event)
  BY DEF Object
<1>2. t.status = target /\ t.resolvedAt = (target = "resolved") /\ t.id = o.id
  BY DEF TransitionTo, RecordEvent, Object
<1>3. t.events = Append(o.events, e)
  BY DEF TransitionTo, RecordEvent, Object
<1>4. e \in Event
  BY DEF Event, EventSource, Object
<1>5. \A k \in DOMAIN t.events : t.events[k].incident = o.id
  BY <1>1, <1>3, <1>4 DEF Validate, WellFormed
<1> QED
  BY <1>2, <1>5 DEF Validate, WellFormed

LEMMA BeginInv ==
    ASSUME IInv, NEW c \in Clients, NEW p \in PC \ {"idle"}, NEW o \in Object,
           Begin(c, p, o), UNCHANGED repoVars, WellFormed(o),
           year' \in Nat, counter' \in [year : Nat, sequence : Nat],
           used' \subseteq Ids, used \subseteq used', o.id \in used',
           p = "create" => o.id \notin used /\ ~o.behind
    PROVE  IInv'
<1>1. ClientTypeOK'
  BY TypeParts, BeginType DEF IInv
<1>2. RepoTypeOK'
  BY TypeParts DEF IInv, RepoTypeOK, repoVars
<1>3. TypeOK'
  BY <1>1, <1>2 DEF TypeOK, ClientTypeOK, RepoTypeOK
<1>4. \A id \in Ids : Exists(id)' <=> Exists(id)
  BY DEF Exists, repoVars
<1>5. StoredValid' /\ NoOrphanEvents'
  BY DEF IInv, StoredValid, NoOrphanEvents, Exists, Get, Validate, WellFormed, repoVars
<1>6. local'[c] = [op |-> nextOp, object |-> o] /\ pc'[c] = p
  BY DEF Begin, IInv, TypeOK
<1>7. \A d \in Clients \ {c} : local'[d] = local[d] /\ pc'[d] = pc[d]
  BY DEF Begin, IInv, TypeOK
<1>8. local'[c] \in Request /\ local'[c].object = o
  BY <1>6 DEF Request, IInv, TypeOK
<1>9. HeldValid'
  BY <1>7, <1>8 DEF HeldValid, IInv, Busy, Validate, WellFormed
<1>10. Issued'
  BY <1>4, <1>7, <1>8 DEF Issued, IInv, Busy
<1>11. CreatesFresh'
  BY <1>4, <1>6, <1>7, <1>8 DEF CreatesFresh, Issued, IInv, Busy, Object
<1> QED
  BY <1>3, <1>5, <1>9, <1>10, <1>11 DEF IInv

LEMMA AnswerInv ==
    ASSUME IInv, NEW c \in Clients, NEW r \in Result, Answer(c, r),
           UNCHANGED <<incidents, events, year, counter, used>>
    PROVE  IInv'
<1>1. ClientTypeOK'
  BY TypeParts, AnswerType DEF IInv
<1>2. TypeOK'
  BY <1>1 DEF IInv, TypeOK, ClientTypeOK
<1> QED
  BY <1>2 DEF IInv, StoredValid, HeldValid, NoOrphanEvents, Issued,
     CreatesFresh, Exists, Get, Validate, WellFormed, Busy, Answer

LEMMA FinishInv ==
    ASSUME IInv, NEW c \in Clients, NEW r \in Result, Finish(c, r),
           UNCHANGED <<incidents, events, year, counter, used>>
    PROVE  IInv'
<1>1. ClientTypeOK'
  BY TypeParts, FinishType DEF IInv
<1>2. TypeOK'
  BY <1>1 DEF IInv, TypeOK, ClientTypeOK
<1>4. pc'[c] = "idle" /\ \A d \in Clients \ {c} : pc'[d] = pc[d] /\ local'[d] = local[d]
  BY DEF Finish, IInv, TypeOK
<1> QED
  BY <1>2, <1>4 DEF IInv, StoredValid, HeldValid, NoOrphanEvents, Issued,
     CreatesFresh, Exists, Get, Validate, WellFormed, Busy

(* Create and Update write a valid record under the object's own key. *)
LEMMA StoreEffect ==
    ASSUME IInv, NEW o \in Object, Create(o) \/ Update(o)
    PROVE  /\ RepoTypeOK'
           /\ StoredValid' /\ NoOrphanEvents'
           /\ \A id \in Ids : Exists(id)' <=> Exists(id) \/ id = o.id
<1>1. RepoTypeOK'
  BY TypeParts, UpdateType DEF IInv
<1>2. o.id \in Ids /\ CopyIncident(o) \in Incident /\ CopyIncident(o).id = o.id
  BY CopyIncidentType DEF Object, CopyIncident
<1>3. Validate(o) /\ incidents' = [incidents EXCEPT ![o.id] = CopyIncident(o)]
      /\ StoreEvents(o)
  BY DEF Create, Update
<1>4. \A id \in Ids : Exists(id)' <=> Exists(id) \/ id = o.id
  BY <1>2, <1>3, NoIncidentAssumption DEF Exists, IInv, TypeOK
<1>5. NoOrphanEvents'
  BY <1>2, <1>3, <1>4 DEF NoOrphanEvents, IInv, StoreEvents, TypeOK
<1>6. ASSUME NEW id \in Ids, Exists(id)'
      PROVE  incidents'[id].id = id /\ Validate(Get(id)')
  <2>1. CASE id # o.id
    <3>1. incidents'[id] = incidents[id] /\ events'[id] = events[id] /\ Exists(id)
      BY <1>2, <1>3, <2>1, <1>6, <1>4 DEF StoreEvents, IInv, TypeOK
    <3> QED
      BY <3>1 DEF IInv, StoredValid, Get, Validate, WellFormed
  <2>2. CASE id = o.id
    <3>1. incidents'[id] = CopyIncident(o)
      BY <1>2, <1>3, <2>2 DEF IInv, TypeOK
    <3>2. \A k \in DOMAIN events'[id] : events'[id][k].incident = id
      <4>1. CASE Len(o.events) > 0
        BY <1>2, <1>3, <2>2, <4>1 DEF StoreEvents, Validate, WellFormed, IInv, TypeOK
      <4>2. CASE ~(Len(o.events) > 0)
        <5>1. events' = events
          BY <1>3, <4>2 DEF StoreEvents
        <5>2. CASE events[id] = <<>>
          BY <5>1, <5>2
        <5>3. CASE events[id] # <<>>
          BY <5>1, <5>3 DEF IInv, NoOrphanEvents, StoredValid, Validate, WellFormed, Get
        <5> QED
          BY <5>2, <5>3
      <4> QED
        BY <4>1, <4>2
    <3>3. /\ (CopyIncident(o).status = "resolved") <=> CopyIncident(o).resolvedAt
          /\ ~CopyIncident(o).behind
      BY <1>3 DEF Validate, WellFormed, CopyIncident
    <3> QED
      BY <1>2, <2>2, <3>1, <3>2, <3>3 DEF Validate, WellFormed, Get
  <2> QED
    BY <2>1, <2>2
<1> QED
  BY <1>1, <1>4, <1>5, <1>6 DEF StoredValid

LEMMA StoreInv ==
    ASSUME IInv, NEW c \in Clients, Busy(c), NEW p \in PC \ {"idle", "create"},
           Create(local[c].object) \/ Update(local[c].object),
           pc[c] # "create" => Update(local[c].object),
           GoTo(c, p), UNCHANGED <<year, counter, used>>
    PROVE  IInv'
<1> DEFINE o == local[c].object
<1>1. o \in Object /\ o.id \in Ids
  BY DEF IInv, HeldValid, Request, Object
<1>2. /\ RepoTypeOK' /\ StoredValid' /\ NoOrphanEvents'
      /\ \A id \in Ids : Exists(id)' <=> Exists(id) \/ id = o.id
  BY <1>1, StoreEffect
<1>3. ClientTypeOK'
  BY TypeParts, GoToType DEF IInv
<1>4. TypeOK'
  BY <1>2, <1>3 DEF IInv, TypeOK, RepoTypeOK, ClientTypeOK
<1>5. local' = local /\ result' = result /\ pc' = [pc EXCEPT ![c] = p]
  BY DEF GoTo
<1>6. HeldValid'
  BY <1>5 DEF IInv, HeldValid, Busy, Validate, WellFormed, TypeOK
<1>7. Issued'
  BY <1>1, <1>2, <1>5 DEF IInv, Issued, Busy, TypeOK
<1>8. CreatesFresh'
  <2>1. pc[c] # "create" => Exists(o.id)
    BY DEF Update
  <2> QED
    BY <1>1, <1>2, <1>5, <2>1 DEF IInv, CreatesFresh, TypeOK, HeldValid, Busy, Request, Object
<1> QED
  BY <1>2, <1>4, <1>6, <1>7, <1>8 DEF IInv

LEMMA AddEventInv ==
    ASSUME IInv, NEW c \in Clients, NEW e \in Event, AddEvent(e), Finish(c, "ok"),
           UNCHANGED <<year, counter, used>>
    PROVE  IInv'
<1>1. RepoTypeOK' /\ ClientTypeOK'
  BY TypeParts, AddEventType, FinishType DEF IInv, Result
<1>2. TypeOK'
  BY <1>1 DEF IInv, TypeOK, RepoTypeOK, ClientTypeOK
<1>3. e.incident \in Ids /\ Exists(e.incident) /\ incidents' = incidents
      /\ events' = [events EXCEPT ![e.incident] = Append(@, e)]
  BY DEF AddEvent, Event
<1>4. NoOrphanEvents'
  BY <1>3 DEF IInv, NoOrphanEvents, Exists, TypeOK
<1>5. ASSUME NEW id \in Ids, Exists(id)'
      PROVE  incidents'[id].id = id /\ Validate(Get(id)')
  <2>1. events[id] \in Seq(Event) /\ Exists(id)
    BY <1>3, <1>5 DEF IInv, TypeOK, Exists
  <2>2. events'[id] = IF id = e.incident THEN Append(events[id], e) ELSE events[id]
    BY <1>3 DEF IInv, TypeOK
  <2>3. \A k \in DOMAIN events'[id] : events'[id][k].incident = id
    BY <2>1, <2>2 DEF IInv, StoredValid, Validate, WellFormed, Get
  <2> QED
    BY <1>3, <2>1, <2>3 DEF IInv, StoredValid, Validate, WellFormed, Get
<1>6. pc'[c] = "idle" /\ \A d \in Clients \ {c} : pc'[d] = pc[d] /\ local'[d] = local[d]
  BY DEF Finish, IInv, TypeOK
<1>7. HeldValid' /\ Issued' /\ CreatesFresh'
  BY <1>3, <1>6 DEF IInv, HeldValid, Issued, CreatesFresh, Exists, Busy, Validate, WellFormed
<1> QED
  BY <1>2, <1>4, <1>5, <1>7 DEF IInv, StoredValid

LEMMA DeleteInv ==
    ASSUME IInv, NEW c \in Clients, NEW id \in Ids, Delete(id), Answer(c, "ok"),
           UNCHANGED <<year, counter, used>>
    PROVE  IInv'
<1>1. RepoTypeOK' /\ ClientTypeOK'
  BY TypeParts, DeleteType, AnswerType DEF IInv, Result
<1>2. TypeOK'
  BY <1>1 DEF IInv, TypeOK, RepoTypeOK, ClientTypeOK
<1>3. \A i \in Ids : /\ Exists(i)' <=> Exists(i) /\ i # id
                     /\ i # id => incidents'[i] = incidents[i] /\ events'[i] = events[i]
                     /\ i = id => events'[i] = <<>>
  BY DEF Delete, Exists, IInv, TypeOK
<1>4. NoOrphanEvents' /\ StoredValid'
  BY <1>3 DEF IInv, NoOrphanEvents, StoredValid, Get, Validate, WellFormed
<1>5. pc' = pc /\ local' = local
  BY DEF Answer
<1>6. HeldValid' /\ Issued'
  BY <1>3, <1>5 DEF IInv, HeldValid, Issued, Busy, Validate, WellFormed
<1>7. CreatesFresh'
  BY <1>3, <1>5 DEF IInv, CreatesFresh, HeldValid, Busy, Request, Object
<1> QED
  BY <1>2, <1>4, <1>6, <1>7 DEF IInv

-----------------------------------------------------------------------------
(* One lemma per group of actions, then the step.                          *)

LEMMA HeldFacts ==
    ASSUME IInv, NEW c \in Clients, Busy(c)
    PROVE  /\ local[c].object \in Object /\ local[c].object.id \in Ids
           /\ local[c].op \in Nat /\ WellFormed(local[c].object)
           /\ (pc[c] = "create" => Validate(local[c].object))
           /\ ~(pc[c] = "create" /\ Exists(local[c].object.id))
           /\ \A source \in EventSource, to \in Status : EventOf(c, source, to) \in Event
BY DEF IInv, HeldValid, Request, Object, CreatesFresh, EventOf, Event, Validate

LEMMA GetFacts ==
    ASSUME IInv, NEW id \in Ids, Exists(id)
    PROVE  /\ Get(id) \in Object /\ WellFormed(Get(id))
           /\ Get(id).id = id /\ id \in used /\ id \in Ids
BY GetType DEF IInv, StoredValid, Issued, Get, Validate

LEMMA CreateIncidentInv ==
    ASSUME IInv, NEW c \in Clients, CreateIncident(c)
    PROVE  IInv'
<1>1. PICK id \in Ids \ used :
          /\ used' = used \cup {id}
          /\ Begin(c, "create", NewIncident(id, NextHumanID))
  BY DEF CreateIncident
<1>2. NextHumanID \in HumanID
  BY NextHumanIDType DEF IInv
<1>3. NewIncident(id, NextHumanID) \in Object /\ WellFormed(NewIncident(id, NextHumanID))
      /\ NewIncident(id, NextHumanID).id = id /\ ~NewIncident(id, NextHumanID).behind
  BY <1>2, NewIncidentType, ValidNew DEF NewIncident
<1>4. counter' \in [year : Nat, sequence : Nat] /\ year' \in Nat
  BY <1>2 DEF CreateIncident, CountHumanID, HumanID, IInv, TypeOK
<1>5. used' \subseteq Ids /\ used \subseteq used' /\ id \in used'
  BY <1>1 DEF IInv, TypeOK
<1>6. UNCHANGED repoVars
  BY DEF CreateIncident, repoVars
<1>7. "create" \in PC \ {"idle"}
  BY DEF PC
<1> QED
  BY <1>1, <1>3, <1>4, <1>5, <1>6, <1>7, BeginInv

(* UpdateStatus, AddResponder and RecordEvent start from a valid snapshot. *)
LEMMA FromSnapshotInv ==
    ASSUME IInv, NEW c \in Clients, NEW p \in PC \ {"idle", "create"},
           NEW id \in Ids, NEW o \in Object, WellFormed(o), o.id = id, id \in used,
           Begin(c, p, o), UNCHANGED <<incidents, events, year, counter, used>>
    PROVE  IInv'
<1>1. year' \in Nat /\ counter' \in [year : Nat, sequence : Nat]
      /\ used' \subseteq Ids /\ used \subseteq used' /\ o.id \in used'
  BY DEF IInv, TypeOK
<1> QED
  BY <1>1, BeginInv DEF repoVars

LEMMA UpdateStatusInv ==
    ASSUME IInv, NEW c \in Clients, NEW id \in Ids, NEW status \in Status,
           UpdateStatus(c, id, status)
    PROVE  IInv'
<1>1. CASE ~Exists(id) /\ Answer(c, "not_found")
  BY <1>1, AnswerInv DEF UpdateStatus, Result
<1>2. CASE Answer(c, "conflict")
  BY <1>2, AnswerInv DEF UpdateStatus, Result
<1>3. CASE /\ Exists(id)
            /\ \E behind \in BOOLEAN :
                  Begin(c, "status", TransitionTo(Get(id), status, nextOp, behind))
  <2> PICK behind \in BOOLEAN : Begin(c, "status", TransitionTo(Get(id), status, nextOp, behind))
    BY <1>3
  <2>1. Get(id) \in Object /\ WellFormed(Get(id)) /\ Get(id).id = id /\ id \in used
    BY <1>3, GetFacts
  <2>2. nextOp \in Nat /\ "status" \in PC \ {"idle", "create"}
    BY DEF IInv, TypeOK, PC
  <2>3. /\ TransitionTo(Get(id), status, nextOp, behind) \in Object
        /\ WellFormed(TransitionTo(Get(id), status, nextOp, behind))
        /\ TransitionTo(Get(id), status, nextOp, behind).id = id
    BY <2>1, <2>2, TransitionToType, ValidTransition
  <2> QED
    BY <1>3, <2>1, <2>2, <2>3, FromSnapshotInv DEF UpdateStatus
<1> QED
  BY <1>1, <1>2, <1>3 DEF UpdateStatus

LEMMA AddResponderInv ==
    ASSUME IInv, NEW c \in Clients, NEW id \in Ids, NEW responder \in Responders,
           AddResponder(c, id, responder)
    PROVE  IInv'
<1>1. CASE ~Exists(id) /\ Answer(c, "not_found")
  BY <1>1, AnswerInv DEF AddResponder, Result
<1>2. CASE /\ Exists(id)
           /\ \E behind \in BOOLEAN :
                 Begin(c, "responder", [Get(id) EXCEPT !.assignee = responder, !.behind = behind])
  <2> PICK behind \in BOOLEAN :
        Begin(c, "responder", [Get(id) EXCEPT !.assignee = responder, !.behind = behind])
    BY <1>2
  <2> DEFINE o == [Get(id) EXCEPT !.assignee = responder, !.behind = behind]
  <2>1. Get(id) \in Object /\ WellFormed(Get(id)) /\ Get(id).id = id /\ id \in used
    BY <1>2, GetFacts
  <2>2. o \in Object /\ WellFormed(o) /\ o.id = id
    BY <2>1 DEF Object, Validate, WellFormed
  <2>3. "responder" \in PC \ {"idle", "create"}
    BY DEF PC
  <2> QED
    BY <1>2, <2>1, <2>2, <2>3, FromSnapshotInv DEF AddResponder
<1> QED
  BY <1>1, <1>2 DEF AddResponder

LEMMA RecordCustomEventInv ==
    ASSUME IInv, NEW c \in Clients, NEW id \in Ids, RecordCustomEvent(c, id)
    PROVE  IInv'
<1>1. CASE ~Exists(id) /\ Answer(c, "not_found")
  BY <1>1, AnswerInv DEF RecordCustomEvent, Result
<1>2. CASE Exists(id) /\ Begin(c, "record", Get(id))
  <2>1. "record" \in PC \ {"idle", "create"}
    BY DEF PC
  <2> QED
    BY <1>2, <2>1, GetFacts, FromSnapshotInv DEF RecordCustomEvent
<1> QED
  BY <1>1, <1>2 DEF RecordCustomEvent

LEMMA DeleteIncidentInv ==
    ASSUME IInv, NEW c \in Clients, NEW id \in Ids, DeleteIncident(c, id)
    PROVE  IInv'
<1>1. CASE Delete(id) /\ Answer(c, "ok")
  BY <1>1, DeleteInv DEF DeleteIncident
<1>2. CASE Answer(c, "not_found") /\ UNCHANGED repoVars
  BY <1>2, AnswerInv DEF DeleteIncident, Result, repoVars
<1> QED
  BY <1>1, <1>2 DEF DeleteIncident

LEMMA CreateStoreInv ==
    ASSUME IInv, NEW c \in Clients, CreateStore(c)
    PROVE  IInv'
<1>1. Busy(c) /\ pc[c] = "create"
  BY DEF CreateStore, Busy
<1>2. Create(local[c].object) /\ GoTo(c, "create_event")
  BY <1>1, HeldFacts DEF CreateStore
<1>3. "create_event" \in PC \ {"idle", "create"}
  BY DEF PC
<1> QED
  BY <1>1, <1>2, <1>3, StoreInv DEF CreateStore

LEMMA StoreHeldObjectInv ==
    ASSUME IInv, NEW c \in Clients, Busy(c), pc[c] # "create",
           NEW p \in PC \ {"idle", "create"}, StoreHeldObject(c, p)
    PROVE  IInv'
<1>1. CASE Update(local[c].object) /\ GoTo(c, p)
  BY <1>1, StoreInv DEF StoreHeldObject
<1>2. CASE Fails(c, "invalid_input")
  BY <1>2, FinishInv DEF StoreHeldObject, Fails, repoVars, Result
<1>3. CASE Fails(c, "not_found")
  BY <1>3, FinishInv DEF StoreHeldObject, Fails, repoVars, Result
<1> QED
  BY <1>1, <1>2, <1>3 DEF StoreHeldObject

LEMMA AddServiceEventInv ==
    ASSUME IInv, NEW c \in Clients, Busy(c), NEW source \in EventSource,
           NEW to \in Status, AddServiceEvent(c, source, to)
    PROVE  IInv'
<1>1. CASE AddEvent(EventOf(c, source, to))
  <2>1. EventOf(c, source, to) \in Event
    BY HeldFacts
  <2> QED
    BY <1>1, <2>1, AddEventInv DEF AddServiceEvent
<1>2. CASE UNCHANGED repoVars
  BY <1>2, FinishInv DEF AddServiceEvent, repoVars, Result
<1> QED
  BY <1>1, <1>2 DEF AddServiceEvent

LEMMA RecordStoreInv ==
    ASSUME IInv, NEW c \in Clients, RecordStore(c)
    PROVE  IInv'
<1>1. Busy(c)
  BY DEF RecordStore, Busy
<1>2. CASE AddEvent(EventOf(c, "custom", "triggered")) /\ Finish(c, "ok")
  <2>1. EventOf(c, "custom", "triggered") \in Event
    BY <1>1, HeldFacts DEF EventSource, Status
  <2> QED
    BY <1>2, <2>1, AddEventInv DEF RecordStore
<1>3. CASE Fails(c, "not_found")
  BY <1>3, FinishInv DEF RecordStore, Fails, repoVars, Result
<1> QED
  BY <1>2, <1>3 DEF RecordStore

LEMMA ContextDoneInv ==
    ASSUME IInv, NEW c \in Clients, ContextDone(c)
    PROVE  IInv'
<1>1. "ok" \in Result /\ "context" \in Result
  BY DEF Result
<1> QED
  BY <1>1, FinishInv DEF ContextDone, Fails, repoVars

LEMMA StepInv == IInv /\ [Next]_vars => IInv'
<1> SUFFICES ASSUME IInv, [Next]_vars
             PROVE  IInv'
  OBVIOUS
<1>1. ASSUME NEW c \in Clients, CreateIncident(c)
      PROVE  IInv'
  BY <1>1, CreateIncidentInv
<1>2. ASSUME NEW c \in Clients, CreateStore(c)
      PROVE  IInv'
  BY <1>2, CreateStoreInv
<1>3. ASSUME NEW c \in Clients, CreateEvent(c)
      PROVE  IInv'
  BY <1>3, AddServiceEventInv DEF CreateEvent, Busy, EventSource, Status
<1>4. ASSUME NEW c \in Clients, StatusUpdate(c)
      PROVE  IInv'
  BY <1>4, StoreHeldObjectInv DEF StatusUpdate, Busy, PC
<1>5. ASSUME NEW c \in Clients, StatusEvent(c)
      PROVE  IInv'
  <2>1. Busy(c)
    BY <1>5 DEF StatusEvent, Busy
  <2>2. local[c].object.status \in Status
    BY <2>1, HeldFacts DEF Object
  <2> QED
    BY <1>5, <2>1, <2>2, AddServiceEventInv DEF StatusEvent, EventSource
<1>6. ASSUME NEW c \in Clients, ResponderUpdate(c)
      PROVE  IInv'
  BY <1>6, StoreHeldObjectInv DEF ResponderUpdate, Busy, PC
<1>7. ASSUME NEW c \in Clients, ResponderEvent(c)
      PROVE  IInv'
  BY <1>7, AddServiceEventInv DEF ResponderEvent, Busy, EventSource, Status
<1>8. ASSUME NEW c \in Clients, RecordStore(c) \/ ContextDone(c)
      PROVE  IInv'
  BY <1>8, RecordStoreInv, ContextDoneInv
<1>9. ASSUME NEW c \in Clients, NEW id \in Ids,
             \/ \E status \in Status : UpdateStatus(c, id, status)
             \/ \E responder \in Responders : AddResponder(c, id, responder)
             \/ RecordCustomEvent(c, id)
             \/ DeleteIncident(c, id)
      PROVE  IInv'
  BY <1>9, UpdateStatusInv, AddResponderInv, RecordCustomEventInv, DeleteIncidentInv
<1>10. CASE NewYear
  BY <1>10 DEF NewYear, IInv, TypeOK, StoredValid, HeldValid, NoOrphanEvents, Issued,
     CreatesFresh, Exists, Get, Validate, WellFormed, Busy
<1>11. CASE UNCHANGED vars
  BY <1>11 DEF vars, IInv, TypeOK, StoredValid, HeldValid, NoOrphanEvents, Issued,
     CreatesFresh, Exists, Get, Validate, WellFormed, Busy
<1> QED
  BY <1>1, <1>2, <1>3, <1>4, <1>5, <1>6, <1>7, <1>8, <1>9, <1>10, <1>11 DEF Next

(* IInv holds in every reachable state of the service. *)
THEOREM Inductive == Spec => []IInv
<1>1. Init => IInv
  BY InitInv
<1>2. IInv /\ [Next]_vars => IInv'
  BY StepInv
<1> QED
  BY <1>1, <1>2, PTL DEF Spec

(* The variables of the service keep their types: the maps, the counter,   *)
(* and the requests the clients hold.                                      *)
THEOREM TypeCorrect == Spec => []TypeOK
<1>1. IInv => TypeOK
  BY DEF IInv
<1> QED
  BY <1>1, Inductive, PTL

(* A stored incident is resolved exactly when it has a resolved_at stamp,  *)
(* for any number of concurrent updates.                                   *)
THEOREM ResolvedConsistency == Spec => []ResolvedConsistent
<1>1. IInv => ResolvedConsistent
  BY DEF IInv, StoredValid, ResolvedConsistent, Validate, WellFormed, Get
<1> QED
  BY <1>1, Inductive, PTL

(* The repository refuses an object of the service only when its update is *)
(* stamped before the creation of its incident: no stale snapshot, no      *)
(* sequence of transitions and no concurrent creation leads to a refusal.  *)
THEOREM RefusalsAreTheClocks == Spec => RefusedOnlyBehindClock
<1> DEFINE Refusal(c) == /\ Busy(c) /\ ~Busy(c)'
                         /\ result'[c] \in {"invalid_input", "already_exists"}
<1>1. ASSUME IInv, [Next]_vars, NEW c \in Clients, Refusal(c)
      PROVE  local[c].object.behind
  <2>1. ASSUME NEW d \in Clients, NEW r \in Result, Finish(d, r)
        PROVE  d = c /\ r \in {"invalid_input", "already_exists"}
    BY <1>1, <2>1 DEF Finish, Busy, IInv, TypeOK
  <2>2. ASSUME NEW d \in Clients, NEW r \in {"ok", "not_found", "context"}, Finish(d, r)
        PROVE  FALSE
    BY <2>1, <2>2 DEF Result
  <2>3. ASSUME NEW d \in Clients,
               \/ \E p \in PC \ {"idle"} : GoTo(d, p)
               \/ \E p \in PC \ {"idle"}, o \in Object : Begin(d, p, o)
               \/ \E r \in Result : Answer(d, r)
        PROVE  FALSE
    BY <1>1, <2>3 DEF GoTo, Begin, Answer, Busy, IInv, TypeOK
  <2>4. ASSUME NEW d \in Clients, CreateStore(d)
        PROVE  FALSE
    <3>1. Create(local[d].object) /\ GoTo(d, "create_event")
      BY <1>1, <2>4, HeldFacts DEF CreateStore, Busy
    <3> QED
      BY <2>3, <3>1 DEF PC
  <2>5. ASSUME NEW d \in Clients, StatusUpdate(d) \/ ResponderUpdate(d)
        PROVE  local[c].object.behind
    <3>1. PICK p \in {"status_event", "responder_event"} : StoreHeldObject(d, p)
      BY <2>5 DEF StatusUpdate, ResponderUpdate
    <3>2. Busy(d) /\ p \in PC \ {"idle"}
      BY <2>5, <3>1 DEF StatusUpdate, ResponderUpdate, Busy, PC
    <3>3. CASE GoTo(d, p)
      BY <2>3, <3>2, <3>3
    <3>4. CASE Fails(d, "not_found")
      BY <2>2, <3>4 DEF Fails
    <3>5. CASE ~Validate(local[d].object) /\ Fails(d, "invalid_input")
      <4>1. d = c
        BY <2>1, <3>5 DEF Fails, Result
      <4>2. WellFormed(local[d].object) /\ local[d].object \in Object
        BY <1>1, <3>2, HeldFacts
      <4> QED
        BY <3>5, <4>1, <4>2 DEF Validate, Object
    <3> QED
      BY <3>1, <3>3, <3>4, <3>5 DEF StoreHeldObject
  <2>6. ASSUME NEW d \in Clients,
               \/ CreateEvent(d) \/ StatusEvent(d) \/ ResponderEvent(d)
               \/ RecordStore(d) \/ ContextDone(d)
        PROVE  FALSE
    BY <2>2, <2>6 DEF CreateEvent, StatusEvent, ResponderEvent, AddServiceEvent,
       RecordStore, ContextDone, Fails
  <2>7. ASSUME NEW d \in Clients,
               \/ CreateIncident(d)
               \/ \E id \in Ids :
                     \/ \E status \in Status : UpdateStatus(d, id, status)
                     \/ \E responder \in Responders : AddResponder(d, id, responder)
                     \/ RecordCustomEvent(d, id)
                     \/ DeleteIncident(d, id)
        PROVE  FALSE
    <3>1. pc[d] = "idle"
      BY <2>7 DEF CreateIncident, UpdateStatus, AddResponder, RecordCustomEvent,
         DeleteIncident, MayIssue
    <3>2. d # c
      BY <1>1, <3>1 DEF Busy
    <3>3. pc' = pc \/ \E p \in PC : pc' = [pc EXCEPT ![d] = p]
      BY <2>7 DEF CreateIncident, UpdateStatus, AddResponder, RecordCustomEvent,
         DeleteIncident, Begin, Answer, PC
    <3> QED
      BY <1>1, <3>2, <3>3 DEF Busy, IInv, TypeOK
  <2>8. CASE NewYear \/ UNCHANGED vars
    BY <1>1, <2>8 DEF NewYear, vars, Busy
  <2> QED
    BY <1>1, <2>4, <2>5, <2>6, <2>7, <2>8 DEF Next
<1>2. IInv /\ [Next]_vars
      => [\A c \in Clients : Refusal(c) => local[c].object.behind]_vars
  BY <1>1
<1> QED
  BY <1>2, Inductive, PTL DEF Spec, RefusedOnlyBehindClock

(* The events map never holds events of an incident that is not stored.    *)
THEOREM NoOrphans == Spec => []NoOrphanEvents
<1>1. IInv => NoOrphanEvents
  BY DEF IInv
<1> QED
  BY <1>1, Inductive, PTL

-----------------------------------------------------------------------------
(* Human-readable IDs: no step adds a bearer of an ID but CreateIncident,  *)
(* whose new ID is not spent.                                              *)

LEMMA BearerTypes ==
    ASSUME IInv
    PROVE  \A b \in Bearers : b[2] \in HumanID
<1>1. \A id \in Ids : Exists(id) => incidents[id].humanID \in HumanID
  BY DEF IInv, TypeOK, Exists, Incident
<1>2. \A c \in Clients : Busy(c) => local[c].object.humanID \in HumanID
  BY HeldFacts DEF Object
<1> QED
  BY <1>1, <1>2 DEF Bearers

(* Repository part of a step that makes no new record. *)
LEMMA KeepBearers ==
    ASSUME NEW c \in Clients,
           UNCHANGED incidents,
           \A d \in Clients : Busy(d)' => Busy(d) /\ local'[d].object = local[d].object
    PROVE  Bearers' \subseteq Bearers
BY DEF Bearers, Exists

LEMMA FinishKeeps ==
    ASSUME IInv, NEW c \in Clients, NEW r, Finish(c, r)
    PROVE  \A d \in Clients : Busy(d)' => Busy(d) /\ local'[d].object = local[d].object
BY DEF IInv, TypeOK, Finish, Busy

LEMMA BeginKeeps ==
    ASSUME IInv, NEW c \in Clients, NEW p, NEW o, Begin(c, p, o), UNCHANGED incidents,
           o.id \in Ids, Exists(o.id), o.humanID = incidents[o.id].humanID
    PROVE  Bearers' \subseteq Bearers
<1>1. local'[c].object = o /\ \A d \in Clients \ {c} : Busy(d)' <=> Busy(d)
  BY DEF IInv, TypeOK, Begin, Busy
<1>2. \A d \in Clients \ {c} : local'[d].object = local[d].object
  BY DEF IInv, TypeOK, Begin
<1> QED
  BY <1>1, <1>2 DEF Bearers, Exists

LEMMA StoreKeeps ==
    ASSUME IInv, NEW c \in Clients, Busy(c), NEW p,
           Create(local[c].object) \/ Update(local[c].object), GoTo(c, p)
    PROVE  Bearers' \subseteq Bearers
<1> DEFINE o == local[c].object
<1>1. o \in Object /\ o.id \in Ids
  BY HeldFacts
<1>2. incidents' = [incidents EXCEPT ![o.id] = CopyIncident(o)]
  BY DEF Create, Update
<1>3. \A id \in Ids : id # o.id => incidents'[id] = incidents[id]
  BY <1>1, <1>2 DEF IInv, TypeOK
<1>4. incidents'[o.id].humanID = o.humanID
  BY <1>1, <1>2 DEF IInv, TypeOK, CopyIncident
<1>5. local' = local /\ \A d \in Clients : Busy(d)' => Busy(d)
  BY DEF GoTo, Busy, IInv, TypeOK
<1>6. ASSUME NEW b \in Bearers' PROVE b \in Bearers
  <2>1. CASE \E id \in Ids : Exists(id)' /\ b = <<id, incidents'[id].humanID>>
    <3>1. PICK id \in Ids : Exists(id)' /\ b = <<id, incidents'[id].humanID>>
      BY <2>1
    <3>2. CASE id = o.id
      BY <3>1, <3>2, <1>4 DEF Bearers
    <3>3. CASE id # o.id
      BY <3>1, <3>3, <1>3 DEF Bearers, Exists
    <3> QED
      BY <3>2, <3>3
  <2>2. CASE \E d \in Clients : Busy(d)' /\ b = <<local'[d].object.id, local'[d].object.humanID>>
    BY <2>2, <1>5 DEF Bearers
  <2> QED
    BY <1>6, <2>1, <2>2 DEF Bearers
<1> QED
  BY <1>6

LEMMA StepKeepsBearers ==
    ASSUME IInv, [Next]_vars, ~\E c \in Clients : CreateIncident(c)
    PROVE  /\ Bearers' \subseteq Bearers
           /\ counter' = counter
           /\ year' \in Nat /\ year <= year'
<1>0. year \in Nat
  BY DEF IInv, TypeOK
<1>1. ASSUME NEW c \in Clients, CreateStore(c)
      PROVE  Bearers' \subseteq Bearers
  <2>1. Busy(c) /\ Create(local[c].object) /\ GoTo(c, "create_event")
    BY <1>1, HeldFacts DEF CreateStore, Busy
  <2> QED
    BY <2>1, StoreKeeps
<1>2. ASSUME NEW c \in Clients, NEW p, Busy(c), StoreHeldObject(c, p)
      PROVE  Bearers' \subseteq Bearers
  <2>1. CASE Update(local[c].object) /\ GoTo(c, p)
    BY <1>2, <2>1, StoreKeeps
  <2>2. CASE \E r \in Result : Fails(c, r)
    BY <2>2, FinishKeeps, KeepBearers DEF Fails, repoVars
  <2> QED
    BY <1>2, <2>1, <2>2 DEF StoreHeldObject, Result
<1>3. ASSUME NEW c \in Clients, NEW source, NEW to, AddServiceEvent(c, source, to)
      PROVE  Bearers' \subseteq Bearers
  BY <1>3, FinishKeeps, KeepBearers DEF AddServiceEvent, AddEvent, repoVars
<1>4. ASSUME NEW c \in Clients, RecordStore(c) \/ ContextDone(c)
      PROVE  Bearers' \subseteq Bearers
  BY <1>4, FinishKeeps, KeepBearers DEF RecordStore, ContextDone, Fails, AddEvent, repoVars
<1>5. ASSUME NEW c \in Clients, NEW r, Answer(c, r), UNCHANGED incidents
      PROVE  Bearers' \subseteq Bearers
  BY <1>5, KeepBearers DEF Answer, Busy
<1>6. ASSUME NEW c \in Clients, NEW id \in Ids, NEW status \in Status,
             UpdateStatus(c, id, status)
      PROVE  Bearers' \subseteq Bearers
  <2>1. CASE /\ Exists(id)
            /\ \E behind \in BOOLEAN :
                  Begin(c, "status", TransitionTo(Get(id), status, nextOp, behind))
    <3> PICK behind \in BOOLEAN : Begin(c, "status", TransitionTo(Get(id), status, nextOp, behind))
      BY <2>1
    <3>1. Get(id) \in Object /\ Get(id).id = id /\ Get(id).humanID = incidents[id].humanID
      BY <2>1, GetFacts DEF Get
    <3>2. TransitionTo(Get(id), status, nextOp, behind).id = id
          /\ TransitionTo(Get(id), status, nextOp, behind).humanID = incidents[id].humanID
      BY <3>1 DEF TransitionTo, RecordEvent, Object
    <3> QED
      BY <1>6, <2>1, <3>2, BeginKeeps DEF UpdateStatus
  <2> QED
    BY <1>5, <1>6, <2>1 DEF UpdateStatus
<1>7. ASSUME NEW c \in Clients, NEW id \in Ids, NEW responder \in Responders,
             AddResponder(c, id, responder)
      PROVE  Bearers' \subseteq Bearers
  <2>1. CASE /\ Exists(id)
            /\ \E behind \in BOOLEAN :
                  Begin(c, "responder", [Get(id) EXCEPT !.assignee = responder, !.behind = behind])
    <3> PICK behind \in BOOLEAN :
          Begin(c, "responder", [Get(id) EXCEPT !.assignee = responder, !.behind = behind])
      BY <2>1
    <3> DEFINE o == [Get(id) EXCEPT !.assignee = responder, !.behind = behind]
    <3>1. Get(id) \in Object /\ Get(id).id = id /\ Get(id).humanID = incidents[id].humanID
      BY <2>1, GetFacts DEF Get
    <3>2. o.id = id /\ o.humanID = incidents[id].humanID
      BY <3>1 DEF Object
    <3> QED
      BY <1>7, <2>1, <3>2, BeginKeeps DEF AddResponder
  <2> QED
    BY <1>5, <1>7, <2>1 DEF AddResponder
<1>8. ASSUME NEW c \in Clients, NEW id \in Ids, RecordCustomEvent(c, id)
      PROVE  Bearers' \subseteq Bearers
  <2>1. CASE Exists(id) /\ Begin(c, "record", Get(id))
    <3>1. Get(id).id = id /\ Get(id).humanID = incidents[id].humanID
      BY <2>1, GetFacts DEF Get
    <3> QED
      BY <1>8, <2>1, <3>1, BeginKeeps DEF RecordCustomEvent
  <2> QED
    BY <1>5, <1>8, <2>1 DEF RecordCustomEvent
<1>9. ASSUME NEW c \in Clients, NEW id \in Ids, DeleteIncident(c, id)
      PROVE  Bearers' \subseteq Bearers
  <2>1. \A d \in Clients : Busy(d)' <=> Busy(d)
    BY <1>9 DEF DeleteIncident, Answer, Busy
  <2>2. local' = local
    BY <1>9 DEF DeleteIncident, Answer
  <2>3. \A i \in Ids : Exists(i)' => Exists(i) /\ incidents'[i] = incidents[i]
    BY <1>9 DEF DeleteIncident, Delete, repoVars, Exists, IInv, TypeOK
  <2> QED
    BY <2>1, <2>2, <2>3 DEF Bearers
<1>10. CASE NewYear \/ UNCHANGED vars
  BY <1>0, <1>10 DEF NewYear, vars, Bearers, Exists, Busy
<1>11. counter' = counter /\ year' \in Nat /\ year <= year'
  <2>1. NewYear \/ UNCHANGED <<year, counter>>
    BY DEF Next, vars, CreateStore, CreateEvent, StatusUpdate, StatusEvent,
       ResponderUpdate, ResponderEvent, RecordStore, ContextDone, UpdateStatus,
       AddResponder, RecordCustomEvent, DeleteIncident, StoreHeldObject, AddServiceEvent
  <2>2. CASE NewYear
    BY <1>0, <2>2 DEF NewYear
  <2>3. CASE UNCHANGED <<year, counter>>
    BY <1>0, <2>3
  <2> QED
    BY <2>1, <2>2, <2>3
<1>12. Bearers' \subseteq Bearers
  <2>1. CASE \E c \in Clients : CreateStore(c)
    BY <2>1, <1>1
  <2>2. CASE \E c \in Clients : StatusUpdate(c) \/ ResponderUpdate(c)
    BY <2>2, <1>2 DEF StatusUpdate, ResponderUpdate, Busy
  <2>3. CASE \E c \in Clients : CreateEvent(c) \/ StatusEvent(c) \/ ResponderEvent(c)
    BY <2>3, <1>3 DEF CreateEvent, StatusEvent, ResponderEvent
  <2>4. CASE \E c \in Clients : RecordStore(c) \/ ContextDone(c)
    BY <2>4, <1>4
  <2>5. CASE \E c \in Clients, id \in Ids :
                \/ \E status \in Status : UpdateStatus(c, id, status)
                \/ \E responder \in Responders : AddResponder(c, id, responder)
                \/ RecordCustomEvent(c, id)
                \/ DeleteIncident(c, id)
    BY <2>5, <1>6, <1>7, <1>8, <1>9
  <2> QED
    BY <1>10, <2>1, <2>2, <2>3, <2>4, <2>5 DEF Next
<1> QED
  BY <1>11, <1>12

LEMMA CreateAddsBearer ==
    ASSUME IInv, HumanInv, NEW c \in Clients, CreateIncident(c)
    PROVE  HumanInv'
<1>1. PICK id \in Ids \ used : Begin(c, "create", NewIncident(id, NextHumanID))
  BY DEF CreateIncident
<1>2. NextHumanID \in HumanID /\ counter \in [year : Nat, sequence : Nat] /\ year \in Nat
  BY NextHumanIDType DEF IInv, TypeOK
<1>h. PICK h \in HumanID : h = NextHumanID
  BY <1>2
<1>3. local'[c].object = NewIncident(id, h)
  BY <1>1, <1>h DEF Begin, IInv, TypeOK
<1>4. \A d \in Clients \ {c} : (Busy(d)' <=> Busy(d)) /\ local'[d] = local[d]
  BY <1>1 DEF Begin, IInv, TypeOK, Busy
<1>5. incidents' = incidents /\ year' = year
      /\ counter' = [year |-> year, sequence |-> h.seq]
  BY <1>h DEF CreateIncident, CountHumanID
<1>6. Bearers' \subseteq Bearers \cup {<<id, h>>}
  BY <1>3, <1>4, <1>5 DEF Bearers, Exists, NewIncident
<1>f. /\ counter.year <= year /\ h.year = year /\ h.seq \in Nat
      /\ counter.year = year => h.seq = counter.sequence + 1
  BY <1>2, <1>h DEF NextHumanID, HumanInv
<1>n. counter'.year = year /\ counter'.sequence = h.seq
  BY <1>5
<1>7. ~Spent(h) /\ Spent(h)'
  BY <1>2, <1>f, <1>n DEF Spent
<1>8. \A g \in HumanID : Spent(g) => Spent(g)'
  BY <1>2, <1>f, <1>n DEF Spent, HumanID
<1>9. \A b \in Bearers' : Spent(b[2])'
  BY <1>6, <1>7, <1>8, BearerTypes DEF HumanInv
<1>10. \A a, b \in Bearers' : a[1] # b[1] => a[2] # b[2]
  BY <1>6, <1>7 DEF HumanInv
<1>11. counter'.year <= year'
  BY <1>2, <1>5
<1> QED
  BY <1>9, <1>10, <1>11 DEF HumanInv

LEMMA HumanStep == IInv /\ HumanInv /\ [Next]_vars => HumanInv'
<1> SUFFICES ASSUME IInv, HumanInv, [Next]_vars
             PROVE  HumanInv'
  OBVIOUS
<1>1. CASE \E c \in Clients : CreateIncident(c)
  BY <1>1, CreateAddsBearer
<1>2. CASE ~\E c \in Clients : CreateIncident(c)
  <2>1. Bearers' \subseteq Bearers /\ counter' = counter /\ year' \in Nat /\ year <= year'
    BY <1>2, StepKeepsBearers
  <2>2. counter'.year <= year'
    BY <2>1 DEF HumanInv, IInv, TypeOK
  <2> QED
    BY <2>1, <2>2 DEF HumanInv, Spent
<1> QED
  BY <1>1, <1>2

(* No two stored incidents share a human-readable ID, for any number of    *)
(* concurrent creations and any sequence of year changes.                  *)
THEOREM HumanIDUniqueness == Spec => []HumanIDsUnique
<1>1. Init => HumanInv
  <2> SUFFICES ASSUME Init PROVE HumanInv
    OBVIOUS
  <2>1. Bearers = {}
    BY DEF Init, RepoInit, Bearers, Exists, Busy
  <2> QED
    BY <2>1, ServiceAssumption DEF Init, HumanInv
<1>2. HumanInv => HumanIDsUnique
  <2> SUFFICES ASSUME HumanInv, NEW i \in Ids, NEW j \in Ids, i # j, Exists(i), Exists(j)
               PROVE  incidents[i].humanID # incidents[j].humanID
    BY DEF HumanIDsUnique
  <2> DEFINE a == <<i, incidents[i].humanID>>
             b == <<j, incidents[j].humanID>>
  <2>1. a \in Bearers /\ b \in Bearers
    BY DEF Bearers
  <2>2. a[1] # b[1] => a[2] # b[2]
    BY <2>1 DEF HumanInv
  <2> QED
    BY <2>2
<1> QED
  BY <1>1, <1>2, HumanStep, Inductive, PTL DEF Spec

(* No step brings a deleted incident back, although an Update may still be *)
(* under way with a snapshot of it.                                        *)
THEOREM NoResurrection == Spec => DeletedStaysDeleted
<1>1. ASSUME IInv, [Next]_vars, NEW id \in Ids, Gone(id), Exists(id)'
      PROVE  FALSE
  <2>1. ASSUME NEW c \in Clients, NEW o \in Object, Create(o) \/ Update(o)
        PROVE  Exists(id)' => Exists(id) \/ id = o.id
    BY <1>1, <2>1, StoreEffect
  <2>2. ASSUME NEW c \in Clients, CreateStore(c) PROVE FALSE
    BY <1>1, <2>1, <2>2, HeldFacts DEF CreateStore, Gone, Busy, Fails, repoVars, Exists
  <2>3. ASSUME NEW c \in Clients, StatusUpdate(c) \/ ResponderUpdate(c) PROVE FALSE
    BY <1>1, <2>1, <2>3, HeldFacts DEF StatusUpdate, ResponderUpdate, StoreHeldObject,
       Update, Gone, Busy, Fails, repoVars, Exists
  <2>4. UNCHANGED incidents \/ \E c \in Clients, i \in Ids : Delete(i)
    BY <1>1, <2>2, <2>3
       DEF Next, vars, NewYear, CreateIncident, CreateEvent, StatusEvent, ResponderEvent,
           RecordStore, ContextDone, UpdateStatus, AddResponder, RecordCustomEvent,
           DeleteIncident, AddServiceEvent, AddEvent, Fails, repoVars
  <2> QED
    BY <1>1, <2>4 DEF Gone, Exists, Delete, IInv, TypeOK
<1>2. IInv /\ [Next]_vars => [\A id \in Ids : Gone(id) => ~Exists(id)']_vars
  BY <1>1
<1> QED
  BY <1>2, Inductive, PTL DEF Spec, DeletedStaysDeleted

-----------------------------------------------------------------------------
(* The trail explains the status, for the operations of the HTTP API: all  *)
(* but AddResponder.                                                       *)

LEMMA LeadsToNew == LeadsTo(<<>>, "triggered")
BY DEF LeadsTo, IsFirst, IsLast

(* What Append puts where. *)
LEMMA AppendPlaces ==
    ASSUME NEW trail \in Seq(Event), NEW e \in Event
    PROVE  /\ Len(trail) \in Nat /\ Len(Append(trail, e)) = Len(trail) + 1
           /\ Append(trail, e)[Len(trail) + 1] = e
           /\ \A k \in 1..Len(trail) : Append(trail, e)[k] = trail[k]
OBVIOUS

(* An event of another source changes nothing. *)
LEMMA LeadsToOther ==
    ASSUME NEW trail \in Seq(Event), NEW e \in Event, NEW status,
           e.source # "transition", LeadsTo(trail, status)
    PROVE  LeadsTo(Append(trail, e), status)
<1> DEFINE n == Len(trail)
           new == Append(trail, e)
<1>1. /\ n \in Nat /\ Len(new) = n + 1 /\ new[n + 1] = e
      /\ \A k \in 1..n : new[k] = trail[k]
  BY AppendPlaces
<1> HIDE DEF n, new
<1>2. \A k \in 1..Len(new) : new[k].source = "transition" => k \in 1..n /\ new[k] = trail[k]
  BY <1>1
<1>3. \A k \in 1..Len(new) : IsFirst(new, k) => CanTransitionTo("triggered", new[k].to)
  <2> SUFFICES ASSUME NEW k \in 1..Len(new), IsFirst(new, k)
               PROVE  CanTransitionTo("triggered", new[k].to)
    OBVIOUS
  <2>1. k \in 1..n /\ new[k] = trail[k]
    BY <1>2 DEF IsFirst
  <2>2. IsFirst(trail, k)
    BY <1>1, <2>1 DEF IsFirst
  <2> QED
    BY <2>1, <2>2 DEF LeadsTo, n
<1>4. \A j, k \in 1..Len(new) :
         Consecutive(new, j, k) => CanTransitionTo(new[j].to, new[k].to)
  <2> SUFFICES ASSUME NEW j \in 1..Len(new), NEW k \in 1..Len(new), Consecutive(new, j, k)
               PROVE  CanTransitionTo(new[j].to, new[k].to)
    OBVIOUS
  <2>1. j \in 1..n /\ new[j] = trail[j] /\ k \in 1..n /\ new[k] = trail[k]
    BY <1>2 DEF Consecutive
  <2>2. Consecutive(trail, j, k)
    BY <1>1, <2>1 DEF Consecutive
  <2> QED
    BY <2>1, <2>2 DEF LeadsTo, n
<1>5. \A k \in 1..Len(new) : IsLast(new, k) => new[k].to = status
  <2> SUFFICES ASSUME NEW k \in 1..Len(new), IsLast(new, k) PROVE new[k].to = status
    OBVIOUS
  <2>1. k \in 1..n /\ new[k] = trail[k]
    BY <1>2 DEF IsLast
  <2>2. IsLast(trail, k)
    BY <1>1, <2>1 DEF IsLast, n
  <2> QED
    BY <2>1, <2>2 DEF LeadsTo, n
<1>6. (\A k \in 1..Len(new) : new[k].source # "transition") => status = "triggered"
  BY <1>1 DEF LeadsTo, n
<1> QED
  BY <1>3, <1>4, <1>5, <1>6 DEF LeadsTo, new

(* A permitted transition leads on. *)
LEMMA LeadsToTransition ==
    ASSUME NEW trail \in Seq(Event), NEW e \in Event, NEW status \in Status,
           e.source = "transition", LeadsTo(trail, status), CanTransitionTo(status, e.to)
    PROVE  LeadsTo(Append(trail, e), e.to)
<1> DEFINE n == Len(trail)
           new == Append(trail, e)
<1>1. /\ n \in Nat /\ Len(new) = n + 1 /\ new[n + 1] = e
      /\ \A k \in 1..n : new[k] = trail[k]
  BY AppendPlaces
<1> HIDE DEF n, new
<1>2. \A k \in 1..Len(new) : k = n + 1 \/ (k \in 1..n /\ new[k] = trail[k])
  BY <1>1
<1>3. \A k \in 1..Len(new) : IsFirst(new, k) => CanTransitionTo("triggered", new[k].to)
  <2> SUFFICES ASSUME NEW k \in 1..Len(new), IsFirst(new, k)
               PROVE  CanTransitionTo("triggered", new[k].to)
    OBVIOUS
  <2>1. CASE k = n + 1
    <3>1. \A m \in 1..n : trail[m].source # "transition"
      BY <1>1, <2>1 DEF IsFirst
    <3>2. status = "triggered"
      BY <3>1 DEF LeadsTo, n
    <3> QED
      BY <1>1, <2>1, <3>2
  <2>2. CASE k \in 1..n /\ new[k] = trail[k]
    <3>1. IsFirst(trail, k)
      BY <1>1, <2>2 DEF IsFirst
    <3> QED
      BY <2>2, <3>1 DEF LeadsTo, n
  <2> QED
    BY <1>2, <2>1, <2>2
<1>4. \A j, k \in 1..Len(new) :
         Consecutive(new, j, k) => CanTransitionTo(new[j].to, new[k].to)
  <2> SUFFICES ASSUME NEW j \in 1..Len(new), NEW k \in 1..Len(new), Consecutive(new, j, k)
               PROVE  CanTransitionTo(new[j].to, new[k].to)
    OBVIOUS
  <2>1. j < k /\ j \in 1..n /\ new[j] = trail[j]
    BY <1>1, <1>2 DEF Consecutive
  <2>2. CASE k = n + 1
    <3>1. trail[j].source = "transition"
      BY <2>1 DEF Consecutive
    <3>2. \A m \in (j + 1)..n : trail[m].source # "transition"
      <4> SUFFICES ASSUME NEW m \in (j + 1)..n PROVE trail[m].source # "transition"
        OBVIOUS
      <4>1. m \in (j + 1)..(k - 1) /\ m \in 1..n
        BY <1>1, <2>1, <2>2
      <4> QED
        BY <1>1, <4>1 DEF Consecutive
    <3>3. IsLast(trail, j)
      BY <3>1, <3>2 DEF IsLast, n
    <3>4. \A m \in 1..n : IsLast(trail, m) => trail[m].to = status
      BY DEF LeadsTo, n
    <3>5. trail[j].to = status
      BY <2>1, <3>3, <3>4
    <3> QED
      BY <1>1, <2>1, <2>2, <3>5
  <2>3. CASE k \in 1..n /\ new[k] = trail[k]
    <3>1. ASSUME NEW m \in (j + 1)..(k - 1) PROVE trail[m].source # "transition"
      <4>1. m \in 1..n /\ new[m] = trail[m]
        BY <1>1, <2>1, <2>3
      <4> QED
        BY <4>1 DEF Consecutive
    <3>2. Consecutive(trail, j, k)
      BY <2>1, <2>3, <3>1 DEF Consecutive
    <3> QED
      BY <2>1, <2>3, <3>2 DEF LeadsTo, n
  <2> QED
    BY <1>2, <2>2, <2>3
<1>5. \A k \in 1..Len(new) : IsLast(new, k) => new[k].to = e.to
  <2> SUFFICES ASSUME NEW k \in 1..Len(new), IsLast(new, k) PROVE k = n + 1
    BY <1>1
  <2>1. n + 1 \notin (k + 1)..Len(new)
    BY <1>1 DEF IsLast
  <2> QED
    BY <1>1, <2>1
<1>6. n + 1 \in 1..Len(new) /\ new[n + 1].source = "transition"
  BY <1>1
<1> QED
  BY <1>3, <1>4, <1>5, <1>6 DEF LeadsTo, new

-----------------------------------------------------------------------------

(* An incident about to be created is new, and an update under way brings  *)
(* a trail of its own, which replaces the stored one together with the     *)
(* status.                                                                 *)
TrailHeld ==
    \A c \in Clients :
        /\ pc[c] = "create" => /\ local[c].object.events = <<>>
                               /\ local[c].object.status = "triggered"
        /\ pc[c] = "status" => /\ Len(local[c].object.events) > 0
                               /\ LeadsTo(local[c].object.events, local[c].object.status)
        /\ pc[c] # "responder"

TrailInv == TrailExplainsStatus /\ TrailHeld

(* Clients that reach no new call of the repository hold what they held. *)
LEMMA HeldTrailsKept ==
    ASSUME TrailHeld,
           \A c \in Clients : pc'[c] \in {"create", "status", "responder"} =>
                                 pc'[c] = pc[c] /\ local'[c] = local[c]
    PROVE  TrailHeld'
BY DEF TrailHeld

LEMMA LeavesRepository ==
    ASSUME TrailExplainsStatus, UNCHANGED <<incidents, events>>
    PROVE  TrailExplainsStatus'
BY DEF TrailExplainsStatus, Exists

LEMMA FinishKeepsTrails ==
    ASSUME IInv, TrailHeld, NEW c \in Clients, NEW r, Finish(c, r) \/ Answer(c, r)
    PROVE  TrailHeld'
<1>1. \A d \in Clients : pc'[d] \in {"create", "status", "responder"} =>
                            pc'[d] = pc[d] /\ local'[d] = local[d]
  BY DEF Finish, Answer, IInv, TypeOK
<1> QED
  BY <1>1, HeldTrailsKept

LEMMA BeginKeepsTrails ==
    ASSUME IInv, TrailHeld, NEW c \in Clients, NEW p \in {"create", "status", "record"},
           NEW o, Begin(c, p, o),
           p = "create" => o.events = <<>> /\ o.status = "triggered",
           p = "status" => Len(o.events) > 0 /\ LeadsTo(o.events, o.status)
    PROVE  TrailHeld'
<1>1. pc'[c] = p /\ local'[c].object = o
  BY DEF Begin, IInv, TypeOK
<1>2. \A d \in Clients \ {c} : pc'[d] = pc[d] /\ local'[d] = local[d]
  BY DEF Begin, IInv, TypeOK
<1> QED
  BY <1>1, <1>2 DEF TrailHeld

(* The repository takes a record and its trail together. *)
LEMMA StoredTrail ==
    ASSUME IInv, TrailInv, NEW c \in Clients,
           \/ pc[c] = "create" /\ Create(local[c].object)
           \/ pc[c] = "status" /\ Update(local[c].object)
    PROVE  TrailExplainsStatus'
<1> DEFINE o == local[c].object
<1>1. o \in Object /\ o.id \in Ids
  BY HeldFacts DEF Busy
<1>2. incidents' = [incidents EXCEPT ![o.id] = CopyIncident(o)] /\ StoreEvents(o)
  BY DEF Create, Update
<1>3. \A id \in Ids \ {o.id} : incidents'[id] = incidents[id] /\ events'[id] = events[id]
  BY <1>1, <1>2 DEF StoreEvents, IInv, TypeOK
<1>4. incidents'[o.id].status = o.status
  BY <1>1, <1>2 DEF CopyIncident, IInv, TypeOK
<1>5. LeadsTo(events'[o.id], o.status)
  <2>1. CASE pc[c] = "create" /\ Create(o)
    <3>1. events[o.id] = <<>>
      BY <1>1, <2>1 DEF Create, IInv, NoOrphanEvents
    <3>2. o.events = <<>> /\ o.status = "triggered"
      BY <2>1 DEF TrailInv, TrailHeld
    <3>3. events' = events
      BY <1>2, <3>2 DEF StoreEvents
    <3> QED
      BY <3>1, <3>2, <3>3, LeadsToNew
  <2>2. CASE pc[c] = "status"
    <3>1. Len(o.events) > 0 /\ LeadsTo(o.events, o.status)
      BY <2>2 DEF TrailInv, TrailHeld
    <3>2. events'[o.id] = o.events
      BY <1>1, <1>2, <3>1 DEF StoreEvents, IInv, TypeOK
    <3> QED
      BY <3>1, <3>2
  <2> QED
    BY <2>1, <2>2
<1> QED
  BY <1>3, <1>4, <1>5 DEF TrailInv, TrailExplainsStatus, Exists

LEMMA AddedEventTrail ==
    ASSUME IInv, TrailExplainsStatus, NEW e \in Event, e.source # "transition", AddEvent(e)
    PROVE  TrailExplainsStatus'
<1>1. e.incident \in Ids /\ incidents' = incidents
  BY DEF Event, AddEvent
<1>2. \A id \in Ids \ {e.incident} : events'[id] = events[id]
  BY <1>1 DEF AddEvent, IInv, TypeOK
<1>3. events'[e.incident] = Append(events[e.incident], e)
      /\ events[e.incident] \in Seq(Event) /\ Exists(e.incident)
  BY <1>1 DEF AddEvent, IInv, TypeOK
<1>4. LeadsTo(events'[e.incident], incidents[e.incident].status)
  BY <1>1, <1>3, LeadsToOther DEF TrailExplainsStatus
<1> QED
  BY <1>1, <1>2, <1>4 DEF TrailExplainsStatus, Exists

LEMMA EventCallTrails ==
    ASSUME IInv, TrailInv, NEW c \in Clients, Busy(c),
           NEW source \in EventSource, source # "transition", NEW to \in Status,
           \/ AddEvent(EventOf(c, source, to)) \/ UNCHANGED repoVars,
           \E r : Finish(c, r)
    PROVE  TrailInv'
<1>1. TrailHeld'
  BY FinishKeepsTrails DEF TrailInv
<1>2. CASE UNCHANGED repoVars
  BY <1>1, <1>2, LeavesRepository DEF TrailInv, repoVars
<1>3. CASE AddEvent(EventOf(c, source, to))
  <2>1. EventOf(c, source, to) \in Event /\ EventOf(c, source, to).source = source
    BY HeldFacts DEF EventOf
  <2>2. TrailExplainsStatus'
    BY <1>3, <2>1, AddedEventTrail DEF TrailInv
  <2> QED
    BY <1>1, <2>2 DEF TrailInv
<1> QED
  BY <1>2, <1>3

LEMMA UpdateStatusTrails ==
    ASSUME IInv, TrailInv, NEW c \in Clients, NEW id \in Ids, NEW status \in Status,
           UpdateStatus(c, id, status)
    PROVE  TrailInv'
<1>1. TrailExplainsStatus'
  BY LeavesRepository DEF UpdateStatus, TrailInv
<1>2. CASE \E r : Answer(c, r)
  BY <1>1, <1>2, FinishKeepsTrails DEF TrailInv
<1>3. CASE /\ Exists(id) /\ CanTransitionTo(incidents[id].status, status)
           /\ \E behind \in BOOLEAN :
                 Begin(c, "status", TransitionTo(Get(id), status, nextOp, behind))
  <2> PICK behind \in BOOLEAN : Begin(c, "status", TransitionTo(Get(id), status, nextOp, behind))
    BY <1>3
  <2> DEFINE o == TransitionTo(Get(id), status, nextOp, behind)
             e == [incident |-> id, source |-> "transition", to |-> status, op |-> nextOp]
  <2>1. Get(id) \in Object /\ Get(id).id = id /\ Get(id).events = events[id]
    BY <1>3, GetFacts DEF Get
  <2>2. events[id] \in Seq(Event) /\ incidents[id].status \in Status
    BY <1>3 DEF IInv, TypeOK, Exists, Incident
  <2>3. e \in Event
    BY DEF Event, EventSource, IInv, TypeOK
  <2>4. o.status = status /\ o.events = Append(events[id], e)
    BY <2>1 DEF TransitionTo, RecordEvent, Object
  <2>5. LeadsTo(events[id], incidents[id].status)
    BY <1>3 DEF TrailInv, TrailExplainsStatus
  <2>6. LeadsTo(Append(events[id], e), status)
    BY <1>3, <2>2, <2>3, <2>5, LeadsToTransition
  <2>7. Len(Append(events[id], e)) > 0
    BY <2>2, <2>3, AppendPlaces
  <2> HIDE DEF o, e
  <2>8. Begin(c, "status", o)
    BY <1>3 DEF o
  <2>9. TrailHeld'
    BY <2>4, <2>6, <2>7, <2>8, BeginKeepsTrails DEF TrailInv
  <2> QED
    BY <1>1, <2>9 DEF TrailInv
<1> QED
  BY <1>2, <1>3 DEF UpdateStatus

LEMMA TrailStep ==
    ASSUME "responder" \notin Kinds, IInv, TrailInv, [Next]_vars
    PROVE  TrailInv'
<1>1. ASSUME NEW c \in Clients, CreateIncident(c) PROVE TrailInv'
  <2>1. PICK id \in Ids : Begin(c, "create", NewIncident(id, NextHumanID))
    BY <1>1 DEF CreateIncident
  <2>2. TrailHeld'
    BY <2>1, BeginKeepsTrails DEF TrailInv, NewIncident
  <2> QED
    BY <1>1, <2>2, LeavesRepository DEF CreateIncident, TrailInv
<1>2. ASSUME NEW c \in Clients, NEW p \in {"create_event", "status_event"}, GoTo(c, p),
             \/ pc[c] = "create" /\ Create(local[c].object)
             \/ pc[c] = "status" /\ Update(local[c].object)
      PROVE  TrailInv'
  <2>1. \A d \in Clients : pc'[d] \in {"create", "status", "responder"} =>
                              pc'[d] = pc[d] /\ local'[d] = local[d]
    BY <1>2 DEF GoTo, IInv, TypeOK
  <2> QED
    BY <1>2, <2>1, HeldTrailsKept, StoredTrail DEF TrailInv
<1>3. ASSUME NEW c \in Clients, NEW r, Fails(c, r) PROVE TrailInv'
  BY <1>3, FinishKeepsTrails, LeavesRepository DEF Fails, repoVars, TrailInv
<1>4. ASSUME NEW c \in Clients, CreateStore(c) PROVE TrailInv'
  BY <1>2, <1>3, <1>4 DEF CreateStore
<1>5. ASSUME NEW c \in Clients, StatusUpdate(c) PROVE TrailInv'
  BY <1>2, <1>3, <1>5 DEF StatusUpdate, StoreHeldObject
<1>6. ASSUME NEW c \in Clients, CreateEvent(c) \/ StatusEvent(c) \/ ResponderEvent(c)
      PROVE  TrailInv'
  <2>1. Busy(c)
    BY <1>6 DEF CreateEvent, StatusEvent, ResponderEvent, Busy
  <2>2. local[c].object.status \in Status
    BY <2>1, HeldFacts DEF Object
  <2>3. PICK source \in EventSource \ {"transition"}, to \in Status :
           AddServiceEvent(c, source, to)
    BY <1>6, <2>2 DEF CreateEvent, StatusEvent, ResponderEvent, EventSource, Status
  <2> QED
    BY <2>1, <2>3, EventCallTrails DEF AddServiceEvent
<1>7. ASSUME NEW c \in Clients, ResponderUpdate(c) PROVE TrailInv'
  BY <1>7 DEF ResponderUpdate, TrailInv, TrailHeld
<1>8. ASSUME NEW c \in Clients, RecordStore(c) PROVE TrailInv'
  <2>1. Busy(c) /\ "custom" \in EventSource /\ "triggered" \in Status
    BY <1>8 DEF RecordStore, Busy, EventSource, Status
  <2>2. /\ AddEvent(EventOf(c, "custom", "triggered")) \/ UNCHANGED repoVars
        /\ \E r : Finish(c, r)
    BY <1>8 DEF RecordStore, Fails
  <2> QED
    BY <2>1, <2>2, EventCallTrails
<1>9. ASSUME NEW c \in Clients, ContextDone(c) PROVE TrailInv'
  BY <1>3, <1>9 DEF ContextDone
<1>10. ASSUME NEW c \in Clients, NEW id \in Ids, RecordCustomEvent(c, id) PROVE TrailInv'
  <2>1. TrailHeld'
    BY <1>10, FinishKeepsTrails, BeginKeepsTrails DEF RecordCustomEvent, TrailInv
  <2> QED
    BY <1>10, <2>1, LeavesRepository DEF RecordCustomEvent, TrailInv
<1>11. ASSUME NEW c \in Clients, NEW id \in Ids, DeleteIncident(c, id) PROVE TrailInv'
  <2>1. TrailHeld'
    BY <1>11, FinishKeepsTrails DEF DeleteIncident, TrailInv
  <2>2. TrailExplainsStatus'
    <3>1. CASE UNCHANGED repoVars
      BY <3>1, LeavesRepository DEF repoVars, TrailInv
    <3>2. CASE Delete(id)
      <4>1. \A i \in Ids : Exists(i)' => /\ Exists(i) /\ incidents'[i] = incidents[i]
                                         /\ events'[i] = events[i]
        BY <3>2 DEF Delete, Exists, IInv, TypeOK
      <4> QED
        BY <4>1 DEF TrailInv, TrailExplainsStatus
    <3> QED
      BY <1>11, <3>1, <3>2 DEF DeleteIncident
  <2> QED
    BY <2>1, <2>2 DEF TrailInv
<1>12. ASSUME NEW c \in Clients, NEW id \in Ids, NEW responder \in Responders,
              AddResponder(c, id, responder)
       PROVE  TrailInv'
  BY <1>12 DEF AddResponder, MayIssue
<1>13. CASE NewYear \/ UNCHANGED vars
  BY <1>13, LeavesRepository, HeldTrailsKept DEF NewYear, vars, TrailInv
<1> QED
  BY <1>1, <1>4, <1>5, <1>6, <1>7, <1>8, <1>9, <1>10, <1>11, <1>12, <1>13,
     UpdateStatusTrails DEF Next

(* Without AddResponder, the transitions in the trail of every stored      *)
(* incident are permitted, follow one another and end in its status, for   *)
(* any number of clients whose updates overwrite one another.              *)
THEOREM TrailsExplain == "responder" \notin Kinds => (Spec => []TrailExplainsStatus)
<1> SUFFICES ASSUME "responder" \notin Kinds PROVE Spec => []TrailExplainsStatus
  OBVIOUS
<1>1. Init => TrailInv
  BY DEF Init, RepoInit, TrailInv, TrailExplainsStatus, TrailHeld, Exists
<1>2. IInv /\ TrailInv /\ [Next]_vars => TrailInv'
  BY TrailStep
<1>3. TrailInv => TrailExplainsStatus
  BY DEF TrailInv
<1> QED
  BY <1>1, <1>2, <1>3, Inductive, PTL DEF Spec

-----------------------------------------------------------------------------
(* One client at a time, the service is the ledger.                        *)

OneClient == \A c, d \in Clients : c = d

(* With nobody else about, the object of an operation is the stored one    *)
(* with the operation's change made to it.                                 *)
HoldsCurrent(c) ==
    LET o == local[c].object IN
    /\ pc[c] = "create" => o.events = <<>> /\ o.status = "triggered"
    /\ pc[c] = "status" =>
          /\ Exists(o.id) /\ CanTransitionTo(incidents[o.id].status, o.status)
          /\ \E e \in Event : /\ e.source = "transition" /\ e.to = o.status
                              /\ o.events = Append(events[o.id], e)
    /\ pc[c] = "responder" =>
          /\ Exists(o.id) /\ o.status = incidents[o.id].status
          /\ o.events = events[o.id]

SerialInv == \A c \in Clients : HoldsCurrent(c)

LEMMA StatusShown ==
    ASSUME IInv, NEW id \in Ids
    PROVE  /\ Statuses[id] = IF Exists(id) THEN incidents[id].status ELSE "absent"
           /\ Exists(id) <=> Statuses[id] \in Status
           /\ ~Exists(id) <=> Statuses[id] = "absent"
<1>1. Exists(id) => incidents[id].status \in Status
  BY DEF IInv, TypeOK, Exists, Incident
<1>2. Statuses[id] = IF Exists(id) THEN incidents[id].status ELSE "absent"
  BY DEF Statuses
<1> QED
  BY <1>1, <1>2 DEF Status

(* A write to the record of id changes the status shown of id at most. *)
LEMMA StatusChange ==
    ASSUME NEW id \in Ids, NEW s,
           \A i \in Ids \ {id} : incidents'[i] = incidents[i],
           (IF Exists(id) THEN incidents[id].status ELSE "absent")' = s
    PROVE  Statuses' = [Statuses EXCEPT ![id] = s]
<1>1. \A i \in Ids : Statuses'[i] = IF i = id THEN s ELSE Statuses[i]
  BY DEF Statuses, Exists
<1>2. Statuses' = [i \in Ids |-> Statuses'[i]] /\ Statuses = [i \in Ids |-> Statuses[i]]
  BY DEF Statuses
<1> QED
  BY <1>1, <1>2

LEMMA OpensLedger ==
    ASSUME IInv, IInv', NEW o \in Object, Create(o), o.events = <<>>, o.status = "triggered"
    PROVE  Ledger!Open(o.id)
<1>1. o.id \in Ids /\ ~Exists(o.id) /\ incidents' = [incidents EXCEPT ![o.id] = CopyIncident(o)]
  BY DEF Create, Object
<1>2. events' = events
  BY DEF Create, StoreEvents
<1>3. events[o.id] = <<>>
  BY <1>1 DEF IInv, NoOrphanEvents
<1>4. \A id \in Ids : Exists(id)' <=> Exists(id) \/ id = o.id
  BY StoreEffect
<1>5. incidents'[o.id].status = "triggered"
        /\ \A id \in Ids \ {o.id} : incidents'[id] = incidents[id]
  BY <1>1 DEF IInv, TypeOK, CopyIncident
<1>6. Statuses' = [Statuses EXCEPT ![o.id] = "triggered"]
  BY StatusChange, <1>1, <1>4, <1>5
<1> QED
  BY <1>1, <1>2, <1>3, <1>6, StatusShown DEF Ledger!Open

LEMMA MovesLedger ==
    ASSUME IInv, NEW o \in Object, Update(o), NEW e \in Event,
           e.source = "transition", e.to = o.status, o.events = Append(events[o.id], e),
           CanTransitionTo(incidents[o.id].status, o.status)
    PROVE  Ledger!Move(o.id)
<1>1. /\ o.id \in Ids /\ Exists(o.id) /\ o.status \in Status
      /\ incidents' = [incidents EXCEPT ![o.id] = CopyIncident(o)]
  BY DEF Update, Object
<1>2. events[o.id] \in Seq(Event)
  BY <1>1 DEF IInv, TypeOK
<1>3. Len(o.events) > 0 /\ o.events[Len(o.events)] = e /\ o.events # <<>>
  BY <1>2, AppendPlaces
<1>4. events' = [events EXCEPT ![o.id] = o.events]
  BY <1>3 DEF Update, StoreEvents
<1>5. events'[o.id] = o.events
  BY <1>1, <1>4 DEF IInv, TypeOK
<1>6. \A id \in Ids : Exists(id)' <=> Exists(id)
  BY <1>1, StoreEffect
<1>7. incidents'[o.id].status = o.status
        /\ \A id \in Ids \ {o.id} : incidents'[id] = incidents[id]
  BY <1>1 DEF IInv, TypeOK, CopyIncident
<1>8. Statuses' = [Statuses EXCEPT ![o.id] = o.status]
  BY StatusChange, <1>1, <1>6, <1>7
<1>9. Statuses[o.id] \in Status /\ Statuses[o.id] = incidents[o.id].status
  BY <1>1, StatusShown
<1>10. Ledger!Newest(o.id) = e
  BY <1>3, <1>5 DEF Ledger!Newest
<1>11. Ledger!Gains(o.id, Ledger!Newest(o.id))
  BY <1>3, <1>4, <1>5, <1>10 DEF Ledger!Gains
<1>12. Ledger!CanTransitionTo(Statuses[o.id], o.status)
  BY <1>1, <1>9, Zenon DEF Ledger!CanTransitionTo, CanTransitionTo, Ledger!Forward, Forward
<1> QED
  BY <1>1, <1>8, <1>9, <1>10, <1>11, <1>12 DEF Ledger!Move, Ledger!Status, Status

LEMMA RecordsInLedger ==
    ASSUME IInv, NEW e \in Event, e.source # "transition", AddEvent(e)
    PROVE  Ledger!Record(e.incident)
<1>1. /\ e.incident \in Ids /\ Exists(e.incident) /\ incidents' = incidents
      /\ events' = [events EXCEPT ![e.incident] = Append(events[e.incident], e)]
  BY DEF AddEvent, Event
<1>2. events[e.incident] \in Seq(Event)
      /\ events'[e.incident] = Append(events[e.incident], e)
  BY <1>1 DEF IInv, TypeOK
<1>3. events'[e.incident] # <<>> /\ events'[e.incident][Len(events'[e.incident])] = e
  BY <1>2, AppendPlaces
<1>4. Statuses[e.incident] \in Status
  BY <1>1, StatusShown
<1>5. Ledger!Newest(e.incident) = e
  BY <1>3 DEF Ledger!Newest
<1>6. Ledger!Gains(e.incident, Ledger!Newest(e.incident))
  BY <1>1, <1>3, <1>5 DEF Ledger!Gains
<1>7. UNCHANGED Statuses
  BY <1>1 DEF Statuses, Exists
<1> QED
  BY <1>4, <1>5, <1>6, <1>7 DEF Ledger!Record, Ledger!Status, Status

LEMMA RemovesFromLedger ==
    ASSUME IInv, NEW id \in Ids, Delete(id)
    PROVE  Ledger!Remove(id)
<1>1. Statuses[id] \in Status
  BY StatusShown DEF Delete
<1>2. events' = [events EXCEPT ![id] = <<>>]
  BY DEF Delete
<1>3. ~Exists(id)' /\ \A i \in Ids \ {id} : incidents'[i] = incidents[i]
  BY DEF Delete, Exists, IInv, TypeOK
<1>4. Statuses' = [Statuses EXCEPT ![id] = "absent"]
  BY StatusChange, <1>3
<1> QED
  BY <1>1, <1>2, <1>4 DEF Ledger!Remove, Ledger!Status, Status

(* A write of what is stored already is no step of the ledger. *)
LEMMA RewritesNothing ==
    ASSUME IInv, NEW o \in Object, Update(o), o.status = incidents[o.id].status,
           o.events = events[o.id]
    PROVE  UNCHANGED Ledger!ledgerVars
<1>1. /\ o.id \in Ids /\ Exists(o.id)
      /\ incidents' = [incidents EXCEPT ![o.id] = CopyIncident(o)]
  BY DEF Update, Object
<1>2. events' = events
  BY <1>1 DEF Update, StoreEvents, IInv, TypeOK
<1>3. \A id \in Ids : Exists(id)' <=> Exists(id)
  BY <1>1, StoreEffect
<1>4. \A id \in Ids : incidents'[id].status = incidents[id].status
  BY <1>1 DEF IInv, TypeOK, CopyIncident
<1> QED
  BY <1>2, <1>3, <1>4 DEF Ledger!ledgerVars, Statuses, Exists

LEMMA LedgerRests ==
    ASSUME UNCHANGED repoVars PROVE UNCHANGED Ledger!ledgerVars
BY DEF repoVars, Ledger!ledgerVars, Statuses, Exists

LedgerStep == [Ledger!LedgerNext]_(Ledger!ledgerVars)

(* A client that leaves the object of an operation behind holds nothing    *)
(* that could be out of date.                                              *)
LEMMA NothingHeld ==
    ASSUME OneClient, NEW c \in Clients,
           pc'[c] \notin {"create", "status", "responder"}
    PROVE  SerialInv'
BY DEF OneClient, SerialInv, HoldsCurrent

LEMMA LeavesSerial ==
    ASSUME OneClient, IInv, SerialInv, NEW c \in Clients,
           \/ \E r : Finish(c, r) \/ (pc[c] = "idle" /\ Answer(c, r))
           \/ \E p \in PC \ {"create", "status", "responder"} : GoTo(c, p)
    PROVE  SerialInv'
<1>1. pc'[c] \notin {"create", "status", "responder"}
  <2>1. CASE \E r : Answer(c, r) /\ pc[c] = "idle"
    BY <2>1 DEF Answer
  <2>2. CASE \E r : Finish(c, r)
    BY <2>2 DEF Finish, IInv, TypeOK
  <2>3. CASE \E p \in PC \ {"create", "status", "responder"} : GoTo(c, p)
    BY <2>3 DEF GoTo, IInv, TypeOK
  <2> QED
    BY <2>1, <2>2, <2>3
<1> QED
  BY <1>1, NothingHeld

LEMMA BeginSerial ==
    ASSUME OneClient, IInv, NEW c \in Clients, NEW p \in PC, NEW o, Begin(c, p, o),
           UNCHANGED <<incidents, events>>,
           p = "create" => o.events = <<>> /\ o.status = "triggered",
           p = "status" =>
              /\ Exists(o.id) /\ CanTransitionTo(incidents[o.id].status, o.status)
              /\ \E e \in Event : /\ e.source = "transition" /\ e.to = o.status
                                  /\ o.events = Append(events[o.id], e),
           p = "responder" =>
              /\ Exists(o.id) /\ o.status = incidents[o.id].status
              /\ o.events = events[o.id]
    PROVE  SerialInv'
<1>1. pc'[c] = p /\ local'[c].object = o
  BY DEF Begin, IInv, TypeOK
<1>2. HoldsCurrent(c)'
  BY <1>1 DEF HoldsCurrent, Exists
<1> QED
  BY <1>2 DEF SerialInv, OneClient

LEMMA EventCallLedger ==
    ASSUME IInv, NEW c \in Clients, Busy(c),
           NEW source \in EventSource, source # "transition", NEW to \in Status,
           \/ AddEvent(EventOf(c, source, to)) \/ UNCHANGED repoVars
    PROVE  LedgerStep
<1>1. EventOf(c, source, to) \in Event /\ EventOf(c, source, to).source = source
      /\ EventOf(c, source, to).incident \in Ids
  BY HeldFacts DEF EventOf
<1>2. CASE AddEvent(EventOf(c, source, to))
  BY <1>1, <1>2, RecordsInLedger DEF LedgerStep, Ledger!LedgerNext
<1> QED
  BY <1>2, LedgerRests DEF LedgerStep

LEMMA UpdateStatusSerial ==
    ASSUME OneClient, IInv, SerialInv, NEW c \in Clients, NEW id \in Ids,
           NEW status \in Status, UpdateStatus(c, id, status)
    PROVE  SerialInv'
<1>1. CASE \E r : Answer(c, r)
  BY <1>1, LeavesSerial DEF PC, UpdateStatus, MayIssue
<1>2. CASE /\ Exists(id) /\ CanTransitionTo(incidents[id].status, status)
           /\ \E behind \in BOOLEAN :
                 Begin(c, "status", TransitionTo(Get(id), status, nextOp, behind))
  <2> PICK behind \in BOOLEAN : Begin(c, "status", TransitionTo(Get(id), status, nextOp, behind))
    BY <1>2
  <2> DEFINE o == TransitionTo(Get(id), status, nextOp, behind)
             e == [incident |-> id, source |-> "transition", to |-> status, op |-> nextOp]
  <2>1. Get(id) \in Object /\ Get(id).id = id /\ Get(id).events = events[id]
    BY <1>2, GetFacts DEF Get
  <2>2. e \in Event /\ e.source = "transition" /\ e.to = status
    BY DEF Event, EventSource, IInv, TypeOK
  <2>3. o.id = id /\ o.status = status /\ o.events = Append(events[id], e)
    BY <2>1 DEF TransitionTo, RecordEvent, Object
  <2>4. "status" \in PC /\ UNCHANGED <<incidents, events>>
    BY DEF PC, UpdateStatus
  <2> HIDE DEF o, e
  <2>5. Begin(c, "status", o)
    BY <1>2 DEF o
  <2> QED
    BY <1>2, <2>2, <2>3, <2>4, <2>5, BeginSerial
<1> QED
  BY <1>1, <1>2 DEF UpdateStatus

LEMMA AddResponderSerial ==
    ASSUME OneClient, IInv, SerialInv, NEW c \in Clients, NEW id \in Ids,
           NEW responder \in Responders, AddResponder(c, id, responder)
    PROVE  SerialInv'
<1>1. CASE \E r : Answer(c, r)
  BY <1>1, LeavesSerial DEF PC, AddResponder, MayIssue
<1>2. CASE /\ Exists(id)
           /\ \E behind \in BOOLEAN :
                 Begin(c, "responder", [Get(id) EXCEPT !.assignee = responder, !.behind = behind])
  <2> PICK behind \in BOOLEAN :
        Begin(c, "responder", [Get(id) EXCEPT !.assignee = responder, !.behind = behind])
    BY <1>2
  <2> DEFINE o == [Get(id) EXCEPT !.assignee = responder, !.behind = behind]
  <2>1. Get(id) \in Object /\ Get(id).id = id
    BY <1>2, GetFacts
  <2>2. o.id = id /\ o.status = incidents[id].status /\ o.events = events[id]
    BY <2>1 DEF Get, Object
  <2>3. "responder" \in PC /\ UNCHANGED <<incidents, events>>
    BY DEF PC, AddResponder
  <2> QED
    BY <1>2, <2>2, <2>3, BeginSerial
<1> QED
  BY <1>1, <1>2 DEF AddResponder

LEMMA StoreLedger ==
    ASSUME IInv, IInv', SerialInv, NEW c \in Clients,
           \/ pc[c] = "create" /\ Create(local[c].object)
           \/ pc[c] \in {"status", "responder"} /\ Update(local[c].object)
    PROVE  LedgerStep
<1> DEFINE o == local[c].object
<1>1. o \in Object /\ o.id \in Ids
  BY HeldFacts DEF Busy
<1>2. HoldsCurrent(c)
  BY DEF SerialInv
<1>3. CASE pc[c] = "create" /\ Create(o)
  BY <1>1, <1>2, <1>3, OpensLedger DEF HoldsCurrent, LedgerStep, Ledger!LedgerNext
<1>4. CASE pc[c] = "status" /\ Update(o)
  <2>1. PICK e \in Event : /\ e.source = "transition" /\ e.to = o.status
                           /\ o.events = Append(events[o.id], e)
    BY <1>2, <1>4 DEF HoldsCurrent
  <2>2. CanTransitionTo(incidents[o.id].status, o.status)
    BY <1>2, <1>4 DEF HoldsCurrent
  <2>3. Ledger!Move(o.id)
    BY <1>1, <1>4, <2>1, <2>2, MovesLedger
  <2> QED
    BY <1>1, <2>3 DEF LedgerStep, Ledger!LedgerNext
<1>5. CASE pc[c] = "responder" /\ Update(o)
  <2>1. UNCHANGED Ledger!ledgerVars
    BY <1>1, <1>2, <1>5, RewritesNothing DEF HoldsCurrent
  <2> QED
    BY <2>1 DEF LedgerStep
<1> QED
  BY <1>3, <1>4, <1>5

LEMMA LedgerNextStep ==
    ASSUME OneClient, IInv, IInv', SerialInv, [Next]_vars
    PROVE  LedgerStep /\ SerialInv'
<1>1. ASSUME NEW c \in Clients, CreateIncident(c) PROVE LedgerStep /\ SerialInv'
  <2>1. PICK id \in Ids : Begin(c, "create", NewIncident(id, NextHumanID))
    BY <1>1 DEF CreateIncident
  <2>2. UNCHANGED <<incidents, events>> /\ "create" \in PC
    BY <1>1 DEF CreateIncident, PC
  <2>3. NewIncident(id, NextHumanID).events = <<>>
        /\ NewIncident(id, NextHumanID).status = "triggered"
    BY DEF NewIncident
  <2>4. SerialInv'
    BY <2>1, <2>2, <2>3, BeginSerial
  <2> QED
    BY <2>2, <2>4, LedgerRests DEF repoVars, LedgerStep
<1>2. ASSUME NEW c \in Clients, NEW r, Fails(c, r) PROVE LedgerStep /\ SerialInv'
  <2>1. SerialInv'
    BY <1>2, LeavesSerial DEF Fails
  <2>2. UNCHANGED Ledger!ledgerVars
    BY <1>2, LedgerRests DEF Fails
  <2> QED
    BY <2>1, <2>2 DEF LedgerStep
<1>3. ASSUME NEW c \in Clients, CreateStore(c) PROVE LedgerStep /\ SerialInv'
  <2>1. CASE Create(local[c].object) /\ GoTo(c, "create_event")
    BY <1>3, <2>1, StoreLedger, LeavesSerial DEF CreateStore, PC
  <2> QED
    BY <1>2, <1>3, <2>1 DEF CreateStore
<1>4. ASSUME NEW c \in Clients, StatusUpdate(c) \/ ResponderUpdate(c)
      PROVE  LedgerStep /\ SerialInv'
  <2>1. PICK p \in {"status_event", "responder_event"} : StoreHeldObject(c, p)
    BY <1>4 DEF StatusUpdate, ResponderUpdate
  <2>2. pc[c] \in {"status", "responder"}
    BY <1>4 DEF StatusUpdate, ResponderUpdate
  <2>3. CASE Update(local[c].object) /\ GoTo(c, p)
    BY <2>2, <2>3, StoreLedger, LeavesSerial DEF PC
  <2> QED
    BY <1>2, <2>1, <2>3 DEF StoreHeldObject
<1>5. ASSUME NEW c \in Clients, CreateEvent(c) \/ StatusEvent(c) \/ ResponderEvent(c)
      PROVE  LedgerStep /\ SerialInv'
  <2>1. Busy(c)
    BY <1>5 DEF CreateEvent, StatusEvent, ResponderEvent, Busy
  <2>2. local[c].object.status \in Status
    BY <2>1, HeldFacts DEF Object
  <2>3. PICK source \in EventSource \ {"transition"}, to \in Status :
           AddServiceEvent(c, source, to)
    BY <1>5, <2>2 DEF CreateEvent, StatusEvent, ResponderEvent, EventSource, Status
  <2>4. SerialInv'
    BY <2>3, LeavesSerial DEF AddServiceEvent
  <2> QED
    BY <2>1, <2>3, <2>4, EventCallLedger DEF AddServiceEvent
<1>6. ASSUME NEW c \in Clients, RecordStore(c) PROVE LedgerStep /\ SerialInv'
  <2>1. Busy(c) /\ "custom" \in EventSource /\ "triggered" \in Status
    BY <1>6 DEF RecordStore, Busy, EventSource, Status
  <2>2. /\ AddEvent(EventOf(c, "custom", "triggered")) \/ UNCHANGED repoVars
        /\ \E r : Finish(c, r)
    BY <1>6 DEF RecordStore, Fails
  <2>3. SerialInv'
    BY <2>2, LeavesSerial
  <2> QED
    BY <2>1, <2>2, <2>3, EventCallLedger DEF EventSource
<1>7. ASSUME NEW c \in Clients, ContextDone(c) PROVE LedgerStep /\ SerialInv'
  BY <1>2, <1>7 DEF ContextDone
<1>8. ASSUME NEW c \in Clients, NEW id \in Ids,
             \/ \E status \in Status : UpdateStatus(c, id, status)
             \/ \E responder \in Responders : AddResponder(c, id, responder)
      PROVE  LedgerStep /\ SerialInv'
  <2>1. SerialInv'
    BY <1>8, UpdateStatusSerial, AddResponderSerial
  <2> QED
    BY <1>8, <2>1, LedgerRests DEF UpdateStatus, AddResponder, repoVars, LedgerStep
<1>9. ASSUME NEW c \in Clients, NEW id \in Ids, RecordCustomEvent(c, id)
      PROVE  LedgerStep /\ SerialInv'
  <2>1. pc'[c] \in {pc[c], "record"} /\ pc[c] = "idle"
    BY <1>9 DEF RecordCustomEvent, Answer, Begin, MayIssue, IInv, TypeOK
  <2> QED
    BY <1>9, <2>1, NothingHeld, LedgerRests DEF RecordCustomEvent, repoVars, LedgerStep
<1>10. ASSUME NEW c \in Clients, NEW id \in Ids, DeleteIncident(c, id)
       PROVE  LedgerStep /\ SerialInv'
  <2>1. SerialInv'
    BY <1>10, LeavesSerial DEF DeleteIncident, MayIssue, PC
  <2>2. CASE Delete(id)
    BY <2>1, <2>2, RemovesFromLedger DEF LedgerStep, Ledger!LedgerNext
  <2> QED
    BY <1>10, <2>1, <2>2, LedgerRests DEF DeleteIncident, LedgerStep
<1>11. CASE NewYear \/ UNCHANGED vars
  <2>1. UNCHANGED <<incidents, events, pc, local>>
    BY <1>11 DEF NewYear, vars
  <2>2. SerialInv'
    BY <2>1 DEF SerialInv, HoldsCurrent, Exists
  <2> QED
    BY <2>1, <2>2, LedgerRests DEF repoVars, LedgerStep
<1> QED
  BY <1>1, <1>3, <1>4, <1>5, <1>6, <1>7, <1>8, <1>9, <1>10, <1>11 DEF Next

(* With one client at a time the service implements the ledger, for any    *)
(* incidents and any number of operations: a status moves only along the   *)
(* permitted transitions, together with its event, and trails only grow.   *)
THEOREM ServiceIsALedger == OneClient => (Spec => ImplementsLedger)
<1> SUFFICES ASSUME OneClient PROVE Spec => ImplementsLedger
  OBVIOUS
<1>1. Init => Ledger!LedgerInit /\ SerialInv
  BY DEF Init, RepoInit, Ledger!LedgerInit, Statuses, Exists, SerialInv, HoldsCurrent
<1>2. IInv /\ IInv' /\ SerialInv /\ [Next]_vars => LedgerStep /\ SerialInv'
  BY LedgerNextStep
<1> QED
  BY <1>1, <1>2, Inductive, PTL DEF Spec, ImplementsLedger, Ledger!LedgerSpec, LedgerStep

-----------------------------------------------------------------------------
(***************************************************************************)
(* The handlers use the service as it is: every step of the API is a step  *)
(* of the service or leaves it alone, so what is proved of the service     *)
(* holds under the API, and the answers the handlers give are honest.      *)
(***************************************************************************)


(* Every handler step is a step of IncidentService, or a stutter of it.    *)
LEMMA StepIsService ==
    ASSUME APITypeOK, [APINext]_allVars
    PROVE  [Next]_vars
<1>1. ASSUME NEW c \in Clients,
             \/ HandleCreateIncident(c) \/ ServiceStep(c) \/ ServiceUpdate(c)
             \/ CallFails(c) \/ AnswerCall(c) \/ AfterUpdate(c) \/ ReadBack(c)
      PROVE  [Next]_vars
  BY <1>1 DEF HandleCreateIncident, ServiceStep, ServiceUpdate, CallFails, AnswerCall,
     AfterUpdate, ReadBack, Next
<1>2. ASSUME NEW c \in Clients, RecordComment(c)
      PROVE  [Next]_vars
  <2>1. http[c].id \in Ids
    BY <1>2 DEF APITypeOK, HTTPRequest, RecordComment, At, Returned
  <2> QED
    BY <1>2, <2>1 DEF RecordComment, CommentStored, CommentAbandoned, Next
<1>3. ASSUME NEW c \in Clients, NEW id \in Ids,
             \/ \E status \in Wanted, comment \in Comment :
                   HandleUpdateStatus(c, id, status, comment)
             \/ HandleAddEvent(c, id)
             \/ \E code \in {408, 500} : HandleWithoutEffect(c, id, code)
             \/ DeleteElsewhere(c, id)
      PROVE  [Next]_vars
  BY <1>3, APIAssumption DEF HandleUpdateStatus, HandleAddEvent, HandleWithoutEffect,
     DeleteElsewhere, Next
<1>4. CASE UNCHANGED allVars
  BY <1>4 DEF allVars
<1> QED
  BY <1>1, <1>2, <1>3, <1>4 DEF APINext

-----------------------------------------------------------------------------
(* The invariant, client by client.                                        *)

Tracked(c) ==
    IF http[c] = NoRequest THEN pc[c] = "idle"
    ELSE \/ http[c].route = "patch" /\ http[c].stage = "service" /\ InUpdate(c)
         \/ /\ http[c].route = "patch" /\ http[c].stage # "service"
            /\ http[c].stored /\ pc[c] \in {"idle", "record"}
         \/ /\ http[c].route # "patch" /\ http[c].stage = "service"
            /\ ~http[c].stored /\ pc[c] \notin {"status", "status_event"}

Marked(c) ==
    /\ http[c] # NoRequest /\ http[c].stored => writer[http[c].id] # NoRequest
    /\ answer[c] # NoAnswer /\ answer[c].stored => writer[answer[c].id] # NoRequest

Shown(c) ==
    http[c] # NoRequest /\ http[c].stored /\ writer[http[c].id] = c /\ Exists(http[c].id) =>
        incidents[http[c].id].status = http[c].want

Honest(c) ==
    answer[c] # NoAnswer =>
        /\ answer[c].code = 200 =>
              /\ answer[c].stored
              /\ answer[c].seen = answer[c].want \/ answer[c].overwritten
        /\ answer[c].code \notin {200, 201} /\ answer[c].stored =>
              \/ answer[c].cancelled
              \/ answer[c].code = 404 /\ ~Exists(answer[c].id)

ClientInv(c) == Tracked(c) /\ Marked(c) /\ Shown(c) /\ Honest(c)

Established ==
    \A id \in Ids : writer[id] # NoRequest =>
        /\ id \in used
        /\ \A d \in Clients : pc[d] = "create" => local[d].object.id # id

LEMMA Parts ==
    APIInv <=> APITypeOK /\ Established /\ \A c \in Clients : ClientInv(c)
BY DEF APIInv, RequestsTracked, WrittenExisted, WriterSeen, SuccessIsStored,
   FailureIsHonest, Established, ClientInv, Tracked, Marked, Shown, Honest

LEMMA PartsNext ==
    APIInv' <=> APITypeOK' /\ Established' /\ \A c \in Clients : ClientInv(c)'
BY DEF APIInv, RequestsTracked, WrittenExisted, WriterSeen, SuccessIsStored,
   FailureIsHonest, Established, ClientInv, Tracked, Marked, Shown, Honest

(* A step of client c leaves the other clients' variables alone. *)
OnlyClient(c) ==
    \A d \in Clients \ {c} :
        /\ http'[d] = http[d] /\ answer'[d] = answer[d]
        /\ pc'[d] = pc[d] /\ local'[d] = local[d] /\ result'[d] = result[d]

(* What a step of client c may do to an incident some client has written:  *)
(* remove it, or write it under c's own name.                              *)
OwnWrites(c) ==
    \A x \in Ids : writer[x] # NoRequest =>
        /\ writer'[x] # NoRequest
        /\ Exists(x)' => Exists(x)
        /\ \/ /\ writer'[x] = writer[x]
              /\ Exists(x)' => incidents'[x].status = incidents[x].status
           \/ writer'[x] = c

LEMMA OthersKept ==
    ASSUME APITypeOK, NEW c \in Clients, NEW d \in Clients, d # c,
           OnlyClient(c), OwnWrites(c), ClientInv(d)
    PROVE  ClientInv(d)'
<1>1. /\ http'[d] = http[d] /\ answer'[d] = answer[d]
      /\ pc'[d] = pc[d] /\ local'[d] = local[d] /\ result'[d] = result[d]
  BY DEF OnlyClient
<1>2. /\ http[d] # NoRequest => http[d].id \in Ids
      /\ answer[d] # NoAnswer => answer[d].id \in Ids
  BY DEF APITypeOK, HTTPRequest, HTTPAnswer
<1>3. Tracked(d)'
  BY <1>1 DEF ClientInv, Tracked, InUpdate
<1>4. Marked(d)'
  BY <1>1, <1>2 DEF ClientInv, Marked, OwnWrites
<1>5. Shown(d)'
  BY <1>1, <1>2 DEF ClientInv, Shown, Marked, OwnWrites
<1>6. Honest(d)'
  BY <1>1, <1>2 DEF ClientInv, Honest, Marked, OwnWrites
<1> QED
  BY <1>3, <1>4, <1>5, <1>6 DEF ClientInv

LEMMA Combine ==
    ASSUME APIInv, NEW c \in Clients, OnlyClient(c), OwnWrites(c), ClientInv(c)',
           APITypeOK', Established'
    PROVE  APIInv'
<1>1. \A d \in Clients : ClientInv(d)'
  BY Parts, OthersKept
<1> QED
  BY <1>1, PartsNext

-----------------------------------------------------------------------------
(* What the bookkeeping operators of the service do to the client.         *)

LEMMA BeginShape ==
    ASSUME TypeOK, NEW c \in Clients, NEW p, NEW o, Begin(c, p, o)
    PROVE  /\ pc'[c] = p /\ local'[c].object = o /\ result' = result
           /\ \A d \in Clients \ {c} : pc'[d] = pc[d] /\ local'[d] = local[d]
BY DEF TypeOK, Begin

LEMMA AnswerShape ==
    ASSUME TypeOK, NEW c \in Clients, NEW r, Answer(c, r)
    PROVE  /\ pc' = pc /\ local' = local /\ result'[c] = r
           /\ \A d \in Clients \ {c} : result'[d] = result[d]
BY DEF TypeOK, Answer

LEMMA GoToShape ==
    ASSUME TypeOK, NEW c \in Clients, NEW p, GoTo(c, p)
    PROVE  /\ pc'[c] = p /\ local' = local /\ result' = result
           /\ \A d \in Clients \ {c} : pc'[d] = pc[d]
BY DEF TypeOK, GoTo

LEMMA FinishShape ==
    ASSUME TypeOK, NEW c \in Clients, NEW r, Finish(c, r)
    PROVE  /\ pc'[c] = "idle" /\ result'[c] = r
           /\ \A d \in Clients \ {c} :
                 pc'[d] = pc[d] /\ local'[d] = local[d] /\ result'[d] = result[d]
BY DEF TypeOK, Finish

(* The effect of the handler's own bookkeeping.                            *)
LEMMA AcceptShape ==
    ASSUME APITypeOK, NEW c \in Clients, NEW route \in Route, NEW id \in Ids,
           NEW want \in Status, NEW comment \in Comment,
           Accept(c, route, id, want, comment)
    PROVE  /\ http'[c].route = route /\ http'[c].id = id /\ http'[c].want = want
           /\ http'[c].stage = "service" /\ ~http'[c].stored
           /\ http'[c] # NoRequest
           /\ answer'[c] = NoAnswer /\ writer' = writer
           /\ \A d \in Clients \ {c} : http'[d] = http[d] /\ answer'[d] = answer[d]
           /\ APITypeOK'
<1> DEFINE h == [route |-> route, id |-> id, want |-> want, comment |-> comment,
                 stage |-> "service", cancelled |-> FALSE, stored |-> FALSE]
<1>1. /\ h \in HTTPRequest /\ h.route = route /\ h.id = id /\ h.want = want
      /\ h.stage = "service" /\ ~h.stored
  BY DEF HTTPRequest
<1> HIDE DEF h
<1>2. http' = [http EXCEPT ![c] = h] /\ answer' = [answer EXCEPT ![c] = NoAnswer]
      /\ writer' = writer
  BY DEF Accept, h
<1>3. http'[c] = h /\ h # NoRequest
  BY <1>1, <1>2, APIAssumption DEF APITypeOK
<1>4. APITypeOK'
  BY <1>1, <1>2 DEF APITypeOK
<1> QED
  BY <1>1, <1>2, <1>3, <1>4 DEF APITypeOK

Codes == {200, 201, 404, 408, 409, 500}

LEMMA RespondShape ==
    ASSUME APITypeOK, NEW c \in Clients, http[c] # NoRequest, NEW code \in Codes,
           NEW seen \in Status, NEW cancelled \in BOOLEAN,
           Respond(c, code, seen, cancelled)
    PROVE  /\ http'[c] = NoRequest /\ writer' = writer
           /\ answer'[c].code = code /\ answer'[c].seen = seen
           /\ answer'[c].id = http[c].id /\ answer'[c].want = http[c].want
           /\ answer'[c].stored = http[c].stored /\ answer'[c].cancelled = cancelled
           /\ answer'[c].overwritten = (http[c].stored /\ writer[http[c].id] # c)
           /\ \A d \in Clients \ {c} : http'[d] = http[d] /\ answer'[d] = answer[d]
           /\ APITypeOK'
<1> DEFINE a == [code |-> code, id |-> http[c].id, want |-> http[c].want,
                 seen |-> seen, stored |-> http[c].stored, cancelled |-> cancelled,
                 overwritten |-> http[c].stored /\ writer[http[c].id] # c]
<1>1. http[c] \in HTTPRequest
  BY DEF APITypeOK
<1>2. (http[c].stored /\ writer[http[c].id] # c) \in BOOLEAN
  BY <1>1 DEF HTTPRequest
<1>3. a \in HTTPAnswer
  BY <1>1, <1>2 DEF HTTPRequest, HTTPAnswer, Codes
<1>4. /\ a.code = code /\ a.seen = seen /\ a.id = http[c].id /\ a.want = http[c].want
      /\ a.stored = http[c].stored /\ a.cancelled = cancelled
      /\ a.overwritten = (http[c].stored /\ writer[http[c].id] # c)
  OBVIOUS
<1>5. http' = [http EXCEPT ![c] = NoRequest] /\ answer' = [answer EXCEPT ![c] = a]
      /\ writer' = writer
  BY DEF Respond
<1> HIDE DEF a
<1>6. APITypeOK'
  BY <1>3, <1>5 DEF APITypeOK
<1> QED
  BY <1>4, <1>5, <1>6 DEF APITypeOK

LEMMA MoveShape ==
    ASSUME APITypeOK, NEW c \in Clients, http[c] # NoRequest,
           NEW stage \in {"service", "comment", "read"}, NEW cancelled \in BOOLEAN,
           NEW stored \in BOOLEAN,
           http' = [http EXCEPT ![c] = [@ EXCEPT !.stage = stage, !.cancelled = cancelled,
                                                 !.stored = stored]]
    PROVE  /\ http'[c] # NoRequest /\ http'[c] \in HTTPRequest
           /\ http'[c].route = http[c].route /\ http'[c].id = http[c].id
           /\ http'[c].want = http[c].want /\ http'[c].stage = stage
           /\ http'[c].stored = stored
           /\ \A d \in Clients \ {c} : http'[d] = http[d]
           /\ http' \in [Clients -> HTTPRequest \cup {NoRequest}]
<1> DEFINE h == [http[c] EXCEPT !.stage = stage, !.cancelled = cancelled, !.stored = stored]
<1>1. http[c] \in HTTPRequest
  BY DEF APITypeOK
<1>2. /\ h \in HTTPRequest /\ h.route = http[c].route /\ h.id = http[c].id
      /\ h.want = http[c].want /\ h.stage = stage /\ h.stored = stored
  BY <1>1 DEF HTTPRequest
<1> HIDE DEF h
<1>3. http' = [http EXCEPT ![c] = h]
  BY DEF h
<1>4. http'[c] = h /\ h # NoRequest
  BY <1>2, <1>3, APIAssumption DEF APITypeOK
<1> QED
  BY <1>2, <1>3, <1>4 DEF APITypeOK

-----------------------------------------------------------------------------
(* One lemma per step of a handler.                                        *)

LEMMA QuietWrites ==
    ASSUME NEW c \in Clients, writer' = writer, UNCHANGED incidents
    PROVE  OwnWrites(c)
BY DEF OwnWrites, Exists

LEMMA EstablishedKept ==
    ASSUME Established, NEW c \in Clients, OnlyClient(c), used \subseteq used',
           writer' = writer,
           pc'[c] = "create" =>
              \/ local'[c].object.id \notin used
              \/ pc[c] = "create" /\ local'[c] = local[c]
    PROVE  Established'
BY DEF Established, OnlyClient

(* A client that has just been accepted or answered. *)
LEMMA CreateAccepted ==
    ASSUME IInv, APIInv, NEW c \in Clients, HandleCreateIncident(c)
    PROVE  APIInv'
<1>t. TypeOK /\ APITypeOK /\ Established
  BY Parts DEF IInv
<1>1. PICK id \in Ids \ used :
          /\ used' = used \cup {id}
          /\ Begin(c, "create", NewIncident(id, NextHumanID))
  BY DEF HandleCreateIncident, CreateIncident
<1>2. /\ pc'[c] = "create" /\ local'[c].object.id = id /\ result' = result
      /\ \A d \in Clients \ {c} : pc'[d] = pc[d] /\ local'[d] = local[d]
  BY <1>t, <1>1, BeginShape DEF NewIncident
<1>3. Accept(c, "create", id, "triggered", "none") /\ UNCHANGED incidents
  BY <1>2 DEF HandleCreateIncident, CreateIncident
<1>4. /\ http'[c].route = "create" /\ http'[c].stage = "service" /\ ~http'[c].stored
      /\ answer'[c] = NoAnswer /\ writer' = writer /\ APITypeOK' /\ http'[c] # NoRequest
      /\ \A d \in Clients \ {c} : http'[d] = http[d] /\ answer'[d] = answer[d]
  <2>1. "create" \in Route /\ "none" \in Comment /\ "triggered" \in Status
    BY DEF Route, Comment, Status
  <2> QED
    BY <1>t, <1>3, <2>1, AcceptShape
<1>5. OnlyClient(c) /\ OwnWrites(c)
  BY <1>2, <1>3, <1>4, QuietWrites DEF OnlyClient
<1>6. Established'
  <2>1. used \subseteq used' /\ local'[c].object.id \notin used
    BY <1>1, <1>2
  <2>2. pc'[c] = "create" =>
              \/ local'[c].object.id \notin used
              \/ pc[c] = "create" /\ local'[c] = local[c]
    BY <2>1
  <2>3. writer' = writer /\ Established
    BY <1>t, <1>4
  <2> QED
    BY <1>5, <2>1, <2>2, <2>3, EstablishedKept
<1>7. ClientInv(c)'
  BY <1>2, <1>4 DEF ClientInv, Tracked, Marked, Shown, Honest
<1> QED
  BY <1>4, <1>5, <1>6, <1>7, Combine

LEMMA PatchAccepted ==
    ASSUME IInv, APIInv, NEW c \in Clients, NEW id \in Ids, NEW status \in Wanted,
           NEW comment \in Comment, HandleUpdateStatus(c, id, status, comment)
    PROVE  APIInv'
<1>t. TypeOK /\ APITypeOK /\ status \in Status
  BY APIAssumption DEF IInv, APIInv
<1>1. /\ http'[c].route = "patch" /\ http'[c].stage = "service" /\ ~http'[c].stored
      /\ http'[c].id = id /\ http'[c].want = status
      /\ answer'[c] = NoAnswer /\ writer' = writer /\ APITypeOK' /\ http'[c] # NoRequest
      /\ \A d \in Clients \ {c} : http'[d] = http[d] /\ answer'[d] = answer[d]
  <2>1. "patch" \in Route
    BY DEF Route
  <2>2. Accept(c, "patch", id, status, comment)
    BY DEF HandleUpdateStatus
  <2> QED
    BY <1>t, <2>1, <2>2, AcceptShape
<1>2. /\ \/ pc'[c] = "idle" /\ result'[c] # "ok"
         \/ pc'[c] = "status" /\ local'[c].object.id = id /\ local'[c].object.status = status
      /\ \A d \in Clients \ {c} :
            pc'[d] = pc[d] /\ local'[d] = local[d] /\ result'[d] = result[d]
  <2>1. UpdateStatus(c, id, status) /\ pc[c] = "idle"
    BY DEF HandleUpdateStatus, Free
  <2>2. CASE Answer(c, "not_found") \/ Answer(c, "conflict")
    BY <1>t, <2>1, <2>2, AnswerShape
  <2>3. CASE /\ Exists(id)
            /\ \E behind \in BOOLEAN :
                  Begin(c, "status", TransitionTo(Get(id), status, nextOp, behind))
    <3> PICK behind \in BOOLEAN : Begin(c, "status", TransitionTo(Get(id), status, nextOp, behind))
      BY <2>3
    <3>1. Get(id) \in Object /\ Get(id).id = id
      BY <2>3, GetFacts
    <3>2. TransitionTo(Get(id), status, nextOp, behind).id = id
          /\ TransitionTo(Get(id), status, nextOp, behind).status = status
      BY <3>1 DEF TransitionTo, RecordEvent, Object
    <3> QED
      BY <1>t, <2>3, <3>2, BeginShape
  <2> QED
    BY <2>1, <2>2, <2>3 DEF UpdateStatus
<1>3. UNCHANGED incidents /\ used' = used
  BY DEF HandleUpdateStatus, UpdateStatus
<1>4. OnlyClient(c) /\ OwnWrites(c)
  BY <1>1, <1>2, <1>3, QuietWrites DEF OnlyClient
<1>5. Established'
  BY <1>1, <1>2, <1>3, <1>4, Parts, EstablishedKept
<1>6. ClientInv(c)'
  BY <1>1, <1>2 DEF ClientInv, Tracked, InUpdate, Marked, Shown, Honest
<1> QED
  BY <1>1, <1>4, <1>5, <1>6, Combine

LEMMA RecordBegins ==
    ASSUME TypeOK, NEW c \in Clients, NEW id \in Ids, pc[c] = "idle",
           RecordCustomEvent(c, id)
    PROVE  /\ pc'[c] \in {"idle", "record"} /\ UNCHANGED incidents /\ used' = used
           /\ \A d \in Clients \ {c} :
                 pc'[d] = pc[d] /\ local'[d] = local[d] /\ result'[d] = result[d]
<1>1. CASE Answer(c, "not_found")
  BY <1>1, AnswerShape DEF RecordCustomEvent
<1>2. CASE Begin(c, "record", Get(id))
  BY <1>2, BeginShape DEF RecordCustomEvent
<1> QED
  BY <1>1, <1>2 DEF RecordCustomEvent

LEMMA EventAccepted ==
    ASSUME IInv, APIInv, NEW c \in Clients, NEW id \in Ids, HandleAddEvent(c, id)
    PROVE  APIInv'
<1>t. TypeOK /\ APITypeOK
  BY DEF IInv, APIInv
<1>1. /\ http'[c].route = "event" /\ http'[c].stage = "service" /\ ~http'[c].stored
      /\ answer'[c] = NoAnswer /\ writer' = writer /\ APITypeOK' /\ http'[c] # NoRequest
      /\ \A d \in Clients \ {c} : http'[d] = http[d] /\ answer'[d] = answer[d]
  <2>1. "event" \in Route /\ "signed" \in Comment /\ "triggered" \in Status
    BY DEF Route, Comment, Status
  <2>2. Accept(c, "event", id, "triggered", "signed")
    BY DEF HandleAddEvent
  <2> QED
    BY <1>t, <2>1, <2>2, AcceptShape
<1>2. /\ pc'[c] \in {"idle", "record"} /\ UNCHANGED incidents /\ used' = used
      /\ \A d \in Clients \ {c} :
            pc'[d] = pc[d] /\ local'[d] = local[d] /\ result'[d] = result[d]
  BY <1>t, RecordBegins DEF HandleAddEvent, Free
<1>3. OnlyClient(c) /\ OwnWrites(c)
  BY <1>1, <1>2, QuietWrites DEF OnlyClient
<1>4. Established'
  BY <1>1, <1>2, <1>3, Parts, EstablishedKept
<1>5. ClientInv(c)'
  BY <1>1, <1>2 DEF ClientInv, Tracked, Marked, Shown, Honest
<1> QED
  BY <1>1, <1>3, <1>4, <1>5, Combine

LEMMA WithoutEffect ==
    ASSUME IInv, APIInv, NEW c \in Clients, NEW id \in Ids, NEW code \in {408, 500},
           HandleWithoutEffect(c, id, code)
    PROVE  APIInv'
<1> DEFINE a == [code |-> code, id |-> id, want |-> "triggered", seen |-> "triggered",
                 stored |-> FALSE, cancelled |-> code = 408, overwritten |-> FALSE]
<1>t. APITypeOK
  BY DEF APIInv
<1>1. a \in HTTPAnswer /\ a.code \notin {200, 201} /\ ~a.stored
  BY DEF HTTPAnswer, Status
<1>2. answer' = [answer EXCEPT ![c] = a] /\ UNCHANGED <<vars, http, writer>>
  BY DEF HandleWithoutEffect
<1> HIDE DEF a
<1>3. APITypeOK'
  BY <1>t, <1>1, <1>2 DEF APITypeOK
<1>4. OnlyClient(c) /\ OwnWrites(c)
  BY <1>t, <1>2, QuietWrites DEF OnlyClient, APITypeOK, vars
<1>5. Established'
  BY <1>2, Parts DEF Established, vars
<1>6. answer'[c] = a
  BY <1>t, <1>2 DEF APITypeOK
<1>7. ClientInv(c)
  BY Parts
<1>8. ClientInv(c)'
  BY <1>1, <1>2, <1>6, <1>7
     DEF ClientInv, Tracked, InUpdate, Marked, Shown, Honest, Exists, vars
<1> QED
  BY <1>3, <1>4, <1>5, <1>8, Combine

(* A step inside the first service call, other than the update itself. *)
LEMMA ServiceStepInv ==
    ASSUME IInv, APIInv, NEW c \in Clients, ServiceStep(c)
    PROVE  APIInv'
<1>t. TypeOK /\ APITypeOK /\ Established /\ ClientInv(c)
  BY Parts DEF IInv
<1>1. http' = http /\ answer' = answer /\ writer' = writer /\ http[c] # NoRequest
  BY DEF ServiceStep, apiVars
<1>2. CASE CreateStore(c)
  <2>1. Busy(c) /\ pc[c] = "create" /\ local[c].object \in Object
    BY <1>2, HeldFacts DEF CreateStore, Busy
  <2>2. Create(local[c].object) /\ GoTo(c, "create_event") /\ used' = used
    BY <1>2, <2>1, HeldFacts DEF CreateStore
  <2>3. pc'[c] = "create_event" /\ local' = local /\ result' = result
        /\ \A d \in Clients \ {c} : pc'[d] = pc[d]
    BY <1>t, <2>2, GoToShape
  <2>4. OnlyClient(c)
    BY <1>1, <2>3 DEF OnlyClient
  <2>5. \A x \in Ids : x # local[c].object.id => incidents'[x] = incidents[x]
    BY <1>t, <2>1, <2>2 DEF Create, TypeOK
  <2>6. \A x \in Ids : writer[x] # NoRequest => x # local[c].object.id
    BY <1>t, <2>1 DEF Established
  <2>7. OwnWrites(c)
    BY <1>1, <2>5, <2>6 DEF OwnWrites, Exists
  <2>8. Established'
    BY <1>t, <1>1, <2>2, <2>3, <2>4, EstablishedKept
  <2>9. http[c].route # "patch" /\ ~http[c].stored
    BY <1>t, <1>1, <2>1 DEF ClientInv, Tracked, InUpdate
  <2>10. /\ answer[c] # NoAnswer => answer[c].id \in Ids
    BY <1>t DEF APITypeOK, HTTPAnswer
  <2>11. Honest(c)'
    BY <1>1, <1>t, <2>7, <2>10 DEF Honest, ClientInv, Marked, OwnWrites
  <2>12. ClientInv(c)'
    BY <1>t, <1>1, <2>3, <2>9, <2>11 DEF ClientInv, Tracked, Marked, Shown
  <2> QED
    BY <1>t, <1>1, <2>4, <2>7, <2>8, <2>12, Combine DEF APITypeOK
<1>3. CASE CreateEvent(c) \/ StatusEvent(c) \/ RecordStore(c)
  <2>1. /\ pc'[c] = "idle" /\ incidents' = incidents /\ used' = used
        /\ pc[c] = "status_event" => result'[c] = "ok"
        /\ pc[c] \in {"create_event", "status_event", "record"}
        /\ \A d \in Clients \ {c} :
              pc'[d] = pc[d] /\ local'[d] = local[d] /\ result'[d] = result[d]
    <3>1. CASE CreateEvent(c) \/ StatusEvent(c)
      <4>1. Finish(c, "ok") /\ incidents' = incidents /\ used' = used
            /\ pc[c] \in {"create_event", "status_event"}
        BY <3>1 DEF CreateEvent, StatusEvent, AddServiceEvent, AddEvent, repoVars
      <4> QED
        BY <1>t, <4>1, FinishShape
    <3>2. CASE RecordStore(c)
      <4>1. /\ Finish(c, "ok") \/ Finish(c, "not_found")
            /\ incidents' = incidents /\ used' = used /\ pc[c] = "record"
        BY <3>2 DEF RecordStore, AddEvent, Fails, repoVars
      <4> QED
        BY <1>t, <4>1, FinishShape
    <3> QED
      BY <1>3, <3>1, <3>2
  <2>2. OnlyClient(c) /\ OwnWrites(c)
    BY <1>1, <2>1, QuietWrites DEF OnlyClient
  <2>3. Established'
    BY <1>t, <1>1, <2>1, <2>2, EstablishedKept
  <2>4. Tracked(c)'
    BY <1>t, <1>1, <2>1 DEF ClientInv, Tracked, InUpdate
  <2>5. ClientInv(c)'
    BY <1>t, <1>1, <2>1, <2>4 DEF ClientInv, Marked, Shown, Honest, Exists
  <2> QED
    BY <1>t, <1>1, <2>2, <2>3, <2>5, Combine DEF APITypeOK
<1> QED
  BY <1>2, <1>3 DEF ServiceStep

LEMMA CallFailsInv ==
    ASSUME IInv, APIInv, NEW c \in Clients, CallFails(c)
    PROVE  APIInv'
<1>t. TypeOK /\ APITypeOK /\ Established /\ ClientInv(c) /\ http[c] # NoRequest
  BY Parts DEF IInv, CallFails
<1>h. http[c] \in HTTPRequest
  BY <1>t DEF APITypeOK
<1>1. /\ answer' = answer /\ writer' = writer /\ incidents' = incidents /\ used' = used
      /\ pc[c] # "idle" /\ http' = [http EXCEPT ![c].cancelled = TRUE]
      /\ Finish(c, IF pc[c] \in {"create_event", "status_event", "responder_event"}
                   THEN "ok" ELSE "context")
  BY DEF CallFails, ContextDone, Fails, repoVars
<1>2. /\ http'[c].route = http[c].route /\ http'[c].id = http[c].id
      /\ http'[c].want = http[c].want /\ http'[c].stage = http[c].stage
      /\ http'[c].stored = http[c].stored /\ http'[c] # NoRequest
      /\ \A d \in Clients \ {c} : http'[d] = http[d]
      /\ APITypeOK'
  <2> DEFINE h == [http[c] EXCEPT !.cancelled = TRUE]
  <2>1. /\ h \in HTTPRequest /\ h.route = http[c].route /\ h.id = http[c].id
        /\ h.want = http[c].want /\ h.stage = http[c].stage /\ h.stored = http[c].stored
    BY <1>h DEF HTTPRequest
  <2> HIDE DEF h
  <2>2. http' = [http EXCEPT ![c] = h]
    BY <1>1 DEF h
  <2>3. http'[c] = h /\ h # NoRequest
    BY <1>t, <2>1, <2>2, APIAssumption DEF APITypeOK
  <2> QED
    BY <1>t, <1>1, <2>1, <2>2, <2>3 DEF APITypeOK
<1>3. /\ pc'[c] = "idle"
      /\ pc[c] = "status_event" => result'[c] = "ok"
      /\ pc[c] = "status" => result'[c] # "ok"
      /\ \A d \in Clients \ {c} :
            pc'[d] = pc[d] /\ local'[d] = local[d] /\ result'[d] = result[d]
  BY <1>t, <1>1, FinishShape
<1>4. OnlyClient(c) /\ OwnWrites(c)
  BY <1>1, <1>2, <1>3, QuietWrites DEF OnlyClient
<1>5. Established'
  BY <1>t, <1>1, <1>3, <1>4, EstablishedKept
<1>6. Tracked(c)'
  BY <1>t, <1>1, <1>2, <1>3 DEF ClientInv, Tracked, InUpdate
<1>7. ClientInv(c)'
  BY <1>t, <1>1, <1>2, <1>6 DEF ClientInv, Marked, Shown, Honest, Exists
<1> QED
  BY <1>2, <1>4, <1>5, <1>7, Combine

(* The update itself: from here on the request's effect is the store's.    *)
LEMMA ServiceUpdateInv ==
    ASSUME IInv, IInv', APIInv, NEW c \in Clients, ServiceUpdate(c)
    PROVE  APIInv'
<1> DEFINE o == local[c].object
<1>t. TypeOK /\ APITypeOK /\ Established /\ ClientInv(c)
  BY Parts DEF IInv
<1>1. pc[c] = "status" /\ Busy(c) /\ http[c] # NoRequest /\ StoreHeldObject(c, "status_event")
  BY DEF ServiceUpdate, StatusUpdate, Busy
<1>2. /\ o \in Object /\ o.id \in Ids /\ o.id = http[c].id /\ o.status = http[c].want
      /\ http[c].route = "patch" /\ http[c].stage = "service" /\ ~http[c].stored
  BY <1>t, <1>1, HeldFacts DEF ClientInv, Tracked, InUpdate
<1>h. http[c] \in HTTPRequest /\ answer' = answer /\ used' = used
  BY <1>t, <1>1 DEF APITypeOK, ServiceUpdate, StoreHeldObject
<1>3. CASE Update(o) /\ GoTo(c, "status_event")
  <2>1. pc'[c] = "status_event" /\ local' = local /\ result' = result
        /\ \A d \in Clients \ {c} : pc'[d] = pc[d]
    BY <1>t, <1>3, GoToShape
  <2>2. /\ http' = [http EXCEPT ![c].stored = TRUE]
        /\ writer' = [writer EXCEPT ![http[c].id] = c]
    BY <2>1 DEF ServiceUpdate
  <2>3. /\ http'[c].route = "patch" /\ http'[c].id = o.id
        /\ http'[c].want = o.status /\ http'[c].stage = "service"
        /\ http'[c].stored /\ http'[c] # NoRequest
        /\ \A d \in Clients \ {c} : http'[d] = http[d]
        /\ http' \in [Clients -> HTTPRequest \cup {NoRequest}]
    <3> DEFINE h == [http[c] EXCEPT !.stored = TRUE]
    <3>1. /\ h \in HTTPRequest /\ h.route = http[c].route /\ h.id = http[c].id
          /\ h.want = http[c].want /\ h.stage = http[c].stage /\ h.stored
      BY <1>h DEF HTTPRequest
    <3> HIDE DEF h
    <3>2. http' = [http EXCEPT ![c] = h]
      BY <2>2 DEF h
    <3>3. http'[c] = h /\ h # NoRequest
      BY <1>t, <3>1, <3>2, APIAssumption DEF APITypeOK
    <3> HIDE DEF o
    <3> QED
      BY <1>t, <1>2, <3>1, <3>2, <3>3 DEF APITypeOK
  <2> HIDE DEF o
  <2>4. /\ writer'[o.id] = c /\ c # NoRequest
        /\ \A x \in Ids : x # o.id => writer'[x] = writer[x]
        /\ writer' \in [Ids -> Clients \cup {NoRequest}]
    BY <1>t, <1>2, <2>2, APIAssumption DEF APITypeOK
  <2>5. Exists(o.id) /\ incidents' = [incidents EXCEPT ![o.id] = CopyIncident(o)]
    BY <1>3 DEF Update
  <2>6. incidents'[o.id].status = o.status
        /\ \A x \in Ids : x # o.id => incidents'[x] = incidents[x]
    BY <1>t, <1>2, <2>5 DEF TypeOK, CopyIncident
  <2>7. OnlyClient(c)
    BY <1>h, <2>1, <2>3 DEF OnlyClient
  <2>8. OwnWrites(c)
    BY <2>4, <2>5, <2>6 DEF OwnWrites, Exists
  <2>9. Established'
    <3>1. \A d \in Clients : pc'[d] = "create" => pc[d] = "create"
      BY <2>1
    <3>2. o.id \in used /\ \A d \in Clients : pc[d] = "create" => local[d].object.id # o.id
      BY <1>2, <2>5 DEF IInv, Issued, CreatesFresh
    <3> QED
      BY <1>t, <1>h, <2>1, <2>4, <3>1, <3>2 DEF Established
  <2>10. /\ answer[c] # NoAnswer => answer[c].id \in Ids
    BY <1>t DEF APITypeOK, HTTPAnswer
  <2>11. Honest(c)'
    BY <1>t, <1>h, <2>8, <2>10 DEF Honest, ClientInv, Marked, OwnWrites
  <2>12. Marked(c)'
    BY <1>t, <1>h, <2>3, <2>4, <2>8, <2>10 DEF ClientInv, Marked, OwnWrites
  <2>13. Tracked(c)' /\ Shown(c)'
    BY <2>1, <2>3, <2>6 DEF Tracked, InUpdate, Shown
  <2>14. APITypeOK'
    BY <1>t, <1>h, <2>3, <2>4 DEF APITypeOK
  <2> QED
    BY <2>7, <2>8, <2>9, <2>11, <2>12, <2>13, <2>14, Combine DEF ClientInv
<1>4. CASE Fails(c, "invalid_input") \/ Fails(c, "not_found")
  <2>1. PICK r \in {"invalid_input", "not_found"} : Fails(c, r)
    BY <1>4
  <2>2. /\ pc'[c] = "idle" /\ result'[c] # "ok" /\ incidents' = incidents
        /\ \A d \in Clients \ {c} :
              pc'[d] = pc[d] /\ local'[d] = local[d] /\ result'[d] = result[d]
    BY <1>t, <2>1, FinishShape DEF Fails, repoVars
  <2>3. http' = http /\ writer' = writer
    BY <2>2 DEF ServiceUpdate
  <2>4. OnlyClient(c) /\ OwnWrites(c)
    BY <1>h, <2>2, <2>3, QuietWrites DEF OnlyClient
  <2>5. Established'
    BY <1>t, <1>h, <2>2, <2>3, <2>4, EstablishedKept
  <2>6. Tracked(c)'
    BY <1>1, <1>2, <2>2, <2>3 DEF Tracked, InUpdate
  <2>7. ClientInv(c)'
    BY <1>t, <1>h, <2>2, <2>3, <2>6 DEF ClientInv, Marked, Shown, Honest, Exists
  <2> QED
    BY <1>t, <1>h, <2>3, <2>4, <2>5, <2>7, Combine DEF APITypeOK
<1> QED
  BY <1>1, <1>3, <1>4 DEF StoreHeldObject

(* CreateIncident and AddEvent answer what the service returned. *)
LEMMA AnswerCallInv ==
    ASSUME IInv, APIInv, NEW c \in Clients, AnswerCall(c)
    PROVE  APIInv'
<1>t. APITypeOK /\ Established /\ ClientInv(c)
  BY Parts
<1>1. http[c] # NoRequest /\ pc[c] = "idle" /\ http[c].route # "patch" /\ UNCHANGED vars
  BY DEF AnswerCall, At, Returned
<1>h. http[c] \in HTTPRequest /\ ~http[c].stored
  BY <1>t, <1>1 DEF APITypeOK, ClientInv, Tracked
<1>2. PICK code \in {201, 404, 408, 409, 500} :
         Respond(c, code, "triggered", http[c].cancelled)
  BY DEF AnswerCall, ErrorCode
<1>3. code \in Codes /\ "triggered" \in Status /\ http[c].cancelled \in BOOLEAN
  BY <1>h DEF Codes, Status, HTTPRequest
<1>4. /\ http'[c] = NoRequest /\ writer' = writer /\ answer'[c].code # 200
      /\ ~answer'[c].stored /\ APITypeOK'
      /\ \A d \in Clients \ {c} : http'[d] = http[d] /\ answer'[d] = answer[d]
  BY <1>t, <1>1, <1>h, <1>2, <1>3, RespondShape
<1>5. OnlyClient(c) /\ OwnWrites(c) /\ Established'
  BY <1>t, <1>1, <1>4, QuietWrites DEF OnlyClient, Established, vars
<1>6. ClientInv(c)'
  BY <1>1, <1>4 DEF ClientInv, Tracked, Marked, Shown, Honest, vars
<1> QED
  BY <1>4, <1>5, <1>6, Combine

LEMMA AfterUpdateInv ==
    ASSUME IInv, APIInv, NEW c \in Clients, AfterUpdate(c)
    PROVE  APIInv'
<1>t. APITypeOK /\ Established /\ ClientInv(c)
  BY Parts
<1>1. /\ http[c] # NoRequest /\ pc[c] = "idle" /\ http[c].route = "patch"
      /\ http[c].stage = "service" /\ UNCHANGED vars
  BY DEF AfterUpdate, At, Returned
<1>h. http[c] \in HTTPRequest /\ (http[c].stored <=> result[c] = "ok")
  BY <1>t, <1>1 DEF APITypeOK, ClientInv, Tracked, InUpdate
<1>2. CASE result[c] = "ok"
  <2>1. PICK stage \in {"read", "comment"} : Move(c, stage)
    BY <1>2 DEF AfterUpdate
  <2>2. /\ http' = [http EXCEPT ![c] = [@ EXCEPT !.stage = stage,
                      !.cancelled = http[c].cancelled, !.stored = http[c].stored]]
        /\ answer' = answer /\ writer' = writer
    BY <1>t, <1>h, <2>1 DEF Move, APITypeOK, HTTPRequest
  <2>3. /\ http'[c] # NoRequest /\ http'[c].route = "patch" /\ http'[c].id = http[c].id
        /\ http'[c].want = http[c].want /\ http'[c].stage = stage /\ http'[c].stored
        /\ \A d \in Clients \ {c} : http'[d] = http[d]
        /\ http' \in [Clients -> HTTPRequest \cup {NoRequest}]
    <3>1. http[c].cancelled \in BOOLEAN /\ http[c].stored \in BOOLEAN /\ http[c].stored
      BY <1>h, <1>2 DEF HTTPRequest
    <3> QED
      BY <1>t, <1>1, <2>2, <3>1, MoveShape
  <2>4. OnlyClient(c) /\ OwnWrites(c) /\ Established' /\ APITypeOK'
    BY <1>t, <1>1, <2>2, <2>3, QuietWrites DEF OnlyClient, Established, APITypeOK, vars
  <2>5. ClientInv(c)'
    BY <1>t, <1>1, <1>2, <1>h, <2>2, <2>3
       DEF ClientInv, Tracked, Marked, Shown, Honest, Exists, vars
  <2> QED
    BY <2>4, <2>5, Combine
<1>3. CASE result[c] # "ok"
  <2>1. PICK code \in {404, 408, 409, 500} :
           Respond(c, code, http[c].want, http[c].cancelled)
    BY <1>3 DEF AfterUpdate, ErrorCode
  <2>2. code \in Codes /\ http[c].want \in Status /\ http[c].cancelled \in BOOLEAN
    BY <1>h DEF Codes, HTTPRequest
  <2>3. /\ http'[c] = NoRequest /\ writer' = writer /\ answer'[c].code # 200
        /\ ~answer'[c].stored /\ APITypeOK'
        /\ \A d \in Clients \ {c} : http'[d] = http[d] /\ answer'[d] = answer[d]
    BY <1>t, <1>1, <1>3, <1>h, <2>1, <2>2, RespondShape
  <2>4. OnlyClient(c) /\ OwnWrites(c) /\ Established'
    BY <1>t, <1>1, <2>3, QuietWrites DEF OnlyClient, Established, vars
  <2>5. ClientInv(c)'
    BY <1>1, <2>3 DEF ClientInv, Tracked, Marked, Shown, Honest, vars
  <2> QED
    BY <2>3, <2>4, <2>5, Combine
<1> QED
  BY <1>2, <1>3

LEMMA RecordCommentInv ==
    ASSUME IInv, APIInv, NEW c \in Clients, RecordComment(c)
    PROVE  APIInv'
<1>t. TypeOK /\ APITypeOK /\ Established /\ ClientInv(c)
  BY Parts DEF IInv
<1>1. http[c] # NoRequest /\ pc[c] = "idle" /\ http[c].stage = "comment"
  BY DEF RecordComment, At, Returned
<1>h. http[c] \in HTTPRequest /\ http[c].stored /\ http[c].route = "patch"
  BY <1>t, <1>1 DEF APITypeOK, ClientInv, Tracked
<1>2. \E cancelled \in BOOLEAN :
         http' = [http EXCEPT ![c] = [@ EXCEPT !.stage = "read", !.cancelled = cancelled,
                                               !.stored = http[c].stored]]
  <2> DEFINE g(cancelled) == [http[c] EXCEPT !.stage = "read", !.cancelled = cancelled,
                                             !.stored = http[c].stored]
  <2>1. CASE Move(c, "read")
    <3>1. http[c].cancelled \in BOOLEAN
      BY <1>h DEF HTTPRequest
    <3>2. [http[c] EXCEPT !.stage = "read"] = g(http[c].cancelled)
      BY <1>h DEF HTTPRequest
    <3> QED
      BY <2>1, <3>1, <3>2 DEF Move
  <2>2. CASE CommentAbandoned(c)
    <3>1. [http[c] EXCEPT !.cancelled = TRUE, !.stage = "read"] = g(TRUE)
      BY <1>h DEF HTTPRequest
    <3>2. http' = [http EXCEPT ![c] = [@ EXCEPT !.cancelled = TRUE, !.stage = "read"]]
      BY <1>t, <2>2 DEF CommentAbandoned, APITypeOK
    <3> QED
      BY <3>1, <3>2
  <2> QED
    BY <2>1, <2>2 DEF RecordComment, CommentStored
<1>3. /\ http'[c] # NoRequest /\ http'[c].route = "patch" /\ http'[c].id = http[c].id
      /\ http'[c].want = http[c].want /\ http'[c].stage = "read" /\ http'[c].stored
      /\ \A d \in Clients \ {c} : http'[d] = http[d]
      /\ http' \in [Clients -> HTTPRequest \cup {NoRequest}]
  <2>1. http[c].stored \in BOOLEAN
    BY <1>h DEF HTTPRequest
  <2> QED
    BY <1>t, <1>1, <1>2, <1>h, <2>1, MoveShape
<1>4. /\ pc'[c] \in {"idle", "record"} /\ incidents' = incidents /\ used' = used
      /\ answer' = answer /\ writer' = writer
      /\ \A d \in Clients \ {c} :
            pc'[d] = pc[d] /\ local'[d] = local[d] /\ result'[d] = result[d]
  <2>1. CASE CommentStored(c)
    <3>1. http[c].id \in Ids /\ RecordCustomEvent(c, http[c].id)
      BY <1>h, <2>1 DEF HTTPRequest, CommentStored
    <3> QED
      BY <1>t, <1>1, <2>1, <3>1, RecordBegins DEF CommentStored, Move
  <2>2. CASE UNCHANGED <<vars, answer, writer>>
    BY <1>1, <2>2 DEF vars
  <2> QED
    BY <2>1, <2>2 DEF RecordComment, CommentAbandoned, Move
<1>5. OnlyClient(c) /\ OwnWrites(c)
  BY <1>3, <1>4, QuietWrites DEF OnlyClient
<1>6. Established' /\ APITypeOK'
  BY <1>t, <1>3, <1>4, <1>5, EstablishedKept DEF APITypeOK
<1>7. ClientInv(c)'
  BY <1>t, <1>1, <1>h, <1>3, <1>4 DEF ClientInv, Tracked, Marked, Shown, Honest, Exists
<1> QED
  BY <1>5, <1>6, <1>7, Combine

LEMMA ReadBackAnswers ==
    ASSUME IInv, APIInv, NEW c \in Clients, At(c, "read"), UNCHANGED vars,
           NEW code \in Codes, NEW seen \in Status, NEW cancelled \in BOOLEAN,
           Respond(c, code, seen, cancelled),
           \/ code = 408 /\ cancelled
           \/ code = 404 /\ ~Exists(http[c].id)
           \/ code = 200 /\ Exists(http[c].id) /\ seen = incidents[http[c].id].status
    PROVE  APIInv'
<1>t. APITypeOK /\ Established /\ ClientInv(c)
  BY Parts
<1>1. http[c] # NoRequest /\ pc[c] = "idle" /\ http[c].stage = "read"
  BY DEF At, Returned
<1>h. http[c] \in HTTPRequest /\ http[c].stored /\ http[c].id \in Ids
      /\ http[c].want \in Status
  BY <1>t, <1>1 DEF APITypeOK, ClientInv, Tracked, HTTPRequest
<1>3. /\ http'[c] = NoRequest /\ writer' = writer /\ APITypeOK'
      /\ answer'[c].code = code /\ answer'[c].seen = seen
      /\ answer'[c].id = http[c].id /\ answer'[c].want = http[c].want
      /\ answer'[c].stored = http[c].stored /\ answer'[c].cancelled = cancelled
      /\ answer'[c].overwritten = (http[c].stored /\ writer[http[c].id] # c)
      /\ \A d \in Clients \ {c} : http'[d] = http[d] /\ answer'[d] = answer[d]
  BY <1>t, <1>1, RespondShape
<1>4. OnlyClient(c) /\ OwnWrites(c) /\ Established'
  BY <1>t, <1>1, <1>3, QuietWrites DEF OnlyClient, Established, vars
<1>5. Marked(c)'
  BY <1>t, <1>1, <1>h, <1>3 DEF Marked, ClientInv
<1>6. Honest(c)'
  <2>1. incidents' = incidents
    BY DEF vars
  <2>2. CASE code = 408 /\ cancelled
    BY <1>3, <2>2 DEF Honest
  <2>3. CASE code = 404 /\ ~Exists(http[c].id)
    BY <1>3, <2>1, <2>3 DEF Honest, Exists
  <2>4. CASE code = 200 /\ Exists(http[c].id) /\ seen = incidents[http[c].id].status
    <3>1. writer[http[c].id] = c => seen = http[c].want
      BY <1>t, <1>1, <1>h, <2>4 DEF ClientInv, Shown
    <3>2. CASE writer[http[c].id] = c
      <4>1. answer'[c].seen = answer'[c].want
        BY <1>3, <3>1, <3>2
      <4> QED
        BY <1>h, <1>3, <2>4, <4>1 DEF Honest
    <3>3. CASE writer[http[c].id] # c
      <4>1. answer'[c].overwritten /\ answer'[c].stored
        BY <1>h, <1>3, <3>3
      <4> QED
        BY <1>3, <2>4, <4>1 DEF Honest
    <3> QED
      BY <3>2, <3>3
  <2> QED
    BY <2>2, <2>3, <2>4
<1>7. Tracked(c)' /\ Shown(c)'
  BY <1>1, <1>3 DEF Tracked, Shown, vars
<1> QED
  BY <1>3, <1>4, <1>5, <1>6, <1>7, Combine DEF ClientInv

LEMMA ReadBackInv ==
    ASSUME IInv, APIInv, NEW c \in Clients, ReadBack(c)
    PROVE  APIInv'
<1>1. At(c, "read") /\ UNCHANGED vars /\ http[c] # NoRequest
  BY DEF ReadBack, At, Returned
<1>2. http[c].id \in Ids /\ http[c].want \in Status
  BY <1>1 DEF APIInv, APITypeOK, HTTPRequest
<1>3. 408 \in Codes /\ 404 \in Codes /\ 200 \in Codes /\ TRUE \in BOOLEAN /\ FALSE \in BOOLEAN
  BY DEF Codes
<1>4. CASE Respond(c, 408, http[c].want, TRUE)
  BY <1>1, <1>2, <1>3, <1>4, ReadBackAnswers
<1>5. CASE ~Exists(http[c].id) /\ Respond(c, 404, http[c].want, FALSE)
  BY <1>1, <1>2, <1>3, <1>5, ReadBackAnswers
<1>6. CASE Exists(http[c].id) /\ Respond(c, 200, incidents[http[c].id].status, FALSE)
  <2>1. incidents[http[c].id].status \in Status
    BY <1>2, <1>6 DEF IInv, TypeOK, Exists, Incident
  <2> QED
    BY <1>1, <1>3, <1>6, <2>1, ReadBackAnswers
<1> QED
  BY <1>4, <1>5, <1>6 DEF ReadBack

LEMMA DeleteElsewhereInv ==
    ASSUME IInv, APIInv, NEW c \in Clients, NEW id \in Ids, DeleteElsewhere(c, id)
    PROVE  APIInv'
<1>t. TypeOK /\ APITypeOK /\ Established /\ ClientInv(c)
  BY Parts DEF IInv
<1>1. http' = http /\ answer' = answer /\ writer' = writer /\ used' = used
      /\ http[c] = NoRequest /\ pc[c] = "idle"
  BY DEF DeleteElsewhere, Free, DeleteIncident, apiVars
<1>2. /\ pc' = pc /\ local' = local
      /\ \A d \in Clients \ {c} : result'[d] = result[d]
  BY <1>t, AnswerShape DEF DeleteElsewhere, DeleteIncident
<1>3. \A x \in Ids : Exists(x)' => incidents'[x] = incidents[x]
  BY <1>t DEF DeleteElsewhere, DeleteIncident, Delete, Exists, TypeOK, repoVars
<1>4. OnlyClient(c)
  BY <1>1, <1>2 DEF OnlyClient
<1>5. OwnWrites(c)
  BY <1>1, <1>3 DEF OwnWrites, Exists
<1>6. Established' /\ APITypeOK'
  BY <1>t, <1>1, <1>2 DEF Established, APITypeOK
<1>7. answer[c] # NoAnswer => answer[c].id \in Ids
  BY <1>t DEF APITypeOK, HTTPAnswer
<1>8. ClientInv(c)'
  BY <1>t, <1>1, <1>2, <1>3, <1>7 DEF ClientInv, Tracked, Marked, Shown, Honest, Exists
<1> QED
  BY <1>4, <1>5, <1>6, <1>8, Combine

LEMMA APIInitInv == APIInit => IInv /\ APIInv
<1> SUFFICES ASSUME APIInit PROVE IInv /\ APIInv
  OBVIOUS
<1>1. IInv
  BY InitInv DEF APIInit
<1>2. /\ \A c \in Clients : http[c] = NoRequest /\ answer[c] = NoAnswer /\ pc[c] = "idle"
      /\ \A id \in Ids : writer[id] = NoRequest
  BY DEF APIInit, Init
<1>3. APITypeOK
  BY DEF APIInit, APITypeOK
<1>4. Established /\ \A c \in Clients : ClientInv(c)
  BY <1>2 DEF Established, ClientInv, Tracked, Marked, Shown, Honest
<1> QED
  BY <1>1, <1>3, <1>4, Parts

LEMMA APIStepInv ==
    ASSUME IInv, APIInv, [APINext]_allVars
    PROVE  IInv' /\ APIInv'
<1>1. [Next]_vars
  BY StepIsService DEF APIInv
<1>2. IInv'
  BY <1>1, StepInv
<1>3. ASSUME NEW c \in Clients,
             \/ HandleCreateIncident(c) \/ ServiceStep(c) \/ ServiceUpdate(c)
             \/ CallFails(c) \/ AnswerCall(c) \/ AfterUpdate(c) \/ RecordComment(c)
             \/ ReadBack(c)
      PROVE  APIInv'
  BY <1>2, <1>3, CreateAccepted, ServiceStepInv, ServiceUpdateInv, CallFailsInv,
     AnswerCallInv, AfterUpdateInv, RecordCommentInv, ReadBackInv
<1>4. ASSUME NEW c \in Clients, NEW id \in Ids,
             \/ \E status \in Wanted, comment \in Comment :
                   HandleUpdateStatus(c, id, status, comment)
             \/ HandleAddEvent(c, id)
             \/ \E code \in {408, 500} : HandleWithoutEffect(c, id, code)
             \/ DeleteElsewhere(c, id)
      PROVE  APIInv'
  BY <1>4, PatchAccepted, EventAccepted, WithoutEffect, DeleteElsewhereInv
<1>5. CASE UNCHANGED allVars
  <2>1. UNCHANGED <<vars, http, answer, writer>>
    BY <1>5 DEF allVars, apiVars
  <2>2. Established' /\ APITypeOK'
    BY <2>1, Parts DEF Established, APITypeOK, vars
  <2>3. ASSUME NEW c \in Clients PROVE ClientInv(c)'
    <3>1. ClientInv(c)
      BY Parts
    <3>2. /\ incidents' = incidents /\ pc' = pc /\ local' = local /\ result' = result
          /\ http' = http /\ answer' = answer /\ writer' = writer
      BY <2>1 DEF vars
    <3>3. Tracked(c)'
      BY <3>1, <3>2 DEF ClientInv, Tracked, InUpdate
    <3>4. Marked(c)' /\ Shown(c)' /\ Honest(c)'
      BY <3>1, <3>2 DEF ClientInv, Marked, Shown, Honest, Exists
    <3> QED
      BY <3>3, <3>4 DEF ClientInv
  <2> QED
    BY <1>2, <2>2, <2>3, PartsNext
<1> QED
  BY <1>2, <1>3, <1>4, <1>5 DEF APINext

(* The invariant of the handlers together with that of the service.        *)
THEOREM APIInductive == APISpec => [](IInv /\ APIInv)
<1>1. APIInit => IInv /\ APIInv
  BY APIInitInv
<1>2. (IInv /\ APIInv) /\ [APINext]_allVars => (IInv /\ APIInv)'
  BY APIStepInv
<1> QED
  BY <1>1, <1>2, PTL DEF APISpec

(* The handlers implement the service's specification: whatever is proved  *)
(* of IncidentService holds of the program the API runs.                   *)
THEOREM APIImplementsService == APISpec => Spec
<1>1. APIInit => Init
  BY DEF APIInit
<1>2. APIInv /\ [APINext]_allVars => [Next]_vars
  BY StepIsService DEF APIInv
<1> QED
  BY <1>1, <1>2, APIInductive, PTL DEF APISpec, Spec

(* A PATCH answered 200 took effect, and shows the status asked for unless *)
(* another client wrote in between; for any clients and any deletions.     *)
THEOREM SuccessesAreStored == APISpec => []SuccessIsStored
<1>1. APIInv => SuccessIsStored
  BY DEF APIInv
<1> QED
  BY <1>1, APIInductive, PTL

(* An error never hides from a waiting client a change that can still be   *)
(* seen.                                                                   *)
THEOREM FailuresAreHonest == APISpec => []FailureIsHonest
<1>1. APIInv => FailureIsHonest
  BY DEF APIInv
<1> QED
  BY <1>1, APIInductive, PTL

=============================================================================
