----------------------- MODULE PostgresRepositoryProofs -----------------------
(***************************************************************************)
(* Proofs about PostgresRepository, for any incidents, callers and number  *)
(* of calls.                                                               *)
(***************************************************************************)
EXTENDS PostgresRepository, TLAPS

USE PostgresAssumption

LEMMA LoadedType ==
    ASSUME NEW i \in Ids, NEW v \in Nat \cup {GoTime}, NEW edits \in SUBSET Ops,
           NEW op \in Ops
    PROVE  Loaded(i, v, edits, op) \in Object
BY DEF Loaded, Object

LEMMA IInvInit == Init => IInv
<1> SUFFICES ASSUME Init PROVE IInv
  OBVIOUS
<1>1. \A i \in Ids : Loaded(i, GoTime, {}, 0) \in Object
  BY DEF Ops, Loaded, Object
<1>2. object \in [Callers -> Object]
  BY <1>1 DEF Init
<1>3. TypeOK
  BY <1>2 DEF Init, TypeOK, Ops
<1>4. \A c \in Callers : Versions(c) = {}
  BY DEF Init, Loaded, Versions
<1>5. HoldsRow /\ VersionsSound /\ UnchangedMatches
  BY <1>4 DEF Init, HoldsRow, VersionsSound, UnchangedMatches, Exists
<1>6. NoLostUpdate /\ EventsKept /\ NoOrphanEvents /\ NoFalseConflict
  BY DEF Init, NoLostUpdate, EventsKept, NoOrphanEvents, NoFalseConflict, Exists
<1> QED
  BY <1>3, <1>5, <1>6 DEF IInv

-----------------------------------------------------------------------------
(* Steps that leave the tables alone.                                      *)

(* Caller c goes to control point p with object o and outcome r, and gives *)
(* up the row locks it has.                                                *)
Quiet(c, p, o, r) ==
    /\ UNCHANGED <<row, events, stamp, acked, ackedEvents>>
    /\ nextOp' \in Ops
    /\ pc' = [pc EXCEPT ![c] = p]
    /\ object' = [object EXCEPT ![c] = o]
    /\ result' = [result EXCEPT ![c] = r]
    /\ \/ lock' = lock
       \/ lock' = [i \in Ids |-> lock[i] \ {c}]
    /\ changed' \in [Callers -> BOOLEAN]
    /\ \A d \in Callers \ {c} : changed'[d] = changed[d]

(* What the new object must be for the invariant to go on. *)
Knows(c, p, o, r) ==
    /\ p = "update" => o.expected # GoTime
    /\ r = "conflict" /\ o.expected # GoTime => changed'[c]
    /\ \A v \in {o.updatedAt, o.expected} \ {GoTime} :
          /\ v <= stamp
          /\ HasVersion(o.id, v) => row[o.id].edits \subseteq o.edits
          /\ changed'[c] \/ HasVersion(o.id, v)

LEMMA QuietKeeps ==
    ASSUME IInv, NEW c \in Callers, NEW o \in Object,
           NEW p \in {"idle", "load_events", "holding", "update", "insert"},
           NEW r \in {"none", "ok", "not_found", "conflict", "already_exists", "error"},
           Quiet(c, p, o, r), Knows(c, p, o, r)
    PROVE  IInv'
<1> USE DEF IInv, Quiet
<1>1. TypeOK'
  <2>1. lock' \in [Ids -> {{}} \cup {{d} : d \in Callers}]
    BY DEF TypeOK
  <2> QED
    BY <2>1 DEF TypeOK
<1>2. \A d \in Callers \ {c} : object'[d] = object[d] /\ pc'[d] = pc[d] /\ result'[d] = result[d]
  BY DEF TypeOK
<1>3. object'[c] = o /\ pc'[c] = p /\ result'[c] = r
  BY DEF TypeOK
<1>4. \A i \in Ids : \A v : HasVersion(i, v)' = HasVersion(i, v)
  BY DEF HasVersion, Exists
<1>5. HoldsRow'
  <2> SUFFICES ASSUME NEW d \in Callers
               PROVE  /\ pc'[d] \in {"update", "commit"} => object'[d].expected # GoTime
                      /\ pc'[d] = "commit" => lock'[object'[d].id] = {d} /\ Matches(d)'
    BY DEF HoldsRow
  <2>1. CASE d = c
    BY <2>1, <1>3 DEF Knows
  <2>2. CASE d # c
    BY <2>2, <1>2, <1>4 DEF HoldsRow, Matches, TypeOK, Object
  <2> QED
    BY <2>1, <2>2
<1>6. VersionsSound' /\ UnchangedMatches'
  <2> SUFFICES ASSUME NEW d \in Callers, NEW v \in Versions(d)'
               PROVE  /\ v <= stamp
                      /\ HasVersion(object'[d].id, v) => row[object'[d].id].edits \subseteq object'[d].edits
                      /\ changed'[d] \/ HasVersion(object'[d].id, v)
    BY <1>1, <1>4 DEF VersionsSound, UnchangedMatches, TypeOK, Object, Exists, HasVersion
  <2>1. CASE d = c
    BY <2>1, <1>3 DEF Knows, Versions
  <2>2. CASE d # c
    BY <2>2, <1>2 DEF VersionsSound, UnchangedMatches, Versions
  <2> QED
    BY <2>1, <2>2
<1>7. NoFalseConflict'
  BY <1>2, <1>3 DEF NoFalseConflict, Knows
<1> QED
  BY <1>1, <1>5, <1>6, <1>7 DEF NoLostUpdate, EventsKept, NoOrphanEvents, Exists

LEMMA ObjectFacts ==
    ASSUME TypeOK, NEW c \in Callers
    PROVE  /\ object[c] \in Object
           /\ object[c].id \in Ids
           /\ nextOp \in Ops
           /\ \A i \in Ids : Exists(i) => row[i] \in Row
BY DEF TypeOK, Object, Exists

LEMMA IssueType ==
    ASSUME TypeOK, Issue
    PROVE  nextOp' \in Ops
BY DEF TypeOK, Issue, Ops

(* A caller keeps its object, or forgets a version of it. *)
LEMMA SameObjectKnows ==
    ASSUME IInv, NEW c \in Callers, NEW p, NEW r, UNCHANGED changed,
           p = "update" => object[c].expected # GoTime,
           r = "conflict" => result[c] = "conflict" \/ object[c].expected = GoTime
    PROVE  Knows(c, p, object[c], r)
BY DEF IInv, VersionsSound, UnchangedMatches, Versions, NoFalseConflict, Knows

(* Reading the row gives the caller its version and all it knows. *)
LEMMA GetRowKeeps ==
    ASSUME IInv, NEW c \in Callers, NEW i \in Ids, GetRow(c, i)
    PROVE  IInv'
<1> USE DEF GetRow
<1>1. TypeOK /\ nextOp' \in Ops
  BY IssueType DEF IInv
<1>2. CASE ~Exists(i)
  <2>1. Knows(c, "idle", object[c], "not_found")
    BY <1>2, SameObjectKnows
  <2>2. Quiet(c, "idle", object[c], "not_found")
    BY <1>1, <1>2 DEF Quiet, db, Return, GoTo, TypeOK
  <2> QED
    BY <2>1, <2>2, <1>1, ObjectFacts, QuietKeeps
<1>3. CASE Exists(i)
  <2> DEFINE o == Loaded(i, row[i].updatedAt, row[i].edits, nextOp)
  <2>1. row[i] \in Row /\ o \in Object
    BY <1>1, <1>3, ObjectFacts, LoadedType DEF Row
  <2>2. Knows(c, "load_events", o, "none")
    BY <1>3, <2>1 DEF IInv, VersionsSound, Knows, Loaded, HasVersion
  <2>3. Quiet(c, "load_events", o, "none")
    BY <1>1, <1>3 DEF Quiet, db, Return, GoTo, TypeOK
  <2> QED
    BY <2>1, <2>2, <2>3, QuietKeeps
<1> QED
  BY <1>2, <1>3

LEMMA LoadEventsKeeps ==
    ASSUME IInv, NEW c \in Callers, LoadEvents(c)
    PROVE  IInv'
<1> DEFINE o == [object[c] EXCEPT !.events = events[object[c].id]]
<1>1. TypeOK /\ object[c] \in Object
  BY ObjectFacts DEF IInv
<1>2. o \in Object
  BY <1>1 DEF Object, TypeOK
<1>3. Quiet(c, "holding", o, "ok")
  BY <1>1 DEF LoadEvents, Quiet, db, history, Return, GoTo, TypeOK
<1>4. Knows(c, "holding", object[c], "ok")
  BY SameObjectKnows DEF LoadEvents, history
<1>5. Knows(c, "holding", o, "ok")
  BY <1>1, <1>4 DEF Knows, Object
<1> QED
  BY <1>2, <1>3, <1>5, QuietKeeps

(* After an edit of the time the object has no version to hand in. *)
LEMMA TouchKeeps ==
    ASSUME IInv, NEW c \in Callers, Touch(c)
    PROVE  IInv'
<1> DEFINE o == [object[c] EXCEPT !.updatedAt = GoTime]
<1>1. TypeOK /\ object[c] \in Object /\ pc[c] = "holding"
  BY ObjectFacts DEF IInv, Touch
<1>2. o \in Object /\ result[c] \in {"none", "ok", "not_found", "conflict", "already_exists", "error"}
  BY <1>1 DEF Object, TypeOK
<1>3. Quiet(c, "holding", o, result[c])
  BY <1>1 DEF Touch, Quiet, db, history, TypeOK
<1>4. Knows(c, "holding", object[c], result[c])
  BY SameObjectKnows DEF Touch, history
<1>5. Knows(c, "holding", o, result[c])
  BY <1>1, <1>4 DEF Knows, Object
<1> QED
  BY <1>2, <1>3, <1>5, QuietKeeps

LEMMA ForgetKeeps ==
    ASSUME IInv, NEW c \in Callers, Forget(c)
    PROVE  IInv'
<1>1. TypeOK /\ object[c] \in Object
  BY ObjectFacts DEF IInv
<1>2. Quiet(c, "idle", object[c], result[c])
  BY <1>1 DEF Forget, GoTo, Quiet, db, history, TypeOK
<1>3. Knows(c, "idle", object[c], result[c])
  BY SameObjectKnows DEF Forget, history
<1>4. result[c] \in {"none", "ok", "not_found", "conflict", "already_exists", "error"}
  BY <1>1 DEF TypeOK
<1> QED
  BY <1>1, <1>2, <1>3, <1>4, QuietKeeps

(* Whoever sees another version than the one it got: the row has changed. *)
LEMMA SelectVersionKeeps ==
    ASSUME IInv, NEW c \in Callers, SelectVersion(c)
    PROVE  IInv'
<1> DEFINE i == object[c].id
           v == object[c].updatedAt
<1>1. TypeOK /\ object[c] \in Object /\ nextOp \in Ops
  BY ObjectFacts DEF IInv
<1>2. nextOp' \in Ops /\ UNCHANGED <<db, history>>
  BY <1>1, IssueType DEF SelectVersion
<1>4. CASE ~Exists(i) /\ Return(c, "holding", "not_found") /\ UNCHANGED object
  <2>1. Quiet(c, "holding", object[c], "not_found")
    BY <1>1, <1>2, <1>4 DEF Quiet, db, history, Return, GoTo, TypeOK
  <2>2. Knows(c, "holding", object[c], "not_found")
    BY <1>2, SameObjectKnows DEF history
  <2> QED
    BY <1>1, <2>1, <2>2, QuietKeeps
<1>5. CASE /\ Exists(i) /\ ~HasVersion(i, v)
           /\ object' = [object EXCEPT ![c].expected = v]
           /\ Return(c, "holding", "conflict")
  <2> DEFINE o == [object[c] EXCEPT !.expected = v]
  <2>1. o \in Object
    BY <1>1 DEF Object
  <2>2. Quiet(c, "holding", o, "conflict")
    BY <1>1, <1>2, <1>5 DEF Quiet, db, history, Return, GoTo, TypeOK
  <2>3. /\ o.expected = v /\ o.updatedAt = v /\ o.id = i
        /\ o.edits = object[c].edits /\ changed' = changed
    BY <1>1, <1>2 DEF Object, history
  <2>4. v # GoTime => v \in Versions(c)
    BY DEF Versions
  <2>5. Knows(c, "holding", o, "conflict")
    BY <1>5, <2>3, <2>4 DEF IInv, VersionsSound, UnchangedMatches, Knows
  <2> QED
    BY <2>1, <2>2, <2>5, QuietKeeps
<1>6. CASE /\ HasVersion(i, v)
           /\ object' = [object EXCEPT ![c].expected = v, ![c].updatedAt = GoTime,
                                       ![c].op = nextOp]
           /\ Return(c, "update", "none")
  <2> DEFINE o == [object[c] EXCEPT !.expected = v, !.updatedAt = GoTime, !.op = nextOp]
  <2>1. o \in Object
    BY <1>1 DEF Object
  <2>2. object' = [object EXCEPT ![c] = o]
    BY <1>1, <1>6 DEF TypeOK, Object
  <2>3. Quiet(c, "update", o, "none")
    BY <1>1, <1>2, <1>6, <2>2 DEF Quiet, db, history, Return, GoTo, TypeOK
  <2>4. /\ o.expected = v /\ o.updatedAt = GoTime /\ o.id = i
        /\ o.edits = object[c].edits /\ changed' = changed
    BY <1>1, <1>2 DEF Object, history
  <2>5. v # GoTime
    BY <1>1, <1>6, ObjectFacts DEF HasVersion, Row, Object
  <2>6. v \in Versions(c)
    BY <2>5 DEF Versions
  <2>7. Knows(c, "update", o, "none")
    BY <1>6, <2>4, <2>5, <2>6 DEF IInv, VersionsSound, UnchangedMatches, Knows
  <2> QED
    BY <2>1, <2>3, <2>7, QuietKeeps
<1> QED
  BY <1>4, <1>5, <1>6 DEF SelectVersion

LEMMA CheckIncidentKeeps ==
    ASSUME IInv, NEW c \in Callers, NEW i \in Ids, CheckIncident(c, i)
    PROVE  IInv'
<1> USE DEF CheckIncident
<1>1. TypeOK /\ object[c] \in Object /\ nextOp \in Ops /\ nextOp' \in Ops
  BY ObjectFacts, IssueType DEF IInv
<1>2. CASE ~Exists(i)
  <2>1. Knows(c, "idle", object[c], "not_found")
    BY SameObjectKnows DEF history
  <2>2. Quiet(c, "idle", object[c], "not_found")
    BY <1>1, <1>2 DEF Quiet, db, history, Return, GoTo, TypeOK
  <2> QED
    BY <1>1, <2>1, <2>2, QuietKeeps
<1>3. CASE Exists(i)
  <2> DEFINE o == Loaded(i, GoTime, {}, nextOp)
  <2>1. o \in Object
    BY <1>1, LoadedType DEF Ops
  <2>2. Knows(c, "insert", o, "none")
    BY DEF Knows, Loaded
  <2>3. Quiet(c, "insert", o, "none")
    BY <1>1, <1>3 DEF Quiet, db, history, Return, GoTo, TypeOK
  <2> QED
    BY <2>1, <2>2, <2>3, QuietKeeps
<1> QED
  BY <1>2, <1>3

LEMMA RollbackKeeps ==
    ASSUME IInv, NEW c \in Callers, Rollback(c)
    PROVE  IInv'
<1>1. TypeOK /\ object[c] \in Object /\ nextOp \in Ops
  BY ObjectFacts DEF IInv
<1>2. Quiet(c, "holding", object[c], "error")
  BY <1>1 DEF Rollback, Quiet, history, Return, GoTo, mapError, TypeOK
<1>3. Knows(c, "holding", object[c], "error")
  BY SameObjectKnows DEF Rollback, history
<1> QED
  BY <1>1, <1>2, <1>3, QuietKeeps

(* A row that no longer matches has changed; one that matches is locked. *)
LEMMA UpdateRowKeeps ==
    ASSUME IInv, NEW c \in Callers, UpdateRow(c)
    PROVE  IInv'
<1> DEFINE i == object[c].id
<1>1. /\ TypeOK /\ object[c] \in Object /\ i \in Ids /\ nextOp \in Ops
      /\ UNCHANGED <<row, events, stamp, nextOp, object, history>>
      /\ pc[c] = "update" /\ lock[i] = {}
  BY ObjectFacts DEF IInv, UpdateRow
<1>2. object[c].expected # GoTime
  BY <1>1 DEF IInv, HoldsRow
<1>3. CASE ~Matches(c) /\ Return(c, "holding", "conflict") /\ UNCHANGED lock
  <2>1. object[c].expected \in Versions(c)
    BY <1>2 DEF Versions
  <2>2. changed[c]
    BY <1>3, <2>1 DEF IInv, UnchangedMatches, Matches
  <2>3. Quiet(c, "holding", object[c], "conflict")
    BY <1>1, <1>3 DEF Quiet, history, Return, GoTo, TypeOK
  <2>4. Knows(c, "holding", object[c], "none")
    BY <1>1, SameObjectKnows DEF history
  <2>5. Knows(c, "holding", object[c], "conflict")
    BY <1>1, <2>2, <2>4 DEF Knows, history
  <2> QED
    BY <1>1, <2>3, <2>5, QuietKeeps
<1>4. CASE /\ Matches(c)
           /\ lock' = [lock EXCEPT ![i] = {c}]
           /\ GoTo(c, "commit") /\ UNCHANGED result
  <2>1. TypeOK'
    BY <1>1, <1>4 DEF TypeOK, GoTo, history
  <2>2. HoldsRow'
    BY <1>1, <1>2, <1>4 DEF IInv, TypeOK, HoldsRow, Matches, HasVersion, Exists, GoTo, Object
  <2>3. VersionsSound' /\ UnchangedMatches' /\ NoFalseConflict'
    BY <1>1, <1>4 DEF IInv, VersionsSound, UnchangedMatches, NoFalseConflict, Versions,
                      HasVersion, Exists, history
  <2> QED
    BY <1>1, <2>1, <2>2, <2>3
      DEF IInv, NoLostUpdate, EventsKept, NoOrphanEvents, Exists, history
<1> QED
  BY <1>3, <1>4 DEF UpdateRow

-----------------------------------------------------------------------------
(* Steps that write the tables.                                            *)

(* The foreign key: the incident is there when its event is inserted. *)
LEMMA InsertEventKeeps ==
    ASSUME IInv, NEW c \in Callers, InsertEvent(c)
    PROVE  IInv'
<1> DEFINE i == object[c].id
<1>1. /\ TypeOK /\ object[c] \in Object /\ i \in Ids /\ object[c].op \in Ops
      /\ nextOp \in Ops
      /\ UNCHANGED <<row, lock, stamp, nextOp, object, acked, changed>>
  BY ObjectFacts DEF IInv, InsertEvent, Object
<1>2. CASE /\ ~References(i)
           /\ Return(c, "idle", mapError.foreign_key_violation)
           /\ UNCHANGED <<events, ackedEvents>>
  <2>1. Quiet(c, "idle", object[c], "not_found")
    BY <1>1, <1>2 DEF Quiet, Return, GoTo, mapError, TypeOK
  <2>2. Knows(c, "idle", object[c], "not_found")
    BY <1>1, SameObjectKnows
  <2> QED
    BY <1>1, <2>1, <2>2, QuietKeeps
<1>3. CASE /\ References(i)
           /\ events' = [events EXCEPT ![i] = @ \cup {object[c].op}]
           /\ ackedEvents' = [ackedEvents EXCEPT ![i] = @ \cup {object[c].op}]
           /\ Return(c, "idle", "ok")
  <2>1. TypeOK'
    BY <1>1, <1>3 DEF TypeOK, Return, GoTo
  <2>2. HoldsRow'
    BY <1>1, <1>3 DEF IInv, TypeOK, HoldsRow, Matches, HasVersion, Exists, Return, GoTo
  <2>3. VersionsSound' /\ UnchangedMatches' /\ NoFalseConflict'
    BY <1>1, <1>3 DEF IInv, TypeOK, VersionsSound, UnchangedMatches, NoFalseConflict,
                      Versions, HasVersion, Exists, Return
  <2>4. EventsKept' /\ NoOrphanEvents'
    BY <1>1, <1>3 DEF IInv, TypeOK, EventsKept, NoOrphanEvents, References, Exists
  <2> QED
    BY <1>1, <2>1, <2>2, <2>3, <2>4 DEF IInv, NoLostUpdate, Exists
<1> QED
  BY <1>1, <1>2, <1>3 DEF InsertEvent

(* A row written anew carries a version nobody has seen, or no edit that   *)
(* anybody could miss, and everybody who holds an object of it knows that  *)
(* it changed.                                                             *)
LEMMA RowWritten ==
    ASSUME IInv, NEW i \in Ids, NEW c \in Callers, NEW edits \in SUBSET Ops,
           NEW version \in Nat, stamp' \in Nat, stamp' >= stamp, version <= stamp',
           version > stamp \/ edits = {},
           row' = [row EXCEPT ![i] = [updatedAt |-> version, edits |-> edits]],
           RowChanged(i), \A d \in Callers : object'[d].id = object[d].id,
           \A d \in Callers : object'[d].updatedAt = object[d].updatedAt,
           \A d \in Callers : object'[d].expected = object[d].expected,
           \A d \in Callers : object[d].edits \subseteq object'[d].edits
    PROVE  /\ VersionsSound' /\ UnchangedMatches'
           /\ row' \in [Ids -> Row \cup {NoRow}] /\ stamp' \in Nat
           /\ changed' \in [Callers -> BOOLEAN]
           /\ \A d \in Callers : changed[d] => changed'[d]
<1>1. TypeOK /\ stamp \in Nat
  BY DEF IInv, TypeOK
<1>2. [updatedAt |-> version, edits |-> edits] \in Row
  BY <1>1 DEF Row
<1>3. row' \in [Ids -> Row \cup {NoRow}]
  BY <1>1, <1>2 DEF TypeOK
<1>4. changed' \in [Callers -> BOOLEAN] /\ \A d \in Callers : changed[d] => changed'[d]
  BY <1>1, Zenon DEF RowChanged, TypeOK
<1>5. \A d \in Callers : Versions(d)' = Versions(d)
  BY DEF Versions
<1>6. \A j \in Ids : Exists(j)' => row'[j].updatedAt <= stamp'
  BY <1>1, <1>3 DEF IInv, VersionsSound, TypeOK, Exists, Row
<1>7. \A d \in Callers : \A v \in Versions(d) : v \in Nat /\ v <= stamp
  BY <1>1 DEF IInv, VersionsSound, Versions, TypeOK, Object
<1>8. ASSUME NEW d \in Callers, NEW v \in Versions(d)
      PROVE  /\ v <= stamp'
             /\ HasVersion(object[d].id, v)' =>
                   row'[object[d].id].edits \subseteq object'[d].edits
             /\ changed'[d] \/ HasVersion(object[d].id, v)'
  <2>1. v <= stamp'
    BY <1>1, <1>7
  <2>2. CASE object[d].id = i
    <3>1. HasVersion(i, v)' => row'[i].edits = {}
      BY <1>1, <1>7 DEF HasVersion, TypeOK
    <3>2. changed'[d]
      BY <2>2 DEF RowChanged
    <3> QED
      BY <2>1, <2>2, <3>1, <3>2 DEF HasVersion, Exists
  <2>3. CASE object[d].id # i
    <3>1. row'[object[d].id] = row[object[d].id] /\ (changed'[d] <=> changed[d])
      BY <1>1, <2>3 DEF RowChanged, TypeOK, Object
    <3> QED
      BY <2>1, <3>1 DEF IInv, VersionsSound, UnchangedMatches, HasVersion, Exists
  <2> QED
    BY <2>2, <2>3
<1>9. VersionsSound'
  BY <1>5, <1>6, <1>8 DEF VersionsSound, HasVersion, Exists
<1>10. UnchangedMatches'
  BY <1>5, <1>8 DEF UnchangedMatches, HasVersion, Exists
<1> QED
  BY <1>1, <1>3, <1>4, <1>9, <1>10

LEMMA CreateKeeps ==
    ASSUME IInv, NEW c \in Callers, NEW i \in Ids, Create(c, i)
    PROVE  IInv'
<1>1. /\ TypeOK /\ object[c] \in Object /\ nextOp \in Ops /\ nextOp' \in Ops
      /\ UNCHANGED object
  BY ObjectFacts, IssueType DEF IInv, Create
<1>2. CASE /\ Exists(i)
           /\ Return(c, "idle", mapError.unique_violation)
           /\ UNCHANGED <<row, events, lock, stamp, history>>
  <2>1. Quiet(c, "idle", object[c], "already_exists")
    BY <1>1, <1>2 DEF Quiet, history, Return, GoTo, mapError, TypeOK
  <2>2. Knows(c, "idle", object[c], "already_exists")
    BY <1>2, SameObjectKnows DEF history
  <2> QED
    BY <1>1, <2>1, <2>2, QuietKeeps
<1>3. CASE /\ ~Exists(i)
           /\ row' = [row EXCEPT ![i] = [updatedAt |-> 0, edits |-> {}]]
           /\ events' = [events EXCEPT ![i] = {nextOp}]
           /\ acked' = [acked EXCEPT ![i] = {}]
           /\ ackedEvents' = [ackedEvents EXCEPT ![i] = {nextOp}]
           /\ RowChanged(i)
           /\ Return(c, "idle", "ok")
           /\ UNCHANGED <<lock, stamp>>
  <2>1. /\ VersionsSound' /\ UnchangedMatches'
        /\ row' \in [Ids -> Row \cup {NoRow}] /\ stamp' \in Nat
        /\ changed' \in [Callers -> BOOLEAN]
        /\ \A d \in Callers : changed[d] => changed'[d]
    <3>1. {} \in SUBSET Ops
      OBVIOUS
    <3>2. \A d \in Callers : object'[d] = object[d]
      BY <1>1
    <3>3. 0 \in Nat /\ stamp' \in Nat /\ stamp' >= stamp /\ 0 <= stamp'
      BY <1>1, <1>3 DEF TypeOK
    <3>4. PICK version \in Nat, edits \in SUBSET Ops :
             /\ version <= stamp' /\ edits = {}
             /\ row' = [row EXCEPT ![i] = [updatedAt |-> version, edits |-> edits]]
      BY <1>3, <3>1, <3>3
    <3> QED
      BY <1>3, <3>2, <3>3, <3>4, RowWritten
  <2>2. TypeOK'
    BY <1>1, <1>3, <2>1 DEF TypeOK, Return, GoTo
  <2>3. row'[i] # NoRow /\ row'[i].edits = {}
    BY <1>1, <1>3, <2>1 DEF TypeOK, Row
  <2>4. HoldsRow'
    BY <1>1, <1>3 DEF IInv, TypeOK, HoldsRow, Matches, HasVersion, Exists, Return, GoTo
  <2>5. NoFalseConflict'
    BY <1>1, <1>3, <2>1 DEF IInv, TypeOK, NoFalseConflict, Return
  <2>6. NoLostUpdate' /\ EventsKept' /\ NoOrphanEvents'
    BY <1>1, <1>3, <2>3 DEF IInv, TypeOK, NoLostUpdate, EventsKept, NoOrphanEvents, Exists
  <2> QED
    BY <2>1, <2>2, <2>4, <2>5, <2>6 DEF IInv
<1> QED
  BY <1>2, <1>3 DEF Create

(* The row lock keeps a commit under way from being deleted under it. *)
LEMMA DeleteKeeps ==
    ASSUME IInv, NEW c \in Callers, NEW i \in Ids, Delete(c, i)
    PROVE  IInv'
<1>1. /\ TypeOK /\ object[c] \in Object /\ nextOp \in Ops /\ nextOp' \in Ops
      /\ lock[i] = {} /\ UNCHANGED <<lock, stamp, object>>
  BY ObjectFacts, IssueType DEF IInv, Delete
<1>2. CASE /\ ~Exists(i)
           /\ Return(c, "idle", "not_found")
           /\ UNCHANGED <<row, events, history>>
  <2>1. Quiet(c, "idle", object[c], "not_found")
    BY <1>1, <1>2 DEF Quiet, history, Return, GoTo, TypeOK
  <2>2. Knows(c, "idle", object[c], "not_found")
    BY <1>2, SameObjectKnows DEF history
  <2> QED
    BY <1>1, <2>1, <2>2, QuietKeeps
<1>3. CASE /\ Exists(i)
           /\ row' = [row EXCEPT ![i] = NoRow]
           /\ events' = [events EXCEPT ![i] = {}]
           /\ acked' = [acked EXCEPT ![i] = {}]
           /\ ackedEvents' = [ackedEvents EXCEPT ![i] = {}]
           /\ RowChanged(i)
           /\ Return(c, "idle", "ok")
  <2>1. changed' \in [Callers -> BOOLEAN] /\ \A d \in Callers : changed[d] => changed'[d]
    BY <1>1, <1>3, Zenon DEF RowChanged, TypeOK
  <2>2. TypeOK'
    BY <1>1, <1>3, <2>1 DEF TypeOK, Return, GoTo
  <2>3. HoldsRow'
    <3> SUFFICES ASSUME NEW d \in Callers
                 PROVE  /\ pc'[d] \in {"update", "commit"} => object'[d].expected # GoTime
                        /\ pc'[d] = "commit" => lock'[object'[d].id] = {d} /\ Matches(d)'
      BY DEF HoldsRow
    <3>1. CASE pc'[d] = "commit"
      <4>1. pc[d] = "commit"
        BY <1>1, <1>3, <3>1 DEF TypeOK, Return, GoTo
      <4>2. lock[object[d].id] = {d} /\ Matches(d) /\ object[d].id # i
        BY <1>1, <4>1 DEF IInv, HoldsRow
      <4> QED
        BY <1>1, <1>3, <4>1, <4>2
          DEF IInv, HoldsRow, TypeOK, Matches, HasVersion, Exists, Object
    <3>2. CASE pc'[d] # "commit"
      BY <1>1, <1>3, <3>2 DEF IInv, HoldsRow, TypeOK, Return, GoTo
    <3> QED
      BY <3>1, <3>2
  <2>4. \A d \in Callers : Versions(d)' = Versions(d)
    BY <1>1 DEF Versions
  <2>5. \A d \in Callers : object[d].id = i => changed'[d]
    BY <1>3 DEF RowChanged
  <2>6. \A j \in Ids : row'[j] # NoRow => row'[j] = row[j] /\ j # i
    BY <1>1, <1>3 DEF TypeOK
  <2>7. \A j \in Ids : j # i => row'[j] = row[j]
    BY <1>1, <1>3 DEF TypeOK
  <2>8. \A d \in Callers : object[d].id \in Ids
    BY <1>1, ObjectFacts
  <2>9. VersionsSound'
    BY <1>1, <2>4, <2>6, <2>8 DEF IInv, VersionsSound, HasVersion, Exists
  <2>10. UnchangedMatches'
    BY <1>1, <2>1, <2>4, <2>5, <2>7, <2>8 DEF IInv, UnchangedMatches, HasVersion, Exists
  <2>11. NoFalseConflict'
    BY <1>1, <1>3, <2>1 DEF IInv, TypeOK, NoFalseConflict, Return
  <2>12. NoLostUpdate' /\ EventsKept' /\ NoOrphanEvents'
    BY <1>1, <1>3 DEF IInv, TypeOK, NoLostUpdate, EventsKept, NoOrphanEvents, Exists
  <2> QED
    BY <2>2, <2>3, <2>9, <2>10, <2>11, <2>12 DEF IInv
<1> QED
  BY <1>2, <1>3 DEF Delete

(* The row still has the version that c read, so c knows every edit in it: *)
(* the acknowledged ones are carried along.                                *)
LEMMA CommitKeeps ==
    ASSUME IInv, NEW c \in Callers, Commit(c)
    PROVE  IInv'
<1> DEFINE i == object[c].id
           edits == object[c].edits \cup {object[c].op}
           o == [object[c] EXCEPT !.edits = edits]
<1>1. /\ TypeOK /\ object[c] \in Object /\ i \in Ids /\ edits \in SUBSET Ops
      /\ object[c].op \in Ops
  BY ObjectFacts DEF IInv, Object
<1>2. /\ pc[c] = "commit"
      /\ stamp' = stamp + 1
      /\ row' = [row EXCEPT ![i] = [updatedAt |-> stamp + 1, edits |-> edits]]
      /\ lock' = [lock EXCEPT ![i] = {}]
      /\ object' = [object EXCEPT ![c] = o]
      /\ RowChanged(i)
      /\ UNCHANGED <<events, nextOp, ackedEvents>>
  BY <1>1 DEF Commit, StoreRow, TypeOK, Object
<1>3. PICK r \in {"ok", "error"} :
          /\ Return(c, "holding", r)
          /\ acked' = [acked EXCEPT ![i] = @ \cup {object[c].op}] \/ acked' = acked
  BY DEF Commit, mapError
<1>4. o \in Object /\ \A d \in Callers : d # c => object'[d] = object[d]
  BY <1>1, <1>2 DEF Object, TypeOK
<1>5. \A d \in Callers : /\ object'[d].id = object[d].id
                         /\ object'[d].updatedAt = object[d].updatedAt
                         /\ object'[d].expected = object[d].expected
                         /\ object[d].edits \subseteq object'[d].edits
  BY <1>1, <1>2, <1>4 DEF TypeOK, Object
<1>6. /\ VersionsSound' /\ UnchangedMatches'
      /\ row' \in [Ids -> Row \cup {NoRow}] /\ stamp' \in Nat
      /\ changed' \in [Callers -> BOOLEAN]
      /\ \A d \in Callers : changed[d] => changed'[d]
  <2>1. stamp' \in Nat /\ stamp' >= stamp /\ stamp' > stamp /\ stamp' <= stamp'
    BY <1>1, <1>2 DEF TypeOK
  <2>2. row' = [row EXCEPT ![i] = [updatedAt |-> stamp', edits |-> edits]]
    BY <1>2
  <2>3. PICK version \in Nat : version = stamp'
    BY <2>1
  <2> QED
    BY <1>1, <1>2, <1>5, <2>1, <2>2, <2>3, RowWritten
<1>7. /\ object[c].expected # GoTime /\ lock[i] = {c} /\ Matches(c)
  BY <1>2 DEF IInv, HoldsRow
<1>8. row[i].edits \subseteq edits
  BY <1>7 DEF IInv, VersionsSound, Versions, Matches
<1>9. TypeOK'
  <2>1. acked' \in [Ids -> SUBSET Ops]
    BY <1>1, <1>3 DEF TypeOK
  <2>2. pc' \in [Callers -> {"idle", "load_events", "holding", "update", "commit", "insert"}]
    BY <1>1, <1>3 DEF TypeOK, Return, GoTo
  <2>3. result' \in [Callers -> {"none", "ok", "not_found", "conflict",
                                "already_exists", "error"}]
    BY <1>1, <1>3 DEF TypeOK, Return
  <2>4. object' \in [Callers -> Object] /\ lock' \in [Ids -> {{}} \cup {{d} : d \in Callers}]
    BY <1>1, <1>2, <1>4 DEF TypeOK
  <2> QED
    BY <1>1, <1>2, <1>6, <2>1, <2>2, <2>3, <2>4 DEF TypeOK
<1>10. HoldsRow'
  <2> SUFFICES ASSUME NEW d \in Callers
               PROVE  /\ pc'[d] \in {"update", "commit"} => object'[d].expected # GoTime
                      /\ pc'[d] = "commit" => lock'[object'[d].id] = {d} /\ Matches(d)'
    BY DEF HoldsRow
  <2>1. CASE d = c
    BY <1>1, <1>3, <2>1 DEF TypeOK, Return, GoTo
  <2>2. CASE d # c
    <3>1. pc'[d] = pc[d] /\ object'[d] = object[d] /\ object[d].id \in Ids
      BY <1>1, <1>3, <1>4, <2>2, ObjectFacts DEF TypeOK, Return, GoTo
    <3>2. CASE pc[d] = "commit"
      <4>1. lock[object[d].id] = {d} /\ Matches(d)
        BY <3>2 DEF IInv, HoldsRow
      <4>2. object[d].id # i
        BY <1>7, <2>2, <4>1
      <4> QED
        BY <1>1, <1>2, <3>1, <3>2, <4>1, <4>2
          DEF IInv, HoldsRow, TypeOK, Matches, HasVersion, Exists
    <3>3. CASE pc[d] # "commit"
      BY <3>1, <3>3 DEF IInv, HoldsRow
    <3> QED
      BY <3>2, <3>3
  <2> QED
    BY <2>1, <2>2
<1>11. NoFalseConflict'
  BY <1>1, <1>3, <1>5, <1>6 DEF IInv, TypeOK, NoFalseConflict, Return
<1>12. NoLostUpdate'
  <2> SUFFICES ASSUME NEW j \in Ids, Exists(j)' PROVE acked'[j] \subseteq row'[j].edits
    BY DEF NoLostUpdate
  <2>1. CASE j = i
    <3>1. row'[j].edits = edits /\ acked[i] \subseteq row[i].edits
      BY <1>1, <1>2, <1>7, <2>1 DEF IInv, NoLostUpdate, TypeOK, Matches, HasVersion
    <3> QED
      BY <1>1, <1>3, <1>8, <2>1, <3>1 DEF TypeOK
  <2>2. CASE j # i
    BY <1>1, <1>2, <1>3, <2>2 DEF IInv, NoLostUpdate, TypeOK, Exists
  <2> QED
    BY <2>1, <2>2
<1>13. EventsKept' /\ NoOrphanEvents'
  <2>1. \A j \in Ids : row[j] # NoRow => row'[j] # NoRow
    BY <1>1, <1>2 DEF TypeOK, Row
  <2> QED
    BY <1>2, <2>1 DEF IInv, EventsKept, NoOrphanEvents, Exists
<1> QED
  BY <1>6, <1>9, <1>10, <1>11, <1>12, <1>13 DEF IInv

-----------------------------------------------------------------------------

LEMMA IInvNext == IInv /\ [Next]_vars => IInv'
<1> SUFFICES ASSUME IInv, [Next]_vars PROVE IInv'
  OBVIOUS
<1>1. CASE UNCHANGED vars
  BY <1>1 DEF vars, IInv, TypeOK, HoldsRow, VersionsSound, UnchangedMatches, NoLostUpdate,
              EventsKept, NoOrphanEvents, NoFalseConflict, Versions, Matches, HasVersion,
              Exists
<1>2. CASE Next
  <2>1. PICK c \in Callers :
            \/ LoadEvents(c) \/ Touch(c) \/ Forget(c)
            \/ SelectVersion(c) \/ UpdateRow(c) \/ Commit(c) \/ Rollback(c)
            \/ InsertEvent(c)
            \/ \E i \in Ids :
                  Create(c, i) \/ GetRow(c, i) \/ CheckIncident(c, i) \/ Delete(c, i)
    BY <1>2 DEF Next
  <2> QED
    BY <2>1, LoadEventsKeeps, TouchKeeps, ForgetKeeps, SelectVersionKeeps, UpdateRowKeeps,
       CommitKeeps, RollbackKeeps, InsertEventKeeps, CreateKeeps, GetRowKeeps,
       CheckIncidentKeeps, DeleteKeeps
<1> QED
  BY <1>1, <1>2

(* The invariant that all properties of this module follow from. *)
THEOREM Inductive == Spec => []IInv
BY IInvInit, IInvNext, PTL DEF Spec

(* Every variable of the repository model keeps its type. *)
THEOREM TypeCorrect == Spec => []TypeOK
<1>1. IInv => TypeOK
  BY DEF IInv
<1> QED
  BY <1>1, Inductive, PTL

(* Optimistic locking: what one Update acknowledged, no other overwrites,  *)
(* whoever interleaves, rolls back or loses its answer.                    *)
THEOREM OptimisticLocking == Spec => []NoLostUpdate
<1>1. IInv => NoLostUpdate
  BY DEF IInv
<1> QED
  BY <1>1, Inductive, PTL

(* The events table: what AddEvent acknowledged is kept until the incident *)
(* is deleted, and no event outlives its incident.                         *)
THEOREM EventsWithTheirIncident == Spec => []EventsFollowIncident
<1>1. IInv => EventsFollowIncident
  BY DEF IInv, EventsFollowIncident
<1> QED
  BY <1>1, Inductive, PTL

(* Update refuses the version a caller got only if the row has changed.    *)
THEOREM ConflictsAreReal == Spec => []NoFalseConflict
<1>1. IInv => NoFalseConflict
  BY DEF IInv
<1> QED
  BY <1>1, Inductive, PTL

=============================================================================
