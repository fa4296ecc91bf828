-------------------------- MODULE PostgresRepository --------------------------
(***************************************************************************)
(* The Postgres incident repository,                                       *)
(* internal/adapters/storage/postgres/incident_repository.go, used through *)
(* the repository port by concurrent callers.  A statement is one step;    *)
(* between two statements of one method, and between a caller's Get and    *)
(* its Update, the others run.                                             *)
(*                                                                         *)
(* Of a row the model keeps updated_at, the version that optimistic        *)
(* locking compares, and the edits it contains: which Update calls had     *)
(* their effect carried along into it.  Versions are only ever compared    *)
(* for equality.  That the database gives out no two equal ones            *)
(* (transactions that begin within one microsecond) is assumed, and a      *)
(* count from 1 stands for them; 0 is the stamp of the program that a row  *)
(* is inserted with, which insertions may well share.                      *)
(***************************************************************************)
EXTENDS Naturals

CONSTANTS Ids,        \* incident UUIDs
          Callers,    \* goroutines that use the repository
          MaxOps,     \* bound: calls issued in a behaviour
          NoRow,      \* the incidents table has no such row
          GoTime      \* an updated_at set by the program's own clock

Ops == 0..MaxOps

Row == [updatedAt : Nat, edits : SUBSET Ops]

ASSUME PostgresAssumption ==
    /\ MaxOps \in Nat
    /\ GoTime \notin Nat
    /\ NoRow \notin Row

VARIABLES row,       \* the incidents table
          events,    \* the events table: events of each incident
          lock,      \* the transaction that holds the row lock, {} or {c}
          stamp,     \* the database clock: the last updated_at it gave out
          nextOp,    \* calls issued so far
          pc,        \* control of each caller
          object,    \* the incident object it holds, and its current call
          result,    \* outcome of its last finished call
          acked,     \* history: updates acknowledged since the row was created
          ackedEvents,  \* history: likewise for events
          changed    \* history: the row changed since the caller's Get

db == <<row, events, lock, stamp>>
history == <<acked, ackedEvents, changed>>
vars == <<row, events, lock, stamp, nextOp, pc, object, result,
          acked, ackedEvents, changed>>

(* An incident object; expected and op belong to the call in progress: the *)
(* currentUpdatedAt of Update, and its number.                             *)
Object == [id : Ids, updatedAt : Nat \cup {GoTime}, expected : Nat \cup {GoTime},
           edits : SUBSET Ops, events : SUBSET Ops, op : Ops]

Loaded(i, version, edits, op) ==
    [id |-> i, updatedAt |-> version, expected |-> GoTime, edits |-> edits,
     events |-> {}, op |-> op]

TypeOK ==
    /\ row \in [Ids -> Row \cup {NoRow}]
    /\ events \in [Ids -> SUBSET Ops]
    /\ lock \in [Ids -> {{}} \cup {{c} : c \in Callers}]
    /\ stamp \in Nat
    /\ nextOp \in Ops
    /\ pc \in [Callers -> {"idle", "load_events", "holding", "update", "commit", "insert"}]
    /\ object \in [Callers -> Object]
    /\ result \in [Callers -> {"none", "ok", "not_found", "conflict",
                               "already_exists", "error"}]
    /\ acked \in [Ids -> SUBSET Ops]
    /\ ackedEvents \in [Ids -> SUBSET Ops]
    /\ changed \in [Callers -> BOOLEAN]

Init ==
    /\ row = [i \in Ids |-> NoRow]
    /\ events = [i \in Ids |-> {}]
    /\ lock = [i \in Ids |-> {}]
    /\ stamp = 0
    /\ nextOp = 0
    /\ pc = [c \in Callers |-> "idle"]
    /\ object \in [Callers -> {Loaded(i, GoTime, {}, 0) : i \in Ids}]
    /\ result = [c \in Callers |-> "none"]
    /\ acked = [i \in Ids |-> {}]
    /\ ackedEvents = [i \in Ids |-> {}]
    /\ changed = [c \in Callers |-> FALSE]

Exists(i) == row[i] # NoRow

GoTo(c, p) == pc' = [pc EXCEPT ![c] = p]

Issue == nextOp < MaxOps /\ nextOp' = nextOp + 1

(* What a failed statement is reported as; a cancelled context, a timeout  *)
(* and a lost connection are all "error" here.                             *)
mapError == [unique_violation |-> "already_exists",
             foreign_key_violation |-> "not_found",
             connection |-> "error"]

(* The call ends with result r at control point p. *)
Return(c, p, r) == GoTo(c, p) /\ result' = [result EXCEPT ![c] = r]

(* Everybody who holds an object of incident i holds an old one now. *)
RowChanged(i) ==
    changed' = [c \in Callers |-> changed[c] \/ object[c].id = i]

-----------------------------------------------------------------------------
(* Create: rows and events are inserted in one transaction.  The row takes *)
(* the UpdatedAt of the caller's object; the trigger is one of updates.    *)

Create(c, i) ==
    /\ pc[c] = "idle" /\ Issue
    /\ \/ /\ Exists(i)
          /\ Return(c, "idle", mapError.unique_violation)
          /\ UNCHANGED <<row, events, lock, stamp, history>>
       \/ /\ ~Exists(i)
          /\ row' = [row EXCEPT ![i] = [updatedAt |-> 0, edits |-> {}]]
          /\ events' = [events EXCEPT ![i] = {nextOp}]
          /\ acked' = [acked EXCEPT ![i] = {}]
          /\ ackedEvents' = [ackedEvents EXCEPT ![i] = {nextOp}]
          /\ RowChanged(i)
          /\ Return(c, "idle", "ok")
          /\ UNCHANGED <<lock, stamp>>
    /\ UNCHANGED object

-----------------------------------------------------------------------------
(* Get: the row, the signals (left out) and the events by one query each,  *)
(* outside a transaction.                                                  *)

GetRow(c, i) ==
    /\ pc[c] = "idle" /\ Issue
    /\ \/ /\ ~Exists(i)
          /\ Return(c, "idle", "not_found")
          /\ UNCHANGED <<object, changed>>
       \/ /\ Exists(i)
          /\ object' = [object EXCEPT ![c] =
                 Loaded(i, row[i].updatedAt, row[i].edits, nextOp)]
          /\ changed' = [changed EXCEPT ![c] = FALSE]
          /\ Return(c, "load_events", "none")
    /\ UNCHANGED <<db, acked, ackedEvents>>

LoadEvents(c) ==
    /\ pc[c] = "load_events"
    /\ object' = [object EXCEPT ![c].events = events[object[c].id]]
    /\ Return(c, "holding", "ok")
    /\ UNCHANGED <<db, nextOp, history>>

(* The caller edits its object.  The incident service also sets UpdatedAt  *)
(* (Incident.TransitionTo, IncidentService.AddResponder).                  *)
Touch(c) ==
    /\ pc[c] = "holding" /\ object[c].updatedAt # GoTime
    /\ object' = [object EXCEPT ![c].updatedAt = GoTime]
    /\ UNCHANGED <<db, nextOp, pc, result, history>>

Forget(c) ==
    /\ pc[c] = "holding"
    /\ GoTo(c, "idle")
    /\ UNCHANGED <<db, nextOp, object, result, history>>

-----------------------------------------------------------------------------
(* Update: SELECT updated_at, compare, UPDATE ... WHERE updated_at = ...,  *)
(* commit, in one read-committed transaction.                              *)

(* The row stands at version v. *)
HasVersion(i, v) == Exists(i) /\ row[i].updatedAt = v

(* Once the version is found right the object carries the program's time,  *)
(* also if the rest fails: it cannot be handed in a second time.           *)
SelectVersion(c) ==
    LET i == object[c].id
        v == object[c].updatedAt IN
    /\ pc[c] = "holding" /\ Issue
    /\ \/ /\ ~Exists(i)
          /\ Return(c, "holding", "not_found")
          /\ UNCHANGED object
       \/ /\ Exists(i) /\ ~HasVersion(i, v)
          /\ object' = [object EXCEPT ![c].expected = v]
          /\ Return(c, "holding", "conflict")
       \/ /\ HasVersion(i, v)
          /\ object' = [object EXCEPT ![c].expected = v, ![c].updatedAt = GoTime,
                                      ![c].op = nextOp]
          /\ Return(c, "update", "none")
    /\ UNCHANGED <<db, history>>

(* Mutant: the statement asks for the ID only. *)
MatchesID(c) == Exists(object[c].id)

(* WHERE id = $1 AND updated_at = $12, evaluated when the row is free. *)
Matches(c) == HasVersion(object[c].id, object[c].expected)

(* The statement waits for the row lock. *)
UpdateRow(c) ==
    LET i == object[c].id IN
    /\ pc[c] = "update" /\ lock[i] = {}
    /\ \/ /\ Matches(c)
          /\ lock' = [lock EXCEPT ![i] = {c}]
          /\ GoTo(c, "commit") /\ UNCHANGED result
       \/ /\ ~Matches(c)
          /\ Return(c, "holding", "conflict")
          /\ UNCHANGED lock
    /\ UNCHANGED <<row, events, stamp, nextOp, object, history>>

(* Mutant: the events of the object replace those in the table. *)
StoreRowAndEvents(i, o) ==
    /\ stamp' = stamp + 1
    /\ row' = [row EXCEPT ![i] = [updatedAt |-> stamp + 1, edits |-> o.edits \cup {o.op}]]
    /\ events' = [events EXCEPT ![i] = o.events]

(* The trigger puts the database's NOW() over the updated_at of the        *)
(* statement; events of the object are not written.                        *)
StoreRow(i, o) ==
    /\ stamp' = stamp + 1
    /\ row' = [row EXCEPT ![i] = [updatedAt |-> stamp + 1, edits |-> o.edits \cup {o.op}]]
    /\ UNCHANGED events

Commit(c) ==
    LET i == object[c].id IN
    /\ pc[c] = "commit"
    /\ StoreRow(i, object[c])
    /\ lock' = [lock EXCEPT ![i] = {}]
    /\ object' = [object EXCEPT ![c].edits = @ \cup {object[c].op}]
    /\ RowChanged(i)
    /\ \/ /\ Return(c, "holding", "ok")
          /\ acked' = [acked EXCEPT ![i] = @ \cup {object[c].op}]
       \/ Return(c, "holding", mapError.connection) /\ UNCHANGED acked    \* the answer is lost
    /\ UNCHANGED <<nextOp, ackedEvents>>

(* A cancelled context or a lost connection ends the transaction. *)
Rollback(c) ==
    /\ pc[c] \in {"update", "commit"}
    /\ lock' = [i \in Ids |-> lock[i] \ {c}]
    /\ Return(c, "holding", mapError.connection)
    /\ UNCHANGED <<row, events, stamp, nextOp, object, history>>

-----------------------------------------------------------------------------
(* AddEvent: SELECT EXISTS, then INSERT, whose foreign key is checked.     *)

CheckIncident(c, i) ==
    /\ pc[c] = "idle" /\ Issue
    /\ \/ /\ ~Exists(i)
          /\ Return(c, "idle", "not_found")
          /\ UNCHANGED object
       \/ /\ Exists(i)
          /\ object' = [object EXCEPT ![c] = Loaded(i, GoTime, {}, nextOp)]
          /\ Return(c, "insert", "none")
    /\ UNCHANGED <<db, history>>

References(i) == Exists(i)

(* Mutant: an event renews the updated_at of its incident. *)
InsertEventTouching(c) ==
    LET i == object[c].id IN
    /\ pc[c] = "insert"
    /\ References(i)
    /\ stamp' = stamp + 1
    /\ row' = [row EXCEPT ![i].updatedAt = stamp + 1]
    /\ events' = [events EXCEPT ![i] = @ \cup {object[c].op}]
    /\ ackedEvents' = [ackedEvents EXCEPT ![i] = @ \cup {object[c].op}]
    /\ Return(c, "idle", "ok")
    /\ UNCHANGED <<lock, nextOp, object, acked, changed>>

InsertEvent(c) ==
    LET i == object[c].id IN
    /\ pc[c] = "insert"
    /\ \/ /\ References(i)
          /\ events' = [events EXCEPT ![i] = @ \cup {object[c].op}]
          /\ ackedEvents' = [ackedEvents EXCEPT ![i] = @ \cup {object[c].op}]
          /\ Return(c, "idle", "ok")
       \/ /\ ~References(i)
          /\ Return(c, "idle", mapError.foreign_key_violation)
          /\ UNCHANGED <<events, ackedEvents>>
    /\ UNCHANGED <<row, lock, stamp, nextOp, object, acked, changed>>

(* DELETE waits for the row lock; the schema deletes the events with it.   *)
Delete(c, i) ==
    /\ pc[c] = "idle" /\ lock[i] = {} /\ Issue
    /\ \/ /\ ~Exists(i)
          /\ Return(c, "idle", "not_found")
          /\ UNCHANGED <<row, events, history>>
       \/ /\ Exists(i)
          /\ row' = [row EXCEPT ![i] = NoRow]
          /\ events' = [events EXCEPT ![i] = {}]
          /\ acked' = [acked EXCEPT ![i] = {}]
          /\ ackedEvents' = [ackedEvents EXCEPT ![i] = {}]
          /\ RowChanged(i)
          /\ Return(c, "idle", "ok")
    /\ UNCHANGED <<lock, stamp, object>>

-----------------------------------------------------------------------------

Next ==
    \E c \in Callers :
        \/ LoadEvents(c) \/ Touch(c) \/ Forget(c)
        \/ SelectVersion(c) \/ UpdateRow(c) \/ Commit(c) \/ Rollback(c)
        \/ InsertEvent(c)
        \/ \E i \in Ids :
              Create(c, i) \/ GetRow(c, i) \/ CheckIncident(c, i) \/ Delete(c, i)

Spec == Init /\ [][Next]_vars

-----------------------------------------------------------------------------
(* Properties                                                              *)

(* Optimistic locking: an update that was acknowledged is never            *)
(* overwritten by one that did not know of it.                             *)
NoLostUpdate == \A i \in Ids : Exists(i) => acked[i] \subseteq row[i].edits

(* An event that was acknowledged stays, whatever updates run beside it.   *)
EventsKept == \A i \in Ids : ackedEvents[i] \subseteq events[i]

(* AddEvent checks first and inserts later; the incident may be deleted in *)
(* between, and still no event is left without its incident.               *)
NoOrphanEvents == \A i \in Ids : events[i] # {} => Exists(i)

(* An acknowledged event lives as long as its incident: updates and events *)
(* of other callers do not remove it, and after a Delete that ran between  *)
(* AddEvent's check and its insert nothing is left.                        *)
EventsFollowIncident == EventsKept /\ NoOrphanEvents

(* Update answers ErrConflict for a concurrent modification: a caller that *)
(* hands in the updated_at it got is refused only if somebody's change was *)
(* committed since.  A transaction that held the row and rolled back is no *)
(* reason.                                                                 *)
NoFalseConflict ==
    \A c \in Callers :
        result[c] = "conflict" /\ object[c].expected # GoTime => changed[c]

-----------------------------------------------------------------------------
(* The inductive invariant behind the properties above.                    *)

(* A transaction past its UPDATE holds the row, which still matches.       *)
HoldsRow ==
    \A c \in Callers :
        /\ pc[c] \in {"update", "commit"} => object[c].expected # GoTime
        /\ pc[c] = "commit" => lock[object[c].id] = {c} /\ Matches(c)

(* The versions a caller can still hand in, or has handed in. *)
Versions(c) == {object[c].updatedAt, object[c].expected} \ {GoTime}

(* No version is ahead of the clock, and an object with the version of the *)
(* row knows every edit in the row.                                        *)
VersionsSound ==
    /\ \A i \in Ids : Exists(i) => row[i].updatedAt <= stamp
    /\ \A c \in Callers : \A v \in Versions(c) :
          /\ v <= stamp
          /\ HasVersion(object[c].id, v) => row[object[c].id].edits \subseteq object[c].edits

(* Until the row changes it has the version the caller got. *)
UnchangedMatches ==
    \A c \in Callers : \A v \in Versions(c) : changed[c] \/ HasVersion(object[c].id, v)

IInv ==
    /\ TypeOK /\ HoldsRow /\ VersionsSound /\ UnchangedMatches
    /\ NoLostUpdate /\ EventsKept /\ NoOrphanEvents /\ NoFalseConflict

=============================================================================
