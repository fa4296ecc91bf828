------------------------------ MODULE Schedules ------------------------------
(***************************************************************************)
(* Schedules (internal/core/domain/schedule.go) and their YAML form        *)
(* (internal/config/schedule_loader.go).                                   *)
(***************************************************************************)
EXTENDS Rotation

CONSTANTS Ids,          \* schedule IDs
          Names,        \* schedule names and team IDs, Ids included
          Second,       \* time.Second in ticks: what RFC 3339 text resolves
          Omitted       \* a field the YAML text leaves out

ASSUME SchedulesAssumption ==
    /\ Ids \subseteq Names
    /\ Second \in Nat \ {0}
    /\ Omitted \notin Names /\ Omitted \notin Nat /\ Omitted \notin BOOLEAN

Schedule == [id : Ids, name : Names, team : Names, zone : {"known", "unknown"},
             rotation : RotationValue, enabled : BOOLEAN,
             created : Nat, updated : Nat]

(* Schedule.Validate; IDs, names and teams are never empty here. *)
Validate(s) == s.zone = "known" /\ ValidRotation(s.rotation)

(* Schedule.GetCurrentOnCall; Nobody is an error, as for a rotation. *)
OnCall(s, at) == IF s.enabled THEN CurrentOnCall(s.rotation, at) ELSE Nobody

(* Mutant: the comparison with the start date is strict. *)
IsActiveAfter(s, at) == s.enabled /\ s.rotation.start < at

IsActive(s, at) == s.enabled /\ s.rotation.start <= at

-----------------------------------------------------------------------------
(* Mutant: a plain enabled flag, left out when false. *)
ConvertFromDomainFlag(s) ==
    [name |-> IF s.name = s.id THEN Omitted ELSE s.name,
     team |-> IF s.team = s.id THEN Omitted ELSE s.team,
     zone |-> s.zone, type |-> s.rotation.type,
     participants |-> s.rotation.participants,
     start |-> s.rotation.start - (s.rotation.start % Second),
     duration |-> IF s.rotation.type = "custom" THEN s.rotation.duration ELSE Omitted,
     enabled |-> IF s.enabled THEN TRUE ELSE Omitted]

ConvertFromDomain(s) ==
    [name |-> IF s.name = s.id THEN Omitted ELSE s.name,
     team |-> IF s.team = s.id THEN Omitted ELSE s.team,
     zone |-> s.zone, type |-> s.rotation.type,
     participants |-> s.rotation.participants,
     start |-> s.rotation.start - (s.rotation.start % Second),
     duration |-> IF s.rotation.type = "custom" THEN s.rotation.duration ELSE Omitted,
     enabled |-> s.enabled]

OrElse(field, default) == IF field = Omitted THEN default ELSE field

(* convertToDomainSchedule of a definition loaded at instant t. *)
ConvertToDomain(id, def, t) ==
    [id |-> id, name |-> OrElse(def.name, id), team |-> OrElse(def.team, id),
     zone |-> def.zone,
     rotation |-> [type |-> def.type, participants |-> def.participants,
                   start |-> OrElse(def.start, t),
                   duration |-> IF def.type = "custom" THEN def.duration ELSE 0],
     enabled |-> OrElse(def.enabled, TRUE),
     created |-> t, updated |-> t]

=============================================================================
