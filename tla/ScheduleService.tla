--------------------------- MODULE ScheduleService ---------------------------
(***************************************************************************)
(* ScheduleService (internal/core/services/schedule_service.go) over the   *)
(* in-memory ScheduleRepository (adapters/storage/memory/                  *)
(* schedule_repository.go), used by concurrent editors.  An operation      *)
(* stamps and validates the caller's object, then makes one repository     *)
(* call, which holds the mutex: two steps, between which other editors     *)
(* run.  Read operations take one Get and compute on the copy; they change *)
(* nothing and are operators.                                              *)
(***************************************************************************)
EXTENDS Schedules

CONSTANTS Editors,      \* concurrent callers
          Drafts,       \* the objects editors build: a subset of Schedule
          Instants,     \* instants the read operations are asked about
          MaxNow,       \* bound: last instant of the clock that stamps
          MaxCalls,     \* bound: create, update and delete calls
          NoSchedule    \* an absent map entry, an editor with no object

ASSUME ScheduleAssumption ==
    /\ Drafts \subseteq Schedule
    /\ \A d \in Drafts : d.created = ZeroTime /\ d.updated = ZeroTime
    /\ Instants \subseteq Nat
    /\ MaxNow \in Nat /\ MaxCalls \in Nat
    /\ NoSchedule \notin Schedule

VARIABLES schedules,    \* the schedules map
          held,         \* the object each editor has a pointer to
          pc,           \* what each editor is waiting for
          now,          \* time.Now()
          calls         \* calls made so far

vars == <<schedules, held, pc, now, calls>>

ScheduleTypeOK ==
    /\ schedules \in [Ids -> Schedule \cup {NoSchedule}]
    /\ held \in [Editors -> Schedule \cup {NoSchedule}]
    /\ pc \in [Editors -> {"idle", "create", "update"}]
    /\ now \in Nat
    /\ calls \in Nat

Init ==
    /\ schedules = [id \in Ids |-> NoSchedule]
    /\ held = [e \in Editors |-> NoSchedule]
    /\ pc = [e \in Editors |-> "idle"]
    /\ now = 1
    /\ calls = 0

Stored(id) == schedules[id] # NoSchedule

(* ScheduleRepository.List: all schedules, or only the enabled ones. *)
ListSchedules(enabledOnly) ==
    {id \in Ids : Stored(id) /\ (enabledOnly => schedules[id].enabled)}

-----------------------------------------------------------------------------
(* The editor's own object. *)

(* A new object, built by hand (no stamps) or by the YAML loader (now). *)
Draft(e, d) ==
    /\ pc[e] = "idle" /\ calls < MaxCalls
    /\ \E t \in {ZeroTime, now} :
          held' = [held EXCEPT ![e] = [d EXCEPT !.created = t, !.updated = t]]
    /\ UNCHANGED <<schedules, pc, now, calls>>

(* GetSchedule: the object is a copy of the stored one. *)
GetSchedule(e, id) ==
    /\ pc[e] = "idle" /\ calls < MaxCalls
    /\ Stored(id)
    /\ held' = [held EXCEPT ![e] = schedules[id]]
    /\ UNCHANGED <<schedules, pc, now, calls>>

(* The editor changes what the schedule says and keeps its stamps. *)
Edit(e, d) ==
    /\ pc[e] = "idle" /\ calls < MaxCalls
    /\ held[e] # NoSchedule /\ held[e].id = d.id
    /\ held' = [held EXCEPT ![e] = [d EXCEPT !.created = held[e].created,
                                             !.updated = held[e].updated]]
    /\ UNCHANGED <<schedules, pc, now, calls>>

-----------------------------------------------------------------------------
(* The operations that write. *)

(* Stamp the object, validate it, and go on to the repository if it passes. *)
Submit(e, stamped, p) ==
    /\ pc[e] = "idle" /\ calls < MaxCalls
    /\ held[e] # NoSchedule
    /\ held' = [held EXCEPT ![e] = stamped]
    /\ pc' = IF Validate(stamped) THEN [pc EXCEPT ![e] = p] ELSE pc
    /\ calls' = calls + 1
    /\ UNCHANGED <<schedules, now>>

CreateSchedule(e) ==
    Submit(e, [held[e] EXCEPT !.created = now, !.updated = now], "create")

UpdateSchedule(e) ==
    Submit(e, [held[e] EXCEPT !.updated = now], "update")

(* The repository call of editor e ends; r is the map afterwards. *)
Return(e, r) ==
    /\ schedules' = r
    /\ pc' = [pc EXCEPT ![e] = "idle"]
    /\ UNCHANGED <<held, now, calls>>

(* ScheduleRepository.Create: refused with ErrAlreadyExists when present.  *)
CreateStore(e) ==
    /\ pc[e] = "create"
    /\ Return(e, IF Stored(held[e].id) THEN schedules
                 ELSE [schedules EXCEPT ![held[e].id] = held[e]])

(* Mutant: the repository keeps the service's stamp. *)
UpdateStoreUnstamped(e) ==
    /\ pc[e] = "update"
    /\ Return(e, IF ~Stored(held[e].id) THEN schedules
                 ELSE [schedules EXCEPT ![held[e].id] = held[e]])

(* ScheduleRepository.Update: the whole record is replaced, stamped again  *)
(* under the mutex; refused with ErrNotFound when absent.                  *)
UpdateStore(e) ==
    /\ pc[e] = "update"
    /\ Return(e, IF ~Stored(held[e].id) THEN schedules
                 ELSE [schedules EXCEPT ![held[e].id] = [held[e] EXCEPT !.updated = now]])

(* The context is done when the repository is called: nothing is written.  *)
ContextDone(e) ==
    /\ pc[e] # "idle"
    /\ Return(e, schedules)

DeleteSchedule(e, id) ==
    /\ pc[e] = "idle" /\ calls < MaxCalls
    /\ Stored(id)
    /\ schedules' = [schedules EXCEPT ![id] = NoSchedule]
    /\ calls' = calls + 1
    /\ UNCHANGED <<held, pc, now>>

(* The wall clock is assumed never to be stepped back: the stamps are      *)
(* time.Now().UTC(), without the monotonic reading.                        *)
Tick ==
    /\ now < MaxNow
    /\ now' = now + 1
    /\ UNCHANGED <<schedules, held, pc, calls>>

Next ==
    \/ \E e \in Editors :
          \/ \E d \in Drafts : Draft(e, d) \/ Edit(e, d)
          \/ \E id \in Ids : GetSchedule(e, id) \/ DeleteSchedule(e, id)
          \/ CreateSchedule(e) \/ CreateStore(e)
          \/ UpdateSchedule(e) \/ UpdateStore(e)
          \/ ContextDone(e)
    \/ Tick

Spec == Init /\ [][Next]_vars

-----------------------------------------------------------------------------
(* Properties *)

(* What GetNextRotation announces of a stored schedule happens: the person *)
(* announced takes over at the instant announced and nobody before.        *)
HandOffKept ==
    \A id \in Ids : Stored(id) =>
        \A at \in Instants :
            Representable(schedules[id].rotation, at) => Kept(schedules[id].rotation, at)

(* In every cycle of a stored schedule, whichever slot it begins with,     *)
(* nobody is skipped and nobody serves twice.                              *)
EveryoneTakesTurns ==
    \A id \in Ids : Stored(id) =>
        LET r == schedules[id].rotation IN
        \A at \in Instants :
            /\ Started(r, at)
            /\ Representable(r, at + (Len(r.participants) - 1) * SlotLength(r))
            => TurnsFrom(r, at)

(* ListSchedules, IsScheduleActive and GetCurrentOnCall agree, the instant *)
(* of the start date included: a schedule listed as enabled is active and  *)
(* names somebody from its start date on, and no other ever does.          *)
ActiveMeansOnCall ==
    \A id \in ListSchedules(FALSE) :
        \A at \in Instants :
            LET s == schedules[id] IN
            /\ IsActive(s, at) <=> OnCall(s, at) # Nobody
            /\ IsActive(s, at) <=> id \in ListSchedules(TRUE) /\ Started(s.rotation, at)

(* A schedule exported by WriteSchedulesToYAML and loaded again is valid   *)
(* and has the same rota, ahead of the original by the fraction of a       *)
(* second its start date loses.                                            *)
RoundTrip ==
    \A id \in Ids : Stored(id) /\ schedules[id].rotation.start >= Second =>
        LET s == schedules[id]
            l == ConvertToDomain(id, ConvertFromDomain(s), now)
        IN /\ Validate(l)
           /\ l.name = s.name /\ l.team = s.team
           /\ \A at \in Instants :
                 OnCall(l, at) = OnCall(s, at + (s.rotation.start % Second))

(* The stamp of a stored schedule never goes back, although editors stamp  *)
(* their objects before they wait for the mutex (and as long as the wall   *)
(* clock does not, see Tick).                                              *)
UpdatedNeverGoesBack ==
    [][\A id \in Ids :
          Stored(id) /\ Stored(id)' => schedules'[id].updated >= schedules[id].updated]_vars

(* A deleted schedule returns only through a Create: an update that was    *)
(* under way, or of an object fetched earlier, does not bring it back.     *)
OnlyCreateAdds ==
    [][\A id \in Ids :
          ~Stored(id) /\ Stored(id)' =>
             \E e \in Editors : pc[e] = "create" /\ held[e].id = id]_vars

-----------------------------------------------------------------------------
(* The inductive invariant behind the properties above. *)

(* Every stored schedule passed Validate under its own ID, and so did      *)
(* every object on its way to the repository.                              *)
StoredValid ==
    /\ \A id \in Ids : Stored(id) => schedules[id].id = id /\ Validate(schedules[id])
    /\ \A e \in Editors : pc[e] # "idle" => held[e] # NoSchedule /\ Validate(held[e])

(* No stamp is later than the clock. *)
StampsPast ==
    /\ \A id \in Ids : Stored(id) => schedules[id].updated <= now
    /\ \A e \in Editors : held[e] # NoSchedule => held[e].updated <= now

ScheduleIInv == ScheduleTypeOK /\ StoredValid /\ StampsPast

=============================================================================
