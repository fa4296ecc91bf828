------------------------------ MODULE Rotation ------------------------------
(***************************************************************************)
(* On-call rotations: internal/core/domain/schedule.go.  Instants and      *)
(* durations are integers of one tick; instant 0 is Go's zero time.  The   *)
(* time zone of a schedule is only checked for being known: In(loc) moves  *)
(* no instant, so a slot is always a fixed number of ticks.                *)
(***************************************************************************)
EXTENDS Integers, Sequences

CONSTANTS People,       \* participant IDs other than ""
          Nobody,       \* the empty participant ID
          Day,          \* 24 * time.Hour
          MaxDuration   \* the largest time.Duration

ASSUME RotationAssumption ==
    /\ Day \in Nat \ {0}
    /\ MaxDuration \in Nat /\ 7 * Day <= MaxDuration
    /\ Nobody \notin People

RotationType == {"daily", "weekly", "custom"}

(* A rotation as a caller may build it; type may be any string. *)
RotationValue == [type : STRING, participants : Seq(People \cup {Nobody}),
                  start : Nat, duration : 0..MaxDuration]

ZeroTime == 0

Distinct(s) == \A i, j \in 1..Len(s) : i # j => s[i] # s[j]

(* Mutant: duplicate participants are not looked for. *)
ValidWithDuplicates(r) ==
    /\ r.type \in RotationType
    /\ Len(r.participants) > 0
    /\ \A i \in 1..Len(r.participants) : r.participants[i] # Nobody
    /\ r.start # ZeroTime
    /\ r.type = "custom" => r.duration > 0

(* Rotation.Validate. *)
ValidRotation(r) ==
    /\ r.type \in RotationType
    /\ Len(r.participants) > 0
    /\ \A i \in 1..Len(r.participants) : r.participants[i] # Nobody
    /\ Distinct(r.participants)
    /\ r.start # ZeroTime
    /\ r.type = "custom" => r.duration > 0

(* rotationDuration. *)
SlotLength(r) ==
    CASE r.type = "daily"  -> Day
      [] r.type = "weekly" -> 7 * Day
      [] r.type = "custom" -> r.duration

(* time.Time.Sub saturates at the largest Duration (at is not before the   *)
(* start date here).                                                       *)
Elapsed(r, at) ==
    IF at - r.start > MaxDuration THEN MaxDuration ELSE at - r.start

(* A product of int64 factors wraps around. *)
Wrapped(n) == ((n + MaxDuration + 1) % (2 * (MaxDuration + 1))) - (MaxDuration + 1)

Periods(r, at) == Elapsed(r, at) \div SlotLength(r)

(* The participant of period k. *)
TurnOf(r, k) == r.participants[(k % Len(r.participants)) + 1]

Started(r, at) == r.start <= at

(* Rotation.GetCurrentOnCall; Nobody stands for the error "schedule has    *)
(* not started yet".                                                       *)
CurrentOnCall(r, at) ==
    IF Started(r, at) THEN TurnOf(r, Periods(r, at)) ELSE Nobody

(* Mutant: before the start date the second participant is announced. *)
NextRotationSecondFirst(r, at) ==
    IF Started(r, at)
    THEN [at  |-> r.start + Wrapped((Periods(r, at) + 1) * SlotLength(r)),
          who |-> TurnOf(r, Periods(r, at) + 1)]
    ELSE [at |-> r.start, who |-> TurnOf(r, 1)]

(* Rotation.GetNextRotation. *)
NextRotation(r, at) ==
    IF Started(r, at)
    THEN [at  |-> r.start + Wrapped((Periods(r, at) + 1) * SlotLength(r)),
          who |-> TurnOf(r, Periods(r, at) + 1)]
    ELSE [at |-> r.start, who |-> TurnOf(r, 0)]

(* The end of the current slot is still a Duration away from the start     *)
(* date: for daily and weekly rotations, the first 292 years.              *)
Representable(r, at) == at - r.start + SlotLength(r) <= MaxDuration

-----------------------------------------------------------------------------
(* What a rotation promises. *)

(* What GetNextRotation announces at instant at happens: at the announced  *)
(* instant the announced participant is on call, the instant lies in the   *)
(* future, and until then whoever is on call stays.                        *)
Kept(r, at) ==
    LET next == NextRotation(r, at) IN
    /\ next.at > at
    /\ CurrentOnCall(r, next.at) = next.who
    /\ \A t \in at..(next.at - 1) : CurrentOnCall(r, t) = CurrentOnCall(r, at)

(* In the cycle that begins at instant at, every participant has exactly   *)
(* one slot.                                                               *)
TurnsFrom(r, at) ==
    LET n == Len(r.participants)
        slot(k) == CurrentOnCall(r, at + k * SlotLength(r))
    IN /\ {slot(k) : k \in 0..(n - 1)} = {r.participants[i] : i \in 1..n}
       /\ \A j, k \in 0..(n - 1) : j # k => slot(j) # slot(k)

=============================================================================
