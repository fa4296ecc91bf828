------------------------ MODULE ScheduleServiceProofs ------------------------
(***************************************************************************)
(* Proofs about rotations and the schedule service.  The arithmetic comes  *)
(* first (what division by the slot length gives), then what a valid       *)
(* rotation answers, then the invariant: stored schedules are valid and    *)
(* stamped no later than now.                                              *)
(***************************************************************************)
EXTENDS ScheduleService, TLAPS

(* Quotient and remainder. *)
LEMMA DivMod ==
    ASSUME NEW a \in Nat, NEW s \in Nat \ {0}
    PROVE  /\ a \div s \in Nat
           /\ (a \div s) * s <= a /\ a < (a \div s) * s + s
  OBVIOUS

(* The quotient is the only number that fits. *)
LEMMA DivUnique ==
    ASSUME NEW a \in Nat, NEW s \in Nat \ {0}, NEW q \in Nat,
           q * s <= a, a < q * s + s
    PROVE  a \div s = q
<1> DEFINE d == a \div s
<1>1. d \in Nat /\ d * s <= a /\ a < d * s + s
  BY DivMod
<1>2. CASE d < q
  <2>1. PICK k \in Nat : q = d + 1 + k
    <3>1. q - d - 1 \in Nat /\ q = d + 1 + (q - d - 1)
      BY <1>1, <1>2
    <3> QED BY <3>1
  <2>2. q * s = d * s + s + k * s /\ k * s >= 0
    BY <1>1, <2>1
  <2> QED BY <1>1, <2>2
<1>3. CASE q < d
  <2>1. PICK k \in Nat : d = q + 1 + k
    <3>1. d - q - 1 \in Nat /\ d = q + 1 + (d - q - 1)
      BY <1>1, <1>3
    <3> QED BY <3>1
  <2>2. d * s = q * s + s + k * s /\ k * s >= 0
    BY <1>1, <2>1
  <2> QED BY <1>1, <2>2
<1> QED BY <1>1, <1>2, <1>3

(* The remainder is what the quotient leaves. *)
LEMMA ModUnique ==
    ASSUME NEW n \in Nat \ {0}, NEW q \in Nat, NEW m \in Nat, m < n
    PROVE  (q * n + m) % n = m
<1>1. q * n + m \in Nat /\ q * n <= q * n + m /\ q * n + m < q * n + n
  OBVIOUS
<1>2. (q * n + m) \div n = q
  BY <1>1, DivUnique
<1>3. \A a \in Nat : a = (a \div n) * n + (a % n)
  OBVIOUS
<1>4. q * n + m = ((q * n + m) \div n) * n + ((q * n + m) % n)
  BY <1>1, <1>3
<1>5. q * n + m = q * n + ((q * n + m) % n)
  BY <1>2, <1>4
<1>6. (q * n + m) % n \in Int /\ q * n \in Int
  BY <1>1
<1> QED BY <1>5, <1>6

(* A duration that fits is not changed by the int64 product. *)
LEMMA WrappedIsIdentity ==
    ASSUME NEW n \in Nat, n <= MaxDuration
    PROVE  Wrapped(n) = n
<1> DEFINE w == MaxDuration + 1
<1>1. w \in Nat \ {0} /\ n < w
  BY RotationAssumption
<1>2. 2 * w \in Nat \ {0} /\ n + w \in Nat /\ n + w < 2 * w
  BY <1>1
<1> HIDE DEF w
<1>3. (0 * (2 * w) + (n + w)) % (2 * w) = n + w
  BY <1>2, ModUnique
<1>4. 0 * (2 * w) + (n + w) = n + w
  BY <1>1
<1>5. (n + w) % (2 * w) = n + w
  BY <1>3, <1>4
<1>6. Wrapped(n) = ((n + w) % (2 * w)) - w
  <2>1. n + MaxDuration + 1 = n + w
    BY <1>1, RotationAssumption DEF w
  <2> QED BY <2>1 DEF Wrapped, w
<1> QED BY <1>1, <1>5, <1>6

-----------------------------------------------------------------------------

(* What Validate guarantees of the numbers in a rotation. *)
LEMMA ValidNumbers ==
    ASSUME NEW r \in RotationValue, ValidRotation(r)
    PROVE  /\ SlotLength(r) \in Nat \ {0} /\ SlotLength(r) <= MaxDuration
           /\ r.start \in Nat
           /\ Len(r.participants) \in Nat \ {0}
           /\ \A i \in 1..Len(r.participants) : r.participants[i] \in People
<1>1. r.duration \in 0..MaxDuration /\ r.start \in Nat
      /\ r.participants \in Seq(People \cup {Nobody})
  BY DEF RotationValue
<1>2. SlotLength(r) \in Nat \ {0} /\ SlotLength(r) <= MaxDuration
  <2>1. CASE r.type = "daily"
    BY <2>1, RotationAssumption DEF SlotLength
  <2>2. CASE r.type = "weekly"
    BY <2>2, RotationAssumption DEF SlotLength
  <2>3. CASE r.type = "custom"
    <3>1. r.duration \in Nat /\ r.duration > 0 /\ r.duration <= MaxDuration
      BY <1>1, <2>3, RotationAssumption DEF ValidRotation
    <3> QED BY <2>3, <3>1 DEF SlotLength
  <2> QED BY <2>1, <2>2, <2>3 DEF ValidRotation, RotationType
<1>3. Len(r.participants) \in Nat \ {0}
  BY <1>1 DEF ValidRotation
<1>4. ASSUME NEW i \in 1..Len(r.participants)
      PROVE  r.participants[i] \in People
  <2>1. r.participants[i] \in People \cup {Nobody}
    BY <1>1
  <2> QED BY <2>1 DEF ValidRotation
<1> QED BY <1>1, <1>2, <1>3, <1>4

(* During the slot of period k, counted from the start date, the elapsed   *)
(* time is in range and the period is k.                                   *)
LEMMA PeriodOf ==
    ASSUME NEW r \in RotationValue, ValidRotation(r),
           NEW at \in Nat, NEW k \in Nat,
           r.start <= at, at - r.start <= MaxDuration,
           k * SlotLength(r) <= at - r.start,
           at - r.start < k * SlotLength(r) + SlotLength(r)
    PROVE  Periods(r, at) = k /\ CurrentOnCall(r, at) = TurnOf(r, k)
<1> DEFINE s == SlotLength(r)
<1>1. s \in Nat \ {0} /\ r.start \in Nat
  BY ValidNumbers
<1>2. at - r.start \in Nat /\ Elapsed(r, at) = at - r.start
  BY <1>1, RotationAssumption DEF Elapsed
<1> HIDE DEF s
<1>3. (at - r.start) \div s = k
  BY <1>1, <1>2, DivUnique DEF s
<1> QED BY <1>2, <1>3 DEF Periods, CurrentOnCall, Started, s

(* The period a started rotation is in. *)
LEMMA InPeriod ==
    ASSUME NEW r \in RotationValue, ValidRotation(r), NEW at \in Nat,
           r.start <= at, at - r.start <= MaxDuration
    PROVE  /\ Periods(r, at) \in Nat
           /\ Periods(r, at) * SlotLength(r) <= at - r.start
           /\ at - r.start < Periods(r, at) * SlotLength(r) + SlotLength(r)
<1> DEFINE s == SlotLength(r)
<1>1. s \in Nat \ {0} /\ r.start \in Nat
  BY ValidNumbers
<1>2. at - r.start \in Nat /\ Elapsed(r, at) = at - r.start
  BY <1>1, RotationAssumption DEF Elapsed
<1> HIDE DEF s
<1> QED BY <1>1, <1>2, DivMod DEF Periods, s

(* A valid rotation keeps every hand-off it announces. *)
LEMMA HandOff ==
    ASSUME NEW r \in RotationValue, ValidRotation(r), NEW at \in Nat,
           Representable(r, at)
    PROVE  Kept(r, at)
<1> DEFINE s == SlotLength(r)
           p == Periods(r, at)
           next == NextRotation(r, at)
<1>1. s \in Nat \ {0} /\ s <= MaxDuration /\ r.start \in Nat /\ MaxDuration \in Nat
  BY ValidNumbers, RotationAssumption
<1>2. CASE Started(r, at)
  <2>1. r.start <= at /\ at - r.start <= MaxDuration /\ at - r.start + s <= MaxDuration
    BY <1>1, <1>2 DEF Started, Representable
  <2>2. p \in Nat /\ p * s <= at - r.start /\ at - r.start < p * s + s
    BY <2>1, InPeriod
  <2>3. (p + 1) * s = p * s + s /\ p * s \in Nat
    BY <1>1, <2>2
  <2>4. Wrapped((p + 1) * s) = p * s + s
    <3>1. (p + 1) * s \in Nat /\ (p + 1) * s <= MaxDuration
      BY <1>1, <2>1, <2>2, <2>3
    <3> QED BY <3>1, <2>3, WrappedIsIdentity
  <2>5. next.at = r.start + (p * s + s) /\ next.who = TurnOf(r, p + 1)
    BY <1>2, <2>4 DEF NextRotation
  <2> HIDE DEF next, p, s
  <2>6. next.at \in Nat /\ next.at > at
    BY <1>1, <2>1, <2>2, <2>3, <2>5
  <2>7. CurrentOnCall(r, next.at) = next.who
    <3>1. next.at - r.start = p * s + s
      BY <1>1, <2>3, <2>5
    <3>2. /\ p + 1 \in Nat /\ r.start <= next.at /\ next.at - r.start <= MaxDuration
          /\ (p + 1) * s <= next.at - r.start
          /\ next.at - r.start < (p + 1) * s + s
      BY <1>1, <2>1, <2>2, <2>3, <2>6, <3>1
    <3> QED BY <2>5, <2>6, <3>2, PeriodOf DEF s
  <2>8. ASSUME NEW t \in at..(next.at - 1)
        PROVE  CurrentOnCall(r, t) = TurnOf(r, p)
    <3>1. /\ t \in Nat /\ r.start <= t /\ t - r.start <= MaxDuration
          /\ p * s <= t - r.start /\ t - r.start < p * s + s
      BY <1>1, <2>1, <2>2, <2>3, <2>5, <2>6
    <3> QED BY <2>2, <3>1, PeriodOf DEF s
  <2>9. at \in at..(next.at - 1)
    BY <2>6
  <2> QED BY <2>6, <2>7, <2>8, <2>9 DEF Kept, next
<1>3. CASE ~Started(r, at)
  <2>1. at < r.start /\ next.at = r.start /\ next.who = TurnOf(r, 0)
    BY <1>1, <1>3 DEF NextRotation, Started
  <2>2. CurrentOnCall(r, r.start) = TurnOf(r, 0)
    <3>1. /\ r.start <= r.start /\ r.start - r.start <= MaxDuration
          /\ 0 * s <= r.start - r.start /\ r.start - r.start < 0 * s + s
      BY <1>1
    <3> QED BY <1>1, <3>1, PeriodOf
  <2>3. \A t \in at..(r.start - 1) : CurrentOnCall(r, t) = Nobody
    BY <1>1 DEF CurrentOnCall, Started
  <2>4. at \in at..(r.start - 1)
    BY <1>1, <2>1
  <2> QED BY <2>1, <2>2, <2>3, <2>4 DEF Kept
<1> QED BY <1>2, <1>3

-----------------------------------------------------------------------------

(* k slots later it is the turn of the k-th participant after. *)
LEMMA SlotLater ==
    ASSUME NEW r \in RotationValue, ValidRotation(r), NEW at \in Nat, NEW k \in Nat,
           Started(r, at), at - r.start + k * SlotLength(r) <= MaxDuration
    PROVE  CurrentOnCall(r, at + k * SlotLength(r)) = TurnOf(r, Periods(r, at) + k)
<1> DEFINE s == SlotLength(r)
           p == Periods(r, at)
           later == at + k * s
<1>1. s \in Nat \ {0} /\ r.start \in Nat /\ MaxDuration \in Nat
  BY ValidNumbers, RotationAssumption
<1>2. k * s \in Nat
  BY <1>1
<1>3. r.start <= at /\ at - r.start <= MaxDuration
  BY <1>1, <1>2 DEF Started
<1>4. p \in Nat /\ p * s <= at - r.start /\ at - r.start < p * s + s
  BY <1>3, InPeriod
<1>5. (p + k) * s = p * s + k * s /\ p * s \in Nat /\ p + k \in Nat
  BY <1>1, <1>4
<1> HIDE DEF p, s
<1>6. /\ later \in Nat /\ r.start <= later /\ later - r.start <= MaxDuration
      /\ (p + k) * s <= later - r.start /\ later - r.start < (p + k) * s + s
  BY <1>1, <1>2, <1>3, <1>4, <1>5 DEF s
<1> QED BY <1>5, <1>6, PeriodOf DEF s, p

(* n consecutive numbers have every remainder modulo n ... *)
LEMMA EveryRemainder ==
    ASSUME NEW n \in Nat \ {0}, NEW p \in Nat, NEW m \in 0..(n - 1)
    PROVE  \E k \in 0..(n - 1) : (p + k) % n = m
<1> DEFINE q == p \div n
           l == p % n
<1>1. q \in Nat /\ l \in 0..(n - 1) /\ p = q * n + l
  OBVIOUS
<1> HIDE DEF q, l
<1>2. CASE l <= m
  <2>1. m - l \in 0..(n - 1) /\ p + (m - l) = q * n + m
    BY <1>1, <1>2
  <2>2. (q * n + m) % n = m
    BY <1>1, ModUnique
  <2> QED BY <2>1, <2>2
<1>3. CASE m < l
  <2>1. m - l + n \in 0..(n - 1) /\ (q + 1) * n = q * n + n
    BY <1>1, <1>3
  <2>2. p + (m - l + n) = (q + 1) * n + m
    BY <1>1, <2>1
  <2>3. ((q + 1) * n + m) % n = m
    BY <1>1, ModUnique
  <2> QED BY <2>1, <2>2, <2>3
<1> QED BY <1>1, <1>2, <1>3

(* ... only once. *)
LEMMA RemainderOnce ==
    ASSUME NEW n \in Nat \ {0}, NEW p \in Nat,
           NEW j \in 0..(n - 1), NEW k \in 0..(n - 1), j < k
    PROVE  (p + j) % n # (p + k) % n
<1>1. SUFFICES ASSUME (p + j) % n = (p + k) % n  PROVE FALSE
  OBVIOUS
<1> DEFINE a == (p + j) \div n
           b == (p + k) \div n
           m == (p + j) % n
<1>2. a \in Nat /\ b \in Nat /\ m \in 0..(n - 1)
      /\ p + j = a * n + m /\ p + k = b * n + m
  <2>1. \A x \in Nat : /\ x \div n \in Nat /\ x % n \in 0..(n - 1)
                       /\ x = (x \div n) * n + (x % n)
    OBVIOUS
  <2>2. p + j \in Nat /\ p + k \in Nat
    OBVIOUS
  <2> QED BY <1>1, <2>1, <2>2
<1> HIDE DEF a, b, m
<1>3. CASE b <= a
  <2>1. PICK c \in Nat : a = b + c
    <3>1. a - b \in Nat /\ a = b + (a - b)
      BY <1>2, <1>3
    <3> QED BY <3>1
  <2>2. a * n = b * n + c * n /\ c * n >= 0
    BY <1>2, <2>1
  <2> QED BY <1>2, <2>2
<1>4. CASE a < b
  <2>1. PICK c \in Nat : b = a + 1 + c
    <3>1. b - a - 1 \in Nat /\ b = a + 1 + (b - a - 1)
      BY <1>2, <1>4
    <3> QED BY <3>1
  <2>2. b * n = a * n + n + c * n /\ c * n >= 0
    BY <1>2, <2>1
  <2> QED BY <1>2, <2>2
<1> QED BY <1>2, <1>3, <1>4

(* A valid rotation gives each participant one slot of every cycle. *)
LEMMA Turns ==
    ASSUME NEW r \in RotationValue, ValidRotation(r), NEW at \in Nat,
           Started(r, at),
           Representable(r, at + (Len(r.participants) - 1) * SlotLength(r))
    PROVE  TurnsFrom(r, at)
<1> DEFINE n == Len(r.participants)
           s == SlotLength(r)
           p == Periods(r, at)
           slot(k) == CurrentOnCall(r, at + k * SlotLength(r))
<1>1. s \in Nat \ {0} /\ r.start \in Nat /\ MaxDuration \in Nat /\ n \in Nat \ {0}
  BY ValidNumbers, RotationAssumption
<1>2. at - r.start \in Nat /\ at - r.start + (n - 1) * s + s <= MaxDuration
  <2>1. (n - 1) * s \in Nat
    BY <1>1
  <2> QED BY <1>1, <2>1 DEF Started, Representable
<1>3. r.start <= at
  BY DEF Started
<1> HIDE DEF n, s, p, slot
<1>4. ASSUME NEW k \in 0..(n - 1)
      PROVE  k * s \in Nat /\ k * s <= (n - 1) * s /\ (n - 1) * s \in Nat
  <2>1. n - 1 - k \in Nat /\ (n - 1) * s = k * s + (n - 1 - k) * s
    BY <1>1
  <2>2. (n - 1 - k) * s \in Nat /\ k * s \in Nat
    BY <1>1, <2>1
  <2> QED BY <2>1, <2>2
<1>5. ASSUME NEW k \in 0..(n - 1)
      PROVE  at - r.start + k * s <= MaxDuration
  BY <1>1, <1>2, <1>4
<1>6. p \in Nat
  <2>1. at - r.start + 0 * s <= MaxDuration
    BY <1>1, <1>5
  <2>2. at - r.start <= MaxDuration
    BY <1>1, <1>2, <2>1
  <2> QED BY <1>3, <2>2, InPeriod DEF p
<1>7. ASSUME NEW k \in 0..(n - 1)
      PROVE  slot(k) = r.participants[((p + k) % n) + 1]
  <2>1. k \in Nat /\ at - r.start + k * SlotLength(r) <= MaxDuration
    BY <1>1, <1>5 DEF s
  <2> QED BY <2>1, SlotLater DEF TurnOf, n, p, slot
<1>8. ASSUME NEW k \in 0..(n - 1)
      PROVE  ((p + k) % n) + 1 \in 1..n
  BY <1>1, <1>6
<1>9. ASSUME NEW i \in 1..n
       PROVE  \E k \in 0..(n - 1) : slot(k) = r.participants[i]
  <2>1. i - 1 \in 0..(n - 1) /\ (i - 1) + 1 = i
    BY <1>1
  <2>2. PICK k \in 0..(n - 1) : (p + k) % n = i - 1
    BY <1>1, <1>6, <2>1, EveryRemainder
  <2> QED BY <1>7, <2>1, <2>2
<1>10. ASSUME NEW j \in 0..(n - 1), NEW k \in 0..(n - 1), j # k
       PROVE  slot(j) # slot(k)
  <2>1. (p + j) % n # (p + k) % n
    <3>1. j < k \/ k < j
      BY <1>1, <1>10
    <3> QED BY <1>1, <1>6, <3>1, RemainderOnce
  <2>2. (p + j) % n \in Int /\ (p + k) % n \in Int
    BY <1>1, <1>6
  <2>3. ((p + j) % n) + 1 # ((p + k) % n) + 1
    BY <2>1, <2>2
  <2>4. \A x, y \in 1..n : x # y => r.participants[x] # r.participants[y]
    BY DEF ValidRotation, Distinct, n
  <2>5. r.participants[((p + j) % n) + 1] # r.participants[((p + k) % n) + 1]
    BY <1>8, <2>3, <2>4
  <2> QED BY <1>7, <2>5
<1>11. {slot(k) : k \in 0..(n - 1)} = {r.participants[i] : i \in 1..n}
  BY <1>7, <1>8, <1>9
<1> QED BY <1>11, <1>10 DEF TurnsFrom, n, slot

-----------------------------------------------------------------------------
(* The invariant. *)

(* The initial state: nothing stored, nobody holds anything. *)
LEMMA InitIInv == Init => ScheduleIInv
  BY DEF Init, ScheduleIInv, ScheduleTypeOK, StoredValid, StampsPast, Stored

(* An editor that changes only its own object. *)
LEMMA HoldKeeps ==
    ASSUME ScheduleIInv, NEW e \in Editors, NEW o \in Schedule,
           pc[e] = "idle", o.updated <= now,
           held' = [held EXCEPT ![e] = o],
           UNCHANGED <<schedules, pc, now, calls>>
    PROVE  ScheduleIInv'
<1>1. ScheduleTypeOK'
  BY DEF ScheduleIInv, ScheduleTypeOK
<1>2. StoredValid'
  BY DEF ScheduleIInv, ScheduleTypeOK, StoredValid, Stored
<1>3. StampsPast'
  BY DEF ScheduleIInv, ScheduleTypeOK, StampsPast, Stored
<1> QED BY <1>1, <1>2, <1>3 DEF ScheduleIInv

(* A call that is stamped, validated and perhaps on its way. *)
LEMMA SubmitKeeps ==
    ASSUME ScheduleIInv, NEW e \in Editors, NEW o \in Schedule,
           NEW p \in {"create", "update"},
           o.updated = now, Submit(e, o, p)
    PROVE  ScheduleIInv'
<1>1. ScheduleTypeOK'
  BY DEF ScheduleIInv, ScheduleTypeOK, Submit
<1>2. StoredValid'
  <2>1. ASSUME NEW f \in Editors, pc'[f] # "idle"
        PROVE  held'[f] # NoSchedule /\ Validate(held'[f])
    <3>1. CASE f = e
      BY <2>1, <3>1, ScheduleAssumption
         DEF ScheduleIInv, ScheduleTypeOK, Submit
    <3>2. CASE f # e
      BY <2>1, <3>2 DEF ScheduleIInv, ScheduleTypeOK, StoredValid, Submit
    <3> QED BY <3>1, <3>2
  <2>2. \A id \in Ids : Stored(id)' => schedules'[id].id = id /\ Validate(schedules'[id])
    BY DEF ScheduleIInv, StoredValid, Stored, Submit
  <2> QED BY <2>1, <2>2 DEF StoredValid
<1>3. StampsPast'
  BY DEF ScheduleIInv, ScheduleTypeOK, StampsPast, Stored, Submit
<1> QED BY <1>1, <1>2, <1>3 DEF ScheduleIInv

(* A repository call that puts o in the map, and one that changes nothing. *)
LEMMA StoreKeeps ==
    ASSUME ScheduleIInv, NEW e \in Editors, NEW o \in Schedule,
           Validate(o), o.updated <= now,
           Return(e, [schedules EXCEPT ![o.id] = o])
    PROVE  ScheduleIInv'
<1>0. o.id \in Ids
  BY DEF Schedule
<1>1. ScheduleTypeOK'
  BY DEF ScheduleIInv, ScheduleTypeOK, Return
<1>2. StoredValid'
  BY <1>0 DEF ScheduleIInv, ScheduleTypeOK, StoredValid, Stored, Return
<1>3. StampsPast'
  BY <1>0 DEF ScheduleIInv, ScheduleTypeOK, StampsPast, Stored, Return
<1> QED BY <1>1, <1>2, <1>3 DEF ScheduleIInv

LEMMA RefusalKeeps ==
    ASSUME ScheduleIInv, NEW e \in Editors, Return(e, schedules)
    PROVE  ScheduleIInv'
<1>1. ScheduleTypeOK'
  BY DEF ScheduleIInv, ScheduleTypeOK, Return
<1>2. StoredValid'
  BY DEF ScheduleIInv, ScheduleTypeOK, StoredValid, Stored, Return
<1>3. StampsPast'
  BY DEF ScheduleIInv, ScheduleTypeOK, StampsPast, Stored, Return
<1> QED BY <1>1, <1>2, <1>3 DEF ScheduleIInv

(* Every step keeps the invariant. *)
LEMMA NextIInv == ScheduleIInv /\ [Next]_vars => ScheduleIInv'
<1> SUFFICES ASSUME ScheduleIInv, [Next]_vars  PROVE ScheduleIInv'
  OBVIOUS
<1>0. now \in Nat /\ \A e \in Editors : held[e] # NoSchedule => held[e] \in Schedule
  BY DEF ScheduleIInv, ScheduleTypeOK
<1>1. ASSUME NEW e \in Editors, NEW d \in Drafts, Draft(e, d)
      PROVE  ScheduleIInv'
  <2>1. PICK t \in {ZeroTime, now} :
           held' = [held EXCEPT ![e] = [d EXCEPT !.created = t, !.updated = t]]
    BY <1>1 DEF Draft
  <2>2. d \in Schedule /\ t \in Nat /\ t <= now
    BY <1>0, ScheduleAssumption DEF ZeroTime
  <2>3. /\ [d EXCEPT !.created = t, !.updated = t] \in Schedule
        /\ [d EXCEPT !.created = t, !.updated = t].updated <= now
    BY <2>2 DEF Schedule
  <2> QED BY <1>1, <2>1, <2>3, HoldKeeps DEF Draft
<1>2. ASSUME NEW e \in Editors, NEW d \in Drafts, Edit(e, d)
      PROVE  ScheduleIInv'
  <2> DEFINE o == [d EXCEPT !.created = held[e].created, !.updated = held[e].updated]
  <2>1. d \in Schedule /\ held[e] \in Schedule
    BY <1>0, <1>2, ScheduleAssumption DEF Edit
  <2>2. held[e].updated <= now
    BY <1>2 DEF ScheduleIInv, StampsPast, Edit
  <2>3. o \in Schedule /\ o.updated <= now
    BY <2>1, <2>2 DEF Schedule
  <2> QED BY <1>2, <2>3, HoldKeeps DEF Edit
<1>3. ASSUME NEW e \in Editors, NEW id \in Ids, GetSchedule(e, id)
      PROVE  ScheduleIInv'
  <2>1. schedules[id] \in Schedule
    BY <1>3 DEF ScheduleIInv, ScheduleTypeOK, GetSchedule, Stored
  <2>2. schedules[id].updated <= now
    BY <1>3 DEF ScheduleIInv, StampsPast, GetSchedule
  <2> QED BY <1>3, <2>1, <2>2, HoldKeeps DEF GetSchedule
<1>4. ASSUME NEW e \in Editors, NEW id \in Ids, DeleteSchedule(e, id)
      PROVE  ScheduleIInv'
  <2>1. ScheduleTypeOK'
    BY <1>4 DEF ScheduleIInv, ScheduleTypeOK, DeleteSchedule
  <2>2. StoredValid'
    BY <1>4 DEF ScheduleIInv, ScheduleTypeOK, StoredValid, Stored, DeleteSchedule
  <2>3. StampsPast'
    BY <1>4 DEF ScheduleIInv, ScheduleTypeOK, StampsPast, Stored, DeleteSchedule
  <2> QED BY <2>1, <2>2, <2>3 DEF ScheduleIInv
<1>5. ASSUME NEW e \in Editors, CreateSchedule(e)
      PROVE  ScheduleIInv'
  <2> DEFINE o == [held[e] EXCEPT !.created = now, !.updated = now]
  <2>1. held[e] \in Schedule
    BY <1>0, <1>5 DEF CreateSchedule, Submit
  <2>2. o \in Schedule /\ o.updated = now
    BY <1>0, <2>1 DEF Schedule
  <2> QED BY <1>5, <2>2, SubmitKeeps DEF CreateSchedule
<1>6. ASSUME NEW e \in Editors, UpdateSchedule(e)
      PROVE  ScheduleIInv'
  <2> DEFINE o == [held[e] EXCEPT !.updated = now]
  <2>1. held[e] \in Schedule
    BY <1>0, <1>6 DEF UpdateSchedule, Submit
  <2>2. o \in Schedule /\ o.updated = now
    BY <1>0, <2>1 DEF Schedule
  <2> QED BY <1>6, <2>2, SubmitKeeps DEF UpdateSchedule
<1>7. ASSUME NEW e \in Editors, CreateStore(e)
      PROVE  ScheduleIInv'
  <2>1. held[e] \in Schedule /\ Validate(held[e]) /\ held[e].updated <= now
    BY <1>0, <1>7 DEF ScheduleIInv, StoredValid, StampsPast, CreateStore
  <2>2. CASE Stored(held[e].id)
    BY <1>7, <2>2, RefusalKeeps DEF CreateStore
  <2>3. CASE ~Stored(held[e].id)
    BY <1>7, <2>1, <2>3, StoreKeeps DEF CreateStore
  <2> QED BY <2>2, <2>3
<1>8. ASSUME NEW e \in Editors, UpdateStore(e)
      PROVE  ScheduleIInv'
  <2> DEFINE o == [held[e] EXCEPT !.updated = now]
  <2>1. held[e] \in Schedule /\ Validate(held[e])
    BY <1>0, <1>8 DEF ScheduleIInv, StoredValid, UpdateStore
  <2>2. o \in Schedule /\ o.updated <= now /\ Validate(o) /\ o.id = held[e].id
    <3>1. o \in Schedule /\ o.updated = now /\ o.id = held[e].id
          /\ o.zone = held[e].zone /\ o.rotation = held[e].rotation
      BY <1>0, <2>1 DEF Schedule
    <3> QED BY <1>0, <2>1, <3>1 DEF Validate
  <2>3. CASE Stored(held[e].id)
    BY <1>8, <2>2, <2>3, StoreKeeps DEF UpdateStore
  <2>4. CASE ~Stored(held[e].id)
    BY <1>8, <2>4, RefusalKeeps DEF UpdateStore
  <2> QED BY <2>3, <2>4
<1>9. ASSUME NEW e \in Editors, ContextDone(e)
      PROVE  ScheduleIInv'
  BY <1>9, RefusalKeeps DEF ContextDone
<1>10. CASE Tick
  <2>1. ScheduleTypeOK'
    BY <1>10 DEF ScheduleIInv, ScheduleTypeOK, Tick
  <2>2. StoredValid'
    BY <1>10 DEF ScheduleIInv, StoredValid, Stored, Tick
  <2>3. StampsPast'
    <3>1. now' = now + 1 /\ UNCHANGED <<schedules, held>>
      BY <1>10 DEF Tick
    <3>2. \A id \in Ids : Stored(id) => schedules[id].updated \in Nat
      BY DEF ScheduleIInv, ScheduleTypeOK, Stored, Schedule
    <3>3. \A e \in Editors : held[e] # NoSchedule => held[e].updated \in Nat
      BY <1>0 DEF Schedule
    <3> QED BY <1>0, <3>1, <3>2, <3>3 DEF ScheduleIInv, StampsPast, Stored
  <2> QED BY <2>1, <2>2, <2>3 DEF ScheduleIInv
<1>11. CASE UNCHANGED vars
  <2>1. ScheduleTypeOK'
    BY <1>11 DEF ScheduleIInv, ScheduleTypeOK, vars
  <2>2. StoredValid' /\ StampsPast'
    BY <1>11 DEF ScheduleIInv, StoredValid, StampsPast, Stored, vars
  <2> QED BY <2>1, <2>2 DEF ScheduleIInv
<1> QED
  BY <1>1, <1>2, <1>3, <1>4, <1>5, <1>6, <1>7, <1>8, <1>9, <1>10, <1>11 DEF Next

(* Stored schedules are well-typed, valid and stamped in the past. *)
THEOREM Invariant == Spec => []ScheduleIInv
  BY InitIInv, NextIInv, PTL DEF Spec

-----------------------------------------------------------------------------
(* What the service promises. *)

(* The rotation of a stored schedule is one the lemmas speak of. *)
LEMMA StoredRotation ==
    ASSUME ScheduleIInv, NEW id \in Ids, Stored(id)
    PROVE  schedules[id].rotation \in RotationValue /\ ValidRotation(schedules[id].rotation)
<1>1. schedules[id] \in Schedule
  BY DEF ScheduleIInv, ScheduleTypeOK, Stored
<1> QED BY <1>1 DEF ScheduleIInv, StoredValid, Validate, Schedule

(* Every hand-off GetNextRotation announces takes place as announced.      *)
THEOREM HandOffsAreKept == Spec => []HandOffKept
<1>1. ScheduleIInv => HandOffKept
  BY StoredRotation, HandOff, ScheduleAssumption DEF HandOffKept
<1> QED BY <1>1, Invariant, PTL

(* Nobody is skipped and nobody serves twice in a cycle.                   *)
THEOREM TurnsAreFair == Spec => []EveryoneTakesTurns
<1>1. ScheduleIInv => EveryoneTakesTurns
  BY StoredRotation, Turns, ScheduleAssumption DEF EveryoneTakesTurns
<1> QED BY <1>1, Invariant, PTL

(* An active schedule names a person, an inactive one nobody.              *)
THEOREM ActiveIsOnCall == Spec => []ActiveMeansOnCall
<1>1. ASSUME ScheduleIInv, NEW id \in Ids, Stored(id), NEW at \in Instants,
             Started(schedules[id].rotation, at)
      PROVE  CurrentOnCall(schedules[id].rotation, at) # Nobody
  <2> DEFINE r == schedules[id].rotation
             n == Len(r.participants)
  <2>1. r \in RotationValue /\ ValidRotation(r)
    BY <1>1, StoredRotation
  <2>2. n \in Nat \ {0} /\ \A i \in 1..n : r.participants[i] \in People
    BY <2>1, ValidNumbers
  <2>3. Periods(r, at) \in Nat
    <3>1. at \in Nat /\ r.start \in Nat /\ SlotLength(r) \in Nat \ {0}
      BY <2>1, ValidNumbers, ScheduleAssumption
    <3>2. Elapsed(r, at) \in Nat
      BY <1>1, <3>1, RotationAssumption DEF Elapsed, Started
    <3> QED BY <3>1, <3>2, DivMod DEF Periods
  <2> HIDE DEF n
  <2>4. (Periods(r, at) % n) + 1 \in 1..n
    BY <2>2, <2>3
  <2>5. CurrentOnCall(r, at) \in People
    BY <1>1, <2>2, <2>4 DEF CurrentOnCall, TurnOf, n
  <2> QED BY <2>5, RotationAssumption
<1>2. ScheduleIInv => ActiveMeansOnCall
  <2>1. ASSUME ScheduleIInv, NEW id \in ListSchedules(FALSE), NEW at \in Instants
        PROVE  LET s == schedules[id] IN
               /\ IsActive(s, at) <=> OnCall(s, at) # Nobody
               /\ IsActive(s, at) <=> id \in ListSchedules(TRUE) /\ Started(s.rotation, at)
    <3>1. id \in Ids /\ Stored(id)
      BY <2>1 DEF ListSchedules
    <3>2. schedules[id].enabled \in BOOLEAN
      BY <2>1, <3>1 DEF ScheduleIInv, ScheduleTypeOK, Stored, Schedule
    <3>3. Started(schedules[id].rotation, at) =>
             CurrentOnCall(schedules[id].rotation, at) # Nobody
      BY <1>1, <2>1, <3>1
    <3> QED BY <3>1, <3>2, <3>3
            DEF IsActive, OnCall, ListSchedules, CurrentOnCall, Started
  <2> QED BY <2>1 DEF ActiveMeansOnCall
<1> QED BY <1>2, Invariant, PTL

(* What the YAML text of a schedule keeps of it: everything but the        *)
(* fraction of a second of its start date.                                 *)
LEMMA Loaded ==
    ASSUME NEW s \in Schedule, Validate(s), s.rotation.start >= Second, NEW t,
           NEW l, l = ConvertToDomain(s.id, ConvertFromDomain(s), t)
    PROVE  /\ l.name = s.name /\ l.team = s.team /\ l.zone = s.zone
           /\ l.enabled = s.enabled
           /\ l.rotation.type = s.rotation.type
           /\ l.rotation.participants = s.rotation.participants
           /\ l.rotation.type = "custom" => l.rotation.duration = s.rotation.duration
           /\ s.rotation.start % Second \in Nat
           /\ l.rotation.start \in Nat \ {0}
           /\ l.rotation.start = s.rotation.start - (s.rotation.start % Second)
<1>1. /\ s.name \in Names /\ s.team \in Names /\ s.enabled \in BOOLEAN
      /\ s.rotation.start \in Nat
  BY DEF Schedule, RotationValue
<1>2. PICK start \in Nat, rest \in Nat :
        /\ start = s.rotation.start /\ rest = start % Second /\ rest < Second
  BY <1>1, SchedulesAssumption
<1>3. start - rest \in Nat \ {0}
  BY <1>2, SchedulesAssumption
<1>4. /\ l.name = s.name /\ l.team = s.team /\ l.enabled = s.enabled
  BY <1>1, SchedulesAssumption DEF ConvertToDomain, ConvertFromDomain, OrElse
<1>5. /\ l.zone = s.zone /\ l.rotation.type = s.rotation.type
      /\ l.rotation.participants = s.rotation.participants
      /\ l.rotation.type = "custom" => l.rotation.duration = s.rotation.duration
  BY DEF ConvertToDomain, ConvertFromDomain
<1>6. l.rotation.start = OrElse(start - rest, t)
  BY <1>2 DEF ConvertToDomain, ConvertFromDomain
<1>7. l.rotation.start = start - rest
  BY <1>3, <1>6, SchedulesAssumption DEF OrElse
<1> QED
  BY <1>2, <1>3, <1>4, <1>5, <1>7

(* Two rotations that differ in when they start are the same rota, one     *)
(* ahead of the other.                                                     *)
LEMMA SameRota ==
    ASSUME NEW r \in RotationValue, NEW q, NEW ahead \in Nat, NEW at \in Nat,
           r.type \in RotationType,
           q.type = r.type, q.participants = r.participants,
           q.type = "custom" => q.duration = r.duration,
           q.start \in Nat, q.start = r.start - ahead
    PROVE  CurrentOnCall(q, at) = CurrentOnCall(r, at + ahead)
<1>1. r.start \in Nat
  BY DEF RotationValue
<1>2. SlotLength(q) = SlotLength(r)
  BY DEF SlotLength, RotationType
<1>3. Started(q, at) <=> Started(r, at + ahead)
  BY <1>1 DEF Started
<1>4. at - q.start = (at + ahead) - r.start
  BY <1>1
<1>5. Elapsed(q, at) = Elapsed(r, at + ahead)
  BY <1>4 DEF Elapsed
<1> QED
  BY <1>2, <1>3, <1>5 DEF CurrentOnCall, TurnOf, Periods

(* Exporting a stored schedule and loading it again keeps the rota.        *)
THEOREM ExportsLoadAgain == Spec => []RoundTrip
<1>1. ASSUME ScheduleIInv, NEW id \in Ids, Stored(id),
             schedules[id].rotation.start >= Second,
             NEW l, l = ConvertToDomain(id, ConvertFromDomain(schedules[id]), now)
      PROVE  /\ Validate(l)
             /\ l.name = schedules[id].name /\ l.team = schedules[id].team
             /\ \A at \in Instants :
                   OnCall(l, at)
                      = OnCall(schedules[id], at + (schedules[id].rotation.start % Second))
  <2>1. PICK s \in Schedule : s = schedules[id]
    BY <1>1 DEF ScheduleIInv, ScheduleTypeOK, Stored
  <2>2. Validate(s) /\ s.id = id /\ s.rotation \in RotationValue
    BY <1>1, <2>1 DEF ScheduleIInv, StoredValid, Schedule
  <2>3. /\ l.name = s.name /\ l.team = s.team /\ l.zone = s.zone
        /\ l.enabled = s.enabled
        /\ l.rotation.type = s.rotation.type
        /\ l.rotation.participants = s.rotation.participants
        /\ l.rotation.type = "custom" => l.rotation.duration = s.rotation.duration
        /\ s.rotation.start % Second \in Nat
        /\ l.rotation.start \in Nat \ {0}
        /\ l.rotation.start = s.rotation.start - (s.rotation.start % Second)
    BY <1>1, <2>1, <2>2, Loaded
  <2>4. Validate(l)
    BY <2>2, <2>3 DEF Validate, ValidRotation, ZeroTime
  <2>5. ASSUME NEW at \in Instants
        PROVE  OnCall(l, at) = OnCall(s, at + (s.rotation.start % Second))
    <3>1. at \in Nat /\ s.rotation.type \in RotationType
      BY <2>2, ScheduleAssumption DEF Validate, ValidRotation
    <3>2. CurrentOnCall(l.rotation, at)
             = CurrentOnCall(s.rotation, at + (s.rotation.start % Second))
      BY <2>2, <2>3, <3>1, SameRota
    <3> QED
      BY <2>3, <3>2 DEF OnCall
  <2> QED
    BY <2>1, <2>3, <2>4, <2>5
<1>2. ScheduleIInv => RoundTrip
  BY <1>1 DEF RoundTrip
<1> QED BY <1>2, Invariant, PTL

(* The stored stamp only moves forward. *)
THEOREM StampsMoveForward == Spec => UpdatedNeverGoesBack
<1>1. ScheduleIInv /\ [Next]_vars =>
         [\A id \in Ids : Stored(id) /\ Stored(id)' =>
             schedules'[id].updated >= schedules[id].updated]_vars
  <2> SUFFICES ASSUME ScheduleIInv, Next, NEW id \in Ids, Stored(id), Stored(id)'
               PROVE  schedules'[id].updated >= schedules[id].updated
    OBVIOUS
  <2>1. /\ schedules \in [Ids -> Schedule \cup {NoSchedule}]
        /\ schedules[id].updated \in Nat /\ schedules[id].updated <= now /\ now \in Nat
    BY DEF ScheduleIInv, ScheduleTypeOK, Stored, Schedule, StampsPast
  <2>2. CASE schedules'[id] = schedules[id]
    BY <2>1, <2>2
  <2>3. CASE \E e \in Editors : UpdateStore(e)
    <3>1. PICK e \in Editors : UpdateStore(e)
      BY <2>3
    <3>2. held[e] \in Schedule
      BY <3>1 DEF ScheduleIInv, ScheduleTypeOK, StoredValid, UpdateStore
    <3>3. [held[e] EXCEPT !.updated = now].updated = now /\ held[e].id \in Ids
      BY <3>2 DEF Schedule
    <3> QED BY <2>1, <3>1, <3>3 DEF UpdateStore, Return
  <2>4. CASE ~\E e \in Editors : UpdateStore(e)
    <3>1. schedules'[id] = schedules[id]
      BY <2>1, <2>4
         DEF Next, Draft, Edit, GetSchedule, DeleteSchedule, CreateSchedule,
             UpdateSchedule, Submit, CreateStore, ContextDone, Return, Tick, Stored
    <3> QED BY <2>1, <3>1
  <2> QED BY <2>3, <2>4
<1> QED BY <1>1, Invariant, PTL DEF Spec, UpdatedNeverGoesBack

(* Only the repository's Create adds a schedule to the map. *)
THEOREM OnlyCreates == Spec => OnlyCreateAdds
<1>1. ScheduleIInv /\ [Next]_vars =>
         [\A id \in Ids : ~Stored(id) /\ Stored(id)' =>
             \E e \in Editors : pc[e] = "create" /\ held[e].id = id]_vars
  <2> SUFFICES ASSUME ScheduleIInv, Next, NEW id \in Ids, ~Stored(id), Stored(id)'
               PROVE  \E e \in Editors : pc[e] = "create" /\ held[e].id = id
    OBVIOUS
  <2>1. schedules \in [Ids -> Schedule \cup {NoSchedule}]
    BY DEF ScheduleIInv, ScheduleTypeOK
  <2>2. \E e \in Editors : CreateStore(e)
    BY <2>1
       DEF Next, Draft, Edit, GetSchedule, DeleteSchedule, CreateSchedule,
           UpdateSchedule, Submit, UpdateStore, ContextDone, Return, Tick, Stored
  <2>3. PICK e \in Editors : CreateStore(e)
    BY <2>2
  <2> QED BY <2>1, <2>3 DEF CreateStore, Return, Stored
<1> QED BY <1>1, Invariant, PTL DEF Spec, OnlyCreateAdds

=============================================================================
