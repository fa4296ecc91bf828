----------------------------- MODULE ServerProofs -----------------------------
(***************************************************************************)
(* For any number of consumers and any interval at least twice the skew of *)
(* a reading of the clock: the filter of recent signals, whose map no      *)
(* mutex guards, bounds the incidents of one kind, whatever the server     *)
(* does meanwhile.  And for batches of any size: what is extracted from    *)
(* spans is exact.                                                         *)
(***************************************************************************)
EXTENDS Server, FiniteSetTheorems, SequenceTheorems, TLAPS

(***************************************************************************)
(* One fingerprint: E is the set of its recent passes, P the consumers     *)
(* that passed it and have not recorded it yet, age their readings of the  *)
(* clock, r its entry in the map.                                          *)
(***************************************************************************)
Passes == Recent \X (Nat \ {0})
AgesOfReadings == [Consumers -> 0..MaxSkew]

(* The entry keeps everybody from passing. *)
Suppressing(r) == r # None /\ r < MinSignalInterval

Young(E, h) == {p \in E : p[1] <= h}
Old(E, h) == {p \in E : p[1] > h}
Late(P, age, h) == {c \in P : age[c] > h}

(* Consumers that passed by an earlier entry than the one they now see.    *)
Overdue(P, age, r) == {c \in P : r # None /\ age[c] + MinSignalInterval > r}

(* Readings younger than or equal to h belong to the round of consumers    *)
(* that passed when the map last let them; of each consumer it has one     *)
(* signal, recorded or pending.  What is older is left of the round before *)
(* it, which had at least one consumer fewer.                              *)
Round(E, P, age, r, h) ==
    /\ Cardinality(Young(E, h)) + Cardinality(P) <= Cardinality(Consumers)
    /\ r > h => /\ Cardinality(Young(E, h)) + Cardinality(P) < Cardinality(Consumers)
                /\ \A p \in Old(E, h) : p[1] >= r
    /\ Cardinality(Old(E, h)) + Cardinality(Late(P, age, h)) < Cardinality(Consumers)
    /\ \A c \in Late(P, age, h) :
          age[c] = MaxSkew /\ \A p \in Old(E, h) : p[1] >= MaxSkew

SuppressingSound(E, P, age, r) ==
    /\ <<r, 1>> \in E
    /\ \A c \in P : r <= age[c] + MaxSkew
    /\ \E h \in Nat : Round(E, P, age, r, h)

LettingPassSound(E, P, age, r) ==
    /\ Cardinality(E) + Cardinality(Overdue(P, age, r)) < Cardinality(Consumers)
    /\ \A c \in Overdue(P, age, r) : r = MinSignalInterval /\ age[c] = MaxSkew

Sound(E, P, age, r) ==
    /\ IsFiniteSet(E)
    /\ \A p \in E : r # None /\ r <= p[1] + MaxSkew
    /\ Suppressing(r) => SuppressingSound(E, P, age, r)
    /\ ~Suppressing(r) => LettingPassSound(E, P, age, r)

-----------------------------------------------------------------------------

LEMMA Numbers ==
    ASSUME TelemetryAssumption
    PROVE  /\ MinSignalInterval \in Nat \ {0} /\ MaxSkew \in Nat
           /\ MaxSkew < MinSignalInterval /\ 2 * MaxSkew <= MinSignalInterval
           /\ None \notin Nat /\ Cardinality(Consumers) \in Nat \ {0}
           /\ \A r \in Ages : r \in Nat
           /\ Recent = 0..(MinSignalInterval - 1)
<1>1. Cardinality(Consumers) \in Nat \ {0}
  BY FS_CardinalityType, FS_EmptySet DEF TelemetryAssumption
<1> QED
  BY <1>1 DEF TelemetryAssumption, Ages, Recent

LEMMA Count ==
    ASSUME NEW S, NEW T \in SUBSET S, IsFiniteSet(S)
    PROVE  /\ IsFiniteSet(T) /\ Cardinality(T) \in Nat /\ Cardinality(S) \in Nat
           /\ Cardinality(T) <= Cardinality(S)
BY FS_Subset, FS_CardinalityType

(* The sets of a round are finite. *)
LEMMA RoundCounts ==
    ASSUME TelemetryAssumption, NEW E \in SUBSET Passes, NEW P \in SUBSET Consumers,
           IsFiniteSet(E), NEW age, NEW r, NEW h \in Nat
    PROVE  /\ Cardinality(E) \in Nat /\ Cardinality(P) \in Nat /\ IsFiniteSet(P)
           /\ IsFiniteSet(Young(E, h)) /\ IsFiniteSet(Old(E, h))
           /\ IsFiniteSet(Late(P, age, h))
           /\ Cardinality(Young(E, h)) \in Nat /\ Cardinality(Old(E, h)) \in Nat
           /\ Cardinality(Late(P, age, h)) \in Nat
           /\ Cardinality(Overdue(P, age, r)) \in Nat
           /\ Cardinality(P) <= Cardinality(Consumers)
           /\ Cardinality(E) <= Cardinality(Young(E, h)) + Cardinality(Old(E, h))
<1>1. IsFiniteSet(P) /\ Cardinality(P) \in Nat /\ Cardinality(P) <= Cardinality(Consumers)
  BY Count DEF TelemetryAssumption
<1>2. /\ IsFiniteSet(Young(E, h)) /\ IsFiniteSet(Old(E, h))
      /\ Cardinality(E) \in Nat
      /\ Cardinality(Young(E, h)) \in Nat /\ Cardinality(Old(E, h)) \in Nat
  BY Count DEF Young, Old
<1>3. /\ IsFiniteSet(Late(P, age, h)) /\ Cardinality(Late(P, age, h)) \in Nat
      /\ Cardinality(Overdue(P, age, r)) \in Nat
  BY <1>1, Count DEF Late, Overdue
<1>4. Cardinality(E) <= Cardinality(Young(E, h)) + Cardinality(Old(E, h))
  <2> DEFINE both == Young(E, h) \cup Old(E, h)
             shared == Young(E, h) \cap Old(E, h)
  <2>1. /\ IsFiniteSet(both)
        /\ Cardinality(both) =
              Cardinality(Young(E, h)) + Cardinality(Old(E, h)) - Cardinality(shared)
    BY <1>2, FS_Union
  <2>2. Cardinality(shared) \in Nat
    BY <1>2, Count
  <2>3. \A p \in E : p[1] \in Nat
    BY Numbers DEF Passes
  <2>4. E = both
    BY <2>3 DEF Young, Old
  <2>5. Cardinality(E) =
           Cardinality(Young(E, h)) + Cardinality(Old(E, h)) - Cardinality(shared)
    BY <2>1, <2>4
  <2> HIDE DEF shared
  <2> QED
    BY <1>2, <2>2, <2>5
<1> QED
  BY <1>1, <1>2, <1>3, <1>4

-----------------------------------------------------------------------------
(* What may happen to one fingerprint.                                     *)

(* At the start, and when an entry is lost, the count begins anew. *)
LEMMA NothingIsSound ==
    ASSUME TelemetryAssumption, NEW P, NEW age PROVE Sound({}, P, age, None)
<1>1. Overdue(P, age, None) = {} /\ ~Suppressing(None)
  BY DEF Overdue, Suppressing
<1>2. IsFiniteSet({}) /\ Cardinality({}) = 0
  BY FS_EmptySet
<1> QED
  BY <1>1, <1>2, Numbers DEF Sound, LettingPassSound

(* Fewer than two full rounds are in the interval. *)
LEMMA SoundIsBounded ==
    ASSUME TelemetryAssumption, NEW E \in SUBSET Passes, NEW P \in SUBSET Consumers,
           NEW age, NEW r, Sound(E, P, age, r)
    PROVE  Cardinality(E) <= 2 * Cardinality(Consumers) - 1
<1>1. CASE Suppressing(r)
  <2>1. PICK h \in Nat : Round(E, P, age, r, h)
    BY <1>1 DEF Sound, SuppressingSound
  <2>2. /\ Cardinality(Young(E, h)) + Cardinality(P) <= Cardinality(Consumers)
        /\ Cardinality(Old(E, h)) + Cardinality(Late(P, age, h)) < Cardinality(Consumers)
    BY <2>1 DEF Round
  <2>3. /\ Cardinality(E) <= Cardinality(Young(E, h)) + Cardinality(Old(E, h))
        /\ Cardinality(P) \in Nat /\ Cardinality(Late(P, age, h)) \in Nat
        /\ Cardinality(Young(E, h)) \in Nat /\ Cardinality(Old(E, h)) \in Nat
        /\ Cardinality(E) \in Nat
    BY RoundCounts DEF Sound
  <2>4. Cardinality(Consumers) \in Nat
    BY Numbers
  <2> QED
    BY <2>2, <2>3, <2>4
<1>2. CASE ~Suppressing(r)
  <2>1. Cardinality(E) + Cardinality(Overdue(P, age, r)) < Cardinality(Consumers)
    BY <1>2 DEF Sound, LettingPassSound
  <2>2. Cardinality(E) \in Nat /\ Cardinality(Overdue(P, age, r)) \in Nat
    BY RoundCounts DEF Sound
  <2> QED
    BY <2>1, <2>2, Numbers
<1> QED
  BY <1>1, <1>2

(* Only the readings of the pending consumers matter. *)
LEMMA OtherReadings ==
    ASSUME NEW E, NEW P, NEW age, NEW other, NEW r, Sound(E, P, age, r),
           \A c \in P : other[c] = age[c]
    PROVE  Sound(E, P, other, r)
<1>1. Overdue(P, other, r) = Overdue(P, age, r)
  BY DEF Overdue
<1>2. \A h : Late(P, other, h) = Late(P, age, h)
  BY DEF Late
<1>3. ASSUME NEW h \in Nat, Round(E, P, age, r, h) PROVE Round(E, P, other, r, h)
  BY <1>2, <1>3 DEF Round, Late
<1>4. Suppressing(r) => SuppressingSound(E, P, other, r)
  BY <1>3 DEF Sound, SuppressingSound
<1>5. ~Suppressing(r) => LettingPassSound(E, P, other, r)
  BY <1>1 DEF Sound, LettingPassSound, Overdue
<1> QED
  BY <1>4, <1>5 DEF Sound

(* A consumer passes: the entry did not keep it from it. *)
LEMMA PassIsSound ==
    ASSUME TelemetryAssumption, NEW E, NEW P, NEW age \in AgesOfReadings,
           NEW r \in Ages \cup {None}, Sound(E, P, age, r), NEW c \in Consumers,
           r # None => r >= age[c] + MinSignalInterval
    PROVE  Sound(E, P \cup {c}, age, r)
<1>1. age[c] \in Nat /\ age[c] <= MaxSkew
  BY Numbers DEF AgesOfReadings
<1>2. ~Suppressing(r) /\ ~(r # None /\ age[c] + MinSignalInterval > r)
  BY <1>1, Numbers DEF Suppressing
<1>3. Overdue(P \cup {c}, age, r) = Overdue(P, age, r)
  BY <1>2 DEF Overdue
<1> QED
  BY <1>2, <1>3 DEF Sound, LettingPassSound

(* An entry so old that clean-up removes it has no pass left. *)
LEMMA CleaningIsSound ==
    ASSUME TelemetryAssumption, NEW E \in SUBSET Passes, NEW P \in SUBSET Consumers,
           NEW age, NEW r \in Nat, Sound(E, P, age, r), r > 2 * MinSignalInterval
    PROVE  Sound(E, P, age, None)
<1>1. \A p \in E : p[1] \in Nat /\ p[1] < MinSignalInterval
  BY Numbers DEF Passes
<1>2. E = {}
  BY <1>1, Numbers DEF Sound
<1>3. Overdue(P, age, None) = {} /\ ~Suppressing(None)
  BY DEF Overdue, Suppressing
<1>4. IsFiniteSet({}) /\ Cardinality({}) = 0
  BY FS_EmptySet
<1> QED
  BY <1>2, <1>3, <1>4, Numbers DEF Sound, LettingPassSound

(* A consumer records its pass: one signal more of the round, or of what   *)
(* is left of the round before it, and one consumer fewer to record.       *)
LEMMA PassJoins ==
    ASSUME TelemetryAssumption, NEW E \in SUBSET Passes, IsFiniteSet(E),
           NEW a \in Nat, NEW n, <<a, n>> \notin E, NEW h \in Nat,
           NEW F, F = E \cup {<<a, n>>}
    PROVE  /\ a <= h => /\ Cardinality(Young(F, h)) = Cardinality(Young(E, h)) + 1
                        /\ Old(F, h) = Old(E, h)
           /\ a > h => /\ Cardinality(Old(F, h)) = Cardinality(Old(E, h)) + 1
                       /\ Old(F, h) = Old(E, h) \cup {<<a, n>>}
                       /\ Young(F, h) = Young(E, h)
<1>1. /\ IsFiniteSet(Young(E, h)) /\ IsFiniteSet(Old(E, h))
      /\ <<a, n>> \notin Young(E, h) /\ <<a, n>> \notin Old(E, h)
  BY Count DEF Young, Old
<1>2. ASSUME a <= h
      PROVE  Young(F, h) = Young(E, h) \cup {<<a, n>>} /\ Old(F, h) = Old(E, h)
  BY <1>2 DEF Young, Old
<1>3. ASSUME a > h
      PROVE  Young(F, h) = Young(E, h) /\ Old(F, h) = Old(E, h) \cup {<<a, n>>}
  BY <1>3 DEF Young, Old
<1>4. /\ Cardinality(Young(E, h) \cup {<<a, n>>}) = Cardinality(Young(E, h)) + 1
      /\ Cardinality(Old(E, h) \cup {<<a, n>>}) = Cardinality(Old(E, h)) + 1
  BY <1>1, FS_AddElement
<1> QED
  BY <1>2, <1>3, <1>4

LEMMA PendingLeaves ==
    ASSUME TelemetryAssumption, NEW P \in SUBSET Consumers, NEW age \in AgesOfReadings,
           NEW c \in P, NEW h \in Nat, NEW Q, Q = P \ {c}
    PROVE  /\ Cardinality(P) \in Nat /\ Cardinality(Q) = Cardinality(P) - 1
           /\ age[c] <= h => Late(Q, age, h) = Late(P, age, h)
           /\ age[c] > h =>
                 Cardinality(Late(Q, age, h)) = Cardinality(Late(P, age, h)) - 1
<1>1. /\ IsFiniteSet(P) /\ IsFiniteSet(Late(P, age, h)) /\ Cardinality(P) \in Nat
  BY Count DEF TelemetryAssumption, Late
<1>2. Cardinality(Q) = Cardinality(P) - 1
  BY <1>1, FS_RemoveElement
<1>3. age[c] \in Nat
  BY Numbers DEF AgesOfReadings
<1>4. age[c] <= h => Late(Q, age, h) = Late(P, age, h)
  BY <1>3 DEF Late
<1>5. ASSUME age[c] > h
      PROVE  Cardinality(Late(Q, age, h)) = Cardinality(Late(P, age, h)) - 1
  <2>1. PICK late : late = Late(P, age, h)
    OBVIOUS
  <2>2. Late(Q, age, h) = late \ {c} /\ c \in late
    BY <1>5, <2>1 DEF Late
  <2>3. Cardinality(late \ {c}) = Cardinality(late) - 1
    BY <1>1, <2>1, <2>2, FS_RemoveElement
  <2> QED
    BY <2>1, <2>2, <2>3
<1> QED
  BY <1>1, <1>2, <1>4, <1>5

(* ... while the entry keeps others from passing: the round is the same,   *)
LEMMA RecordInRound ==
    ASSUME TelemetryAssumption, NEW E \in SUBSET Passes, NEW P \in SUBSET Consumers,
           NEW age \in AgesOfReadings, NEW r, IsFiniteSet(E),
           NEW c \in P, NEW n, <<age[c], n>> \notin E,
           NEW h \in Nat, Round(E, P, age, r, h)
    PROVE  Round(E \cup {<<age[c], n>>}, P \ {c}, age, age[c], h)
<1> SUFFICES ASSUME NEW F, F = E \cup {<<age[c], n>>}, NEW Q, Q = P \ {c}
             PROVE  Round(F, Q, age, age[c], h)
  OBVIOUS
<1>1. age[c] \in Nat
  BY Numbers DEF AgesOfReadings
<1>2. /\ Cardinality(Young(E, h)) \in Nat /\ Cardinality(Old(E, h)) \in Nat
      /\ Cardinality(Late(P, age, h)) \in Nat /\ Cardinality(Consumers) \in Nat
      /\ Cardinality(P) \in Nat /\ Cardinality(Q) = Cardinality(P) - 1
  BY RoundCounts, PendingLeaves, Numbers
<1>3. /\ Cardinality(Young(E, h)) + Cardinality(P) <= Cardinality(Consumers)
      /\ Cardinality(Old(E, h)) + Cardinality(Late(P, age, h)) < Cardinality(Consumers)
      /\ \A d \in Late(P, age, h) :
            age[d] = MaxSkew /\ \A p \in Old(E, h) : p[1] >= MaxSkew
  BY DEF Round
<1>4. \A d \in Late(Q, age, h) : d \in Late(P, age, h)
  BY DEF Late
<1>5. CASE age[c] <= h
  <2>1. Cardinality(Young(F, h)) = Cardinality(Young(E, h)) + 1 /\ Old(F, h) = Old(E, h)
    BY <1>1, <1>5, PassJoins
  <2>2. Late(Q, age, h) = Late(P, age, h)
    BY <1>5, PendingLeaves
  <2>3. Cardinality(Young(F, h)) + Cardinality(Q) <= Cardinality(Consumers)
    BY <1>2, <1>3, <2>1
  <2>4. ~(age[c] > h)
    BY <1>1, <1>5
  <2> QED
    BY <1>3, <2>1, <2>2, <2>3, <2>4 DEF Round
<1>6. CASE age[c] > h
  <2>1. /\ Cardinality(Old(F, h)) = Cardinality(Old(E, h)) + 1
        /\ Cardinality(Young(F, h)) = Cardinality(Young(E, h))
    BY <1>1, <1>6, PassJoins
  <2>2. Cardinality(Late(Q, age, h)) = Cardinality(Late(P, age, h)) - 1
    BY <1>6, PendingLeaves
  <2>3. /\ Cardinality(Young(F, h)) + Cardinality(Q) < Cardinality(Consumers)
        /\ Cardinality(Young(F, h)) + Cardinality(Q) <= Cardinality(Consumers)
    BY <1>2, <1>3, <2>1
  <2>4. Cardinality(Old(F, h)) + Cardinality(Late(Q, age, h)) < Cardinality(Consumers)
    BY <1>2, <1>3, <2>1, <2>2
  <2>5. c \in Late(P, age, h) /\ age[c] = MaxSkew
    BY <1>3, <1>6 DEF Late
  <2>6. Old(F, h) = Old(E, h) \cup {<<age[c], n>>}
    BY <1>1, <1>6, PassJoins
  <2>7. <<age[c], n>>[1] >= MaxSkew
    BY <2>5, Numbers
  <2>8. \A p \in Old(F, h) : p[1] >= MaxSkew
    BY <1>3, <2>5, <2>6, <2>7
  <2> QED
    BY <1>3, <1>4, <2>3, <2>4, <2>5, <2>8 DEF Round
<1> QED
  BY <1>1, <1>5, <1>6

(* ... or after the entry let this consumer pass: a round begins.          *)
LEMMA RecordBeginsRound ==
    ASSUME TelemetryAssumption, NEW E \in SUBSET Passes, NEW P \in SUBSET Consumers,
           NEW age \in AgesOfReadings, NEW r \in Ages \cup {None}, Sound(E, P, age, r),
           ~Suppressing(r), NEW c \in P
    PROVE  \E h \in Nat : Round(E, P, age, 0, h)
<1>1. \A d \in P : age[d] \in Nat /\ age[d] <= MaxSkew
  BY Numbers DEF AgesOfReadings
<1>2. \A p \in E : p[1] \in Nat
  BY DEF Passes, Recent
<1>3. IsFiniteSet(E) /\ Cardinality({}) = 0
  BY FS_EmptySet DEF Sound
<1>4. Cardinality(P) \in Nat /\ Cardinality(P) <= Cardinality(Consumers)
  BY Count DEF TelemetryAssumption
<1>5. CASE r = None
  <2>1. E = {}
    BY <1>5 DEF Sound
  <2>2. /\ Late(P, age, MaxSkew) = {} /\ ~(0 > MaxSkew)
        /\ Young(E, MaxSkew) = {} /\ Old(E, MaxSkew) = {}
    BY <1>1, <2>1, Numbers DEF Late, Young, Old
  <2>3. Round(E, P, age, 0, MaxSkew)
    BY <1>3, <1>4, <2>2, Numbers DEF Round
  <2> QED
    BY <2>3, Numbers
<1>6. CASE r # None
  <2>1. r \in Nat /\ r >= MinSignalInterval
    BY <1>6, Numbers DEF Suppressing
  <2>2. PICK h \in Nat : h = r - MinSignalInterval
    BY <2>1, Numbers
  <2>3. \A p \in E : p[1] >= r - MaxSkew /\ p[1] > h
    BY <1>2, <2>1, <2>2, Numbers DEF Sound
  <2>4. Late(P, age, h) = Overdue(P, age, r)
    BY <1>1, <1>6, <2>1, <2>2, Numbers DEF Late, Overdue
  <2>5. /\ Cardinality(E) + Cardinality(Late(P, age, h)) < Cardinality(Consumers)
        /\ \A d \in Late(P, age, h) : r = MinSignalInterval /\ age[d] = MaxSkew
    BY <2>4 DEF Sound, LettingPassSound
  <2>6. Old(E, h) = E /\ Young(E, h) = {}
    BY <1>2, <2>2, <2>3 DEF Old, Young
  <2>7. \A d \in Late(P, age, h) : \A p \in E : p[1] >= MaxSkew
    BY <1>2, <2>1, <2>3, <2>5, Numbers
  <2>8. ~(0 > h)
    BY <2>2
  <2>9. Round(E, P, age, 0, h)
    BY <1>3, <1>4, <2>5, <2>6, <2>7, <2>8, Numbers DEF Round
  <2> QED
    BY <2>9
<1> QED
  BY <1>5, <1>6

LEMMA RecordIsSound ==
    ASSUME TelemetryAssumption, NEW E \in SUBSET Passes, NEW P \in SUBSET Consumers,
           NEW age \in AgesOfReadings, NEW r \in Ages \cup {None}, Sound(E, P, age, r),
           NEW c \in P, NEW n \in Nat \ {0},
           <<age[c], n>> \notin E, n = 1 \/ <<age[c], 1>> \in E
    PROVE  Sound(E \cup {<<age[c], n>>}, P \ {c}, age, age[c])
<1>1. PICK F : F = E \cup {<<age[c], n>>}
  OBVIOUS
<1>2. PICK Q : Q = P \ {c}
  OBVIOUS
<1>3. /\ \A d \in P : age[d] \in Nat /\ age[d] <= MaxSkew
      /\ Suppressing(age[c]) /\ age[c] # None
  BY Numbers DEF AgesOfReadings, Suppressing
<1>4. \A p \in F : p[1] \in Nat
  BY <1>1, <1>3 DEF Passes, Recent
<1>5. IsFiniteSet(F) /\ IsFiniteSet(E)
  BY <1>1, FS_AddElement DEF Sound
<1>6. <<age[c], 1>> \in F /\ \A d \in Q : age[c] <= age[d] + MaxSkew
  BY <1>1, <1>2, <1>3, Numbers
<1>7. \A p \in F : age[c] # None /\ age[c] <= p[1] + MaxSkew
  BY <1>3, <1>4, Numbers
<1>8. \E h \in Nat : Round(F, Q, age, age[c], h)
  <2>1. \E any : \E h \in Nat : Round(E, P, age, any, h)
    BY RecordBeginsRound DEF Sound, SuppressingSound
  <2>2. PICK any : \E h \in Nat : Round(E, P, age, any, h)
    BY <2>1
  <2>3. PICK h \in Nat : Round(E, P, age, any, h)
    BY <2>2
  <2>4. Round(E \cup {<<age[c], n>>}, P \ {c}, age, age[c], h)
    BY <1>5, <2>3, RecordInRound
  <2> QED
    BY <1>1, <1>2, <2>4
<1> QED
  BY <1>1, <1>2, <1>3, <1>5, <1>6, <1>7, <1>8 DEF Sound, SuppressingSound

-----------------------------------------------------------------------------
(* Time passes.                                                            *)

(* Passes of S grown one tick older than some of T are as many at most. *)
LEMMA ShiftCount ==
    ASSUME NEW S \in SUBSET Passes, NEW T, IsFiniteSet(T),
           \A p \in S : p[1] >= 1 /\ <<p[1] - 1, p[2]>> \in T
    PROVE  IsFiniteSet(S) /\ Cardinality(S) \in Nat /\ Cardinality(S) <= Cardinality(T)
<1> DEFINE g == [p \in S |-> <<p[1] - 1, p[2]>>]
<1>1. g \in [S -> T]
  OBVIOUS
<1>2. ASSUME NEW p \in S, NEW q \in S, g[p] = g[q] PROVE p = q
  <2>1. /\ p = <<p[1], p[2]>> /\ q = <<q[1], q[2]>>
        /\ p[1] \in Int /\ q[1] \in Int
    BY DEF Passes, Recent
  <2>2. p[1] - 1 = q[1] - 1 /\ p[2] = q[2]
    BY <1>2
  <2>3. p[1] = q[1]
    BY <2>1, <2>2
  <2> QED
    BY <2>1, <2>2, <2>3
<1>3. g \in Injection(S, T)
  BY <1>1, <1>2 DEF Injection, IsInjective
<1> QED
  BY <1>3, FS_Injection, FS_CardinalityType

(* The passes E, the readings age and the entry r one tick later. *)
Ticked(E, F, P, age, later, r, s) ==
    /\ \A p \in F : p[1] >= 1 /\ <<p[1] - 1, p[2]>> \in E
    /\ \A p \in E : p[1] + 1 < MinSignalInterval => <<p[1] + 1, p[2]>> \in F
    /\ \A c \in P : age[c] < MaxSkew /\ later[c] = age[c] + 1
    /\ s = IF r = None THEN None ELSE Older(r)

LEMMA TickedEntry ==
    ASSUME TelemetryAssumption, NEW r \in Ages
    PROVE  /\ Older(r) \in Nat /\ Older(r) <= r + 1 /\ Older(r) # None /\ r \in Nat
           /\ Older(r) = r + 1 \/ Older(r) > 2 * MinSignalInterval + MaxSkew
BY Numbers DEF Older, Ages

LEMMA TickWhileSuppressing ==
    ASSUME TelemetryAssumption, NEW E \in SUBSET Passes, NEW F \in SUBSET Passes,
           NEW P \in SUBSET Consumers, NEW age \in AgesOfReadings,
           NEW later \in AgesOfReadings, NEW r \in Ages \cup {None}, NEW s,
           Sound(E, P, age, r), Ticked(E, F, P, age, later, r, s), Suppressing(s)
    PROVE  SuppressingSound(F, P, later, s)
<1>1. r \in Nat /\ r # None /\ s = r + 1 /\ s < MinSignalInterval /\ Suppressing(r)
  BY TickedEntry, Numbers DEF Ticked, Suppressing
<1>2. /\ \A p \in E : p[1] \in Nat
      /\ \A p \in F : p[1] \in Nat /\ p[1] >= 1 /\ <<p[1] - 1, p[2]>> \in E
      /\ \A c \in P : age[c] \in Nat /\ age[c] < MaxSkew /\ later[c] = age[c] + 1
  BY Numbers DEF Passes, Ticked, AgesOfReadings
<1>3. <<s, 1>> \in F
  BY <1>1 DEF Sound, SuppressingSound, Ticked
<1>4. \A c \in P : s <= later[c] + MaxSkew
  BY <1>1, <1>2, Numbers DEF Sound, SuppressingSound
<1>5. PICK h \in Nat : Round(E, P, age, r, h)
  BY <1>1 DEF Sound, SuppressingSound
<1>6. PICK k \in Nat : k = h + 1
  OBVIOUS
<1>7. Late(P, age, h) = {} /\ Late(P, later, k) = {}
  BY <1>2, <1>5, <1>6, Numbers DEF Round, Late
<1>8. /\ \A p \in Young(F, k) : p[1] >= 1 /\ <<p[1] - 1, p[2]>> \in Young(E, h)
      /\ \A p \in Old(F, k) : p[1] >= 1 /\ <<p[1] - 1, p[2]>> \in Old(E, h)
  BY <1>2, <1>6 DEF Young, Old
<1>9. /\ Young(F, k) \in SUBSET Passes /\ Old(F, k) \in SUBSET Passes
      /\ IsFiniteSet(Young(E, h)) /\ IsFiniteSet(Old(E, h))
      /\ Cardinality(Young(E, h)) \in Nat /\ Cardinality(Old(E, h)) \in Nat
      /\ Cardinality(P) \in Nat /\ Cardinality(Consumers) \in Nat
  BY RoundCounts, Numbers DEF Sound, Young, Old
<1>10. Cardinality(Young(F, k)) \in Nat
       /\ Cardinality(Young(F, k)) <= Cardinality(Young(E, h))
  BY <1>8, <1>9, ShiftCount
<1>11. Cardinality(Old(F, k)) \in Nat /\ Cardinality(Old(F, k)) <= Cardinality(Old(E, h))
  BY <1>8, <1>9, ShiftCount
<1>12. Cardinality(Young(F, k)) + Cardinality(P) <= Cardinality(Consumers)
  BY <1>5, <1>9, <1>10 DEF Round
<1>13. ASSUME s > k
       PROVE  /\ Cardinality(Young(F, k)) + Cardinality(P) < Cardinality(Consumers)
              /\ \A p \in Old(F, k) : p[1] >= s
  <2>1. r > h
    BY <1>1, <1>6, <1>13
  <2>2. /\ Cardinality(Young(E, h)) + Cardinality(P) < Cardinality(Consumers)
        /\ \A p \in Old(E, h) : p[1] >= r
    BY <1>5, <2>1 DEF Round
  <2>3. \A p \in Old(F, k) : p[1] - 1 >= r /\ p[1] \in Nat
    BY <1>2, <1>8, <2>2 DEF Old
  <2> QED
    BY <1>1, <1>9, <1>10, <2>2, <2>3
<1>14. Cardinality(Old(F, k)) + Cardinality(Late(P, later, k)) < Cardinality(Consumers)
  <2>1. Cardinality(Old(E, h)) + 0 < Cardinality(Consumers) /\ Cardinality({}) = 0
    BY <1>5, <1>7, FS_EmptySet DEF Round
  <2> QED
    BY <1>7, <1>9, <1>11, <2>1
<1>15. Round(F, P, later, s, k)
  BY <1>7, <1>12, <1>13, <1>14 DEF Round
<1> QED
  BY <1>3, <1>4, <1>15 DEF SuppressingSound

(* An entry that let consumers pass goes on doing so. *)
LEMMA TickWhileLettingPass ==
    ASSUME TelemetryAssumption, NEW E \in SUBSET Passes, NEW F \in SUBSET Passes,
           NEW P \in SUBSET Consumers, NEW age \in AgesOfReadings,
           NEW later \in AgesOfReadings, NEW r \in Ages \cup {None}, NEW s,
           Sound(E, P, age, r), Ticked(E, F, P, age, later, r, s), ~Suppressing(r)
    PROVE  LettingPassSound(F, P, later, s)
<1>1. /\ Cardinality(E) + Cardinality(Overdue(P, age, r)) < Cardinality(Consumers)
      /\ \A c \in Overdue(P, age, r) : age[c] = MaxSkew
  BY DEF Sound, LettingPassSound
<1>2. \A c \in P : /\ age[c] \in Nat /\ age[c] < MaxSkew
                   /\ later[c] = age[c] + 1
  BY Numbers DEF Ticked, AgesOfReadings
<1>3. Overdue(P, age, r) = {}
  BY <1>1, <1>2, Numbers DEF Overdue
<1>4. Overdue(P, later, s) = {}
  <2>1. CASE r = None
    BY <2>1 DEF Overdue, Ticked
  <2>2. CASE r # None
    <3>1. /\ s \in Nat /\ r \in Nat
          /\ s = r + 1 \/ s > 2 * MinSignalInterval + MaxSkew
      BY <2>2, TickedEntry DEF Ticked
    <3>2. \A c \in P : age[c] + MinSignalInterval <= r
      BY <1>2, <1>3, <2>2, <3>1, Numbers DEF Overdue
    <3>3. \A c \in P : ~(later[c] + MinSignalInterval > s)
      BY <1>2, <3>1, <3>2, Numbers
    <3> QED
      BY <3>3 DEF Overdue
  <2> QED
    BY <2>1, <2>2
<1>5. Cardinality(F) \in Nat /\ Cardinality(E) \in Nat /\ Cardinality(F) <= Cardinality(E)
  BY ShiftCount, FS_CardinalityType DEF Sound, Ticked
<1>6. Cardinality({}) = 0 /\ Cardinality(Consumers) \in Nat
  BY FS_EmptySet, Numbers
<1>7. Cardinality(F) + Cardinality({}) < Cardinality(Consumers)
  BY <1>1, <1>3, <1>5, <1>6
<1> QED
  BY <1>4, <1>7 DEF LettingPassSound

(* The interval ends: the oldest passes leave it, the one of the entry     *)
(* among them.                                                             *)
LEMMA TickEndsInterval ==
    ASSUME TelemetryAssumption, NEW E \in SUBSET Passes, NEW F \in SUBSET Passes,
           NEW P \in SUBSET Consumers, NEW age \in AgesOfReadings,
           NEW later \in AgesOfReadings, NEW r \in Ages \cup {None}, NEW s,
           Sound(E, P, age, r), Ticked(E, F, P, age, later, r, s),
           Suppressing(r), ~Suppressing(s)
    PROVE  LettingPassSound(F, P, later, s)
<1>1. r \in Nat /\ r # None /\ s = MinSignalInterval /\ r = MinSignalInterval - 1
  BY TickedEntry, Numbers DEF Ticked, Suppressing
<1>2. /\ \A p \in E : p[1] \in Nat
      /\ \A p \in F : /\ p[1] \in Nat /\ p[1] >= 1 /\ <<p[1] - 1, p[2]>> \in E
                      /\ p[1] <= MinSignalInterval - 1
      /\ \A c \in P : /\ age[c] \in Nat /\ age[c] < MaxSkew
                      /\ later[c] = age[c] + 1 /\ r <= age[c] + MaxSkew
  BY Numbers DEF Passes, Ticked, AgesOfReadings, Sound, SuppressingSound
<1>3. \A c \in Overdue(P, later, s) : s = MinSignalInterval /\ later[c] = MaxSkew
  BY <1>1, <1>2, Numbers DEF Overdue
<1>4. PICK h \in Nat : Round(E, P, age, r, h)
  BY DEF Sound, SuppressingSound
<1>5. PICK y : y = Young(E, h)
  OBVIOUS
<1>6. /\ IsFiniteSet(y) /\ Cardinality(y) \in Nat /\ IsFiniteSet(P)
      /\ Cardinality(P) \in Nat /\ Cardinality(Consumers) \in Nat
  BY <1>5, RoundCounts, Numbers DEF Sound
<1>7. /\ Cardinality(Overdue(P, later, s)) \in Nat
      /\ Cardinality(Overdue(P, later, s)) <= Cardinality(P)
  BY <1>6, Count DEF Overdue
<1>8. Cardinality(F) \in Nat /\ Cardinality(F) + Cardinality(P) < Cardinality(Consumers)
  <2>1. CASE r <= h
    <3>1. Cardinality(y) + Cardinality(P) <= Cardinality(Consumers)
      BY <1>4, <1>5 DEF Round
    <3>2. <<r, 1>> \in y
      BY <1>5, <2>1 DEF Sound, SuppressingSound, Young
    <3>3. ASSUME NEW p \in F PROVE <<p[1] - 1, p[2]>> \in y \ {<<r, 1>>}
      <4>1. /\ <<p[1] - 1, p[2]>> \in E /\ p[1] \in Nat
            /\ p[1] <= MinSignalInterval - 1
        BY <1>2
      <4>2. p[1] - 1 < r /\ p[1] - 1 <= h
        BY <1>1, <2>1, <4>1, Numbers
      <4>3. <<p[1] - 1, p[2]>> # <<r, 1>>
        BY <1>1, <4>1, <4>2
      <4>4. <<p[1] - 1, p[2]>>[1] <= h
        BY <4>2
      <4> QED
        BY <1>5, <4>1, <4>3, <4>4 DEF Young
    <3>4. IsFiniteSet(y \ {<<r, 1>>}) /\ Cardinality(y \ {<<r, 1>>}) = Cardinality(y) - 1
      <4>1. PICK own : own = <<r, 1>>
        OBVIOUS
      <4>2. own \in y
        BY <3>2, <4>1
      <4>3. IsFiniteSet(y \ {own}) /\ Cardinality(y \ {own}) = Cardinality(y) - 1
        BY ONLY <1>6, <4>2, FS_RemoveElement
      <4> QED
        BY <4>1, <4>3
    <3>5. Cardinality(F) \in Nat /\ Cardinality(F) <= Cardinality(y \ {<<r, 1>>})
      BY <1>2, <3>3, <3>4, ShiftCount
    <3>6. Cardinality(F) <= Cardinality(y) - 1
      BY <3>4, <3>5
    <3> QED
      BY <1>6, <3>1, <3>5, <3>6
  <2>2. CASE r > h
    <3>1. /\ Cardinality(y) + Cardinality(P) < Cardinality(Consumers)
          /\ \A p \in Old(E, h) : p[1] >= r
      BY <1>4, <1>5, <2>2 DEF Round
    <3>2. \A p \in E : p[1] < r => p \in y
      BY <1>1, <1>2, <1>5, <3>1 DEF Young, Old
    <3>3. ASSUME NEW p \in F PROVE <<p[1] - 1, p[2]>> \in y
      <4>1. /\ <<p[1] - 1, p[2]>> \in E /\ p[1] \in Nat
            /\ p[1] <= MinSignalInterval - 1
        BY <1>2
      <4>2. <<p[1] - 1, p[2]>>[1] < r
        BY <1>1, <4>1, Numbers
      <4> QED
        BY <3>2, <4>1, <4>2
    <3>4. Cardinality(F) \in Nat /\ Cardinality(F) <= Cardinality(y)
      BY <1>2, <1>6, <3>3, ShiftCount
    <3> QED
      BY <1>6, <3>1, <3>4
  <2> QED
    BY <1>1, <2>1, <2>2
<1>9. Cardinality(F) + Cardinality(Overdue(P, later, s)) < Cardinality(Consumers)
  BY <1>6, <1>7, <1>8
<1> QED
  BY <1>3, <1>9 DEF LettingPassSound

LEMMA TickIsSound ==
    ASSUME TelemetryAssumption, NEW E \in SUBSET Passes, NEW F \in SUBSET Passes,
           NEW P \in SUBSET Consumers, NEW age \in AgesOfReadings,
           NEW later \in AgesOfReadings, NEW r \in Ages \cup {None}, NEW s,
           Sound(E, P, age, r), Ticked(E, F, P, age, later, r, s)
    PROVE  Sound(F, P, later, s)
<1>1. IsFiniteSet(F)
  BY ShiftCount DEF Sound, Ticked
<1>2. ASSUME NEW p \in F PROVE s # None /\ s <= p[1] + MaxSkew
  <2>1. <<p[1] - 1, p[2]>> \in E /\ p[1] \in Nat /\ p[1] >= 1
    BY Numbers DEF Ticked, Passes
  <2>2. r # None /\ r <= <<p[1] - 1, p[2]>>[1] + MaxSkew
    BY <2>1 DEF Sound
  <2>3. s \in Nat /\ s <= r + 1 /\ s # None /\ r \in Nat
    BY <2>2, TickedEntry DEF Ticked
  <2> QED
    BY <2>1, <2>2, <2>3, Numbers
<1>3. Suppressing(s) => SuppressingSound(F, P, later, s)
  BY TickWhileSuppressing
<1>4. ~Suppressing(s) => LettingPassSound(F, P, later, s)
  BY TickWhileLettingPass, TickEndsInterval
<1> QED
  BY <1>1, <1>2, <1>3, <1>4 DEF Sound

-----------------------------------------------------------------------------
(* The receiver.                                                           *)

(* The passes that a fingerprint's counters stand for. *)
PassesOf(counts) == {p \in Passes : p[2] <= counts[p[1]]}

LEMMA PassesOfCounts ==
    ASSUME TelemetryAssumption, NEW counts \in [Recent -> Nat], NEW age \in Recent
    PROVE  UNION {{a} \X (1..counts[a]) : a \in 0..age}
              = {p \in PassesOf(counts) : p[1] <= age}
<1>1. ASSUME NEW a \in 0..age, NEW p \in {a} \X (1..counts[a])
      PROVE  p \in PassesOf(counts) /\ p[1] <= age
  <2>1. a \in Recent /\ a <= age
    BY Numbers
  <2>2. p = <<a, p[2]>> /\ p[1] = a /\ p[2] \in 1..counts[a] /\ counts[a] \in Nat
    BY <2>1
  <2>3. p[2] \in Nat \ {0} /\ p[2] <= counts[a]
    BY <2>2
  <2> QED
    BY <2>1, <2>2, <2>3 DEF PassesOf, Passes
<1>2. ASSUME NEW p \in PassesOf(counts), p[1] <= age
      PROVE  \E a \in 0..age : p \in {a} \X (1..counts[a])
  <2>1. /\ p = <<p[1], p[2]>> /\ p[1] \in Recent
        /\ p[2] \in Nat \ {0} /\ p[2] <= counts[p[1]]
    BY DEF PassesOf, Passes
  <2>2. p[2] \in 1..counts[p[1]] /\ p[1] \in 0..age
    BY <1>2, <2>1 DEF Recent
  <2> QED
    BY <2>1, <2>2
<1> QED
  BY <1>1, <1>2

LEMMA NoPasses ==
    PassesOf([a \in Recent |-> 0]) = {}
BY DEF PassesOf, Passes

LEMMA OnePassMore ==
    ASSUME NEW counts \in [Recent -> Nat],
           NEW a \in Recent,
           NEW more, more = [counts EXCEPT ![a] = @ + 1]
    PROVE  /\ PassesOf(more) = PassesOf(counts) \cup {<<a, counts[a] + 1>>}
           /\ <<a, counts[a] + 1>> \notin PassesOf(counts)
           /\ counts[a] + 1 \in Nat \ {0}
           /\ counts[a] + 1 = 1 \/ <<a, 1>> \in PassesOf(counts)
<1>1. counts[a] \in Nat /\ more[a] = counts[a] + 1
  OBVIOUS
<1>2. \A b \in Recent : b # a => more[b] = counts[b]
  OBVIOUS
<1>3. ASSUME NEW p \in Passes
      PROVE  p \in PassesOf(more) <=> p \in PassesOf(counts) \/ p = <<a, counts[a] + 1>>
  <2>1. p = <<p[1], p[2]>> /\ p[1] \in Recent /\ p[2] \in Nat
    BY DEF Passes
  <2>2. CASE p[1] = a
    BY <1>1, <2>1, <2>2 DEF PassesOf
  <2>3. CASE p[1] # a
    BY <1>2, <2>1, <2>3 DEF PassesOf
  <2> QED
    BY <2>2, <2>3
<1>4. <<a, counts[a] + 1>> \in Passes
  BY <1>1 DEF Passes
<1>5. PassesOf(more) = PassesOf(counts) \cup {<<a, counts[a] + 1>>}
  BY <1>3, <1>4 DEF PassesOf
<1>6. counts[a] = 0 \/ <<a, 1>> \in PassesOf(counts)
  BY <1>1 DEF PassesOf, Passes
<1>7. <<a, counts[a] + 1>> \notin PassesOf(counts)
  BY <1>1 DEF PassesOf
<1>8. counts[a] + 1 \in Nat \ {0}
  BY <1>1
<1>9. counts[a] + 1 = 1 \/ <<a, 1>> \in PassesOf(counts)
  BY <1>1, <1>6
<1> QED
  BY <1>5, <1>7, <1>8, <1>9

LEMMA PassesGrowOlder ==
    ASSUME TelemetryAssumption, NEW counts \in [Recent -> Nat],
           NEW older,
           older = [a \in Recent |-> IF a = 0 THEN 0 ELSE counts[a - 1]]
    PROVE  /\ older \in [Recent -> Nat]
           /\ \A p \in PassesOf(older) :
                 p[1] >= 1 /\ <<p[1] - 1, p[2]>> \in PassesOf(counts)
           /\ \A p \in PassesOf(counts) :
                 p[1] + 1 < MinSignalInterval => <<p[1] + 1, p[2]>> \in PassesOf(older)
<1>1. older \in [Recent -> Nat]
  BY Numbers
<1>2. /\ older[0] = 0
      /\ \A a \in Recent : a # 0 => older[a] = counts[a - 1]
  BY Numbers
<1>3. ASSUME NEW p \in PassesOf(older)
      PROVE  p[1] >= 1 /\ <<p[1] - 1, p[2]>> \in PassesOf(counts)
  <2>1. /\ p = <<p[1], p[2]>> /\ p[1] \in Recent
        /\ p[2] \in Nat \ {0} /\ p[2] <= older[p[1]]
    BY DEF PassesOf, Passes
  <2>2. p[1] # 0 /\ p[2] <= counts[p[1] - 1]
    BY <1>2, <2>1
  <2>3. p[1] >= 1 /\ p[1] - 1 \in Recent
    BY <2>1, <2>2, Numbers
  <2> QED
    BY <2>1, <2>2, <2>3 DEF PassesOf, Passes
<1>4. ASSUME NEW p \in PassesOf(counts), p[1] + 1 < MinSignalInterval
      PROVE  <<p[1] + 1, p[2]>> \in PassesOf(older)
  <2>1. /\ p[1] \in Recent
        /\ p[2] \in Nat \ {0} /\ p[2] <= counts[p[1]]
    BY DEF PassesOf, Passes
  <2>2. PICK a \in Nat, b \in Nat : a = p[1] /\ b = a + 1
    BY <2>1 DEF Recent
  <2>3. b \in Recent /\ b # 0 /\ b - 1 = p[1]
    <3>1. b < MinSignalInterval
      BY <1>4, <2>2
    <3> QED
      BY <2>2, <3>1, Numbers
  <2>4. p[2] <= older[b]
    BY <1>2, <2>1, <2>3
  <2>5. <<b, p[2]>> \in PassesOf(older)
    BY <2>1, <2>3, <2>4 DEF PassesOf, Passes
  <2> QED
    BY <2>2, <2>5
<1> QED
  BY <1>1, <1>3, <1>4

-----------------------------------------------------------------------------

(* What the argument needs of the types; which signals a consumer has in   *)
(* hand does not matter to it.                                             *)
FilterTyped ==
    /\ recentSignals \in [Fingerprints -> Ages \cup {None}]
    /\ pc = [c \in Consumers |-> pc[c]]
    /\ raw = [c \in Consumers |-> raw[c]]
    /\ nowAge \in AgesOfReadings
    /\ passed \in [Fingerprints -> [Recent -> Nat]]

(* Consumers between the check and the assignment to the map. *)
Pending(f) == {c \in Consumers : pc[c] = "record" /\ Head(raw[c]) = f}

FilterInv ==
    /\ FilterTyped
    /\ \A f \in Fingerprints :
          Sound(PassesOf(passed[f]), Pending(f), nowAge, recentSignals[f])

(* Since an entry was last lost, fewer than two rounds have passed. *)
LEMMA FilterBounds ==
    ASSUME TelemetryAssumption, FilterInv, NEW f \in Fingerprints, NEW age \in Recent
    PROVE  /\ Cardinality(PassedWithin(f, age)) \in Nat
           /\ Cardinality(PassedWithin(f, age)) <= 2 * Cardinality(Consumers) - 1
<1>1. PassedWithin(f, age) \in SUBSET PassesOf(passed[f])
  BY PassesOfCounts DEF FilterInv, FilterTyped, PassedWithin
<1>2. /\ Sound(PassesOf(passed[f]), Pending(f), nowAge, recentSignals[f])
      /\ PassesOf(passed[f]) \in SUBSET Passes /\ Pending(f) \in SUBSET Consumers
  BY DEF FilterInv, PassesOf, Pending
<1>3. Cardinality(PassesOf(passed[f])) <= 2 * Cardinality(Consumers) - 1
  BY <1>2, SoundIsBounded
<1>4. /\ Cardinality(PassedWithin(f, age)) \in Nat
      /\ Cardinality(PassesOf(passed[f])) \in Nat
      /\ Cardinality(PassedWithin(f, age)) <= Cardinality(PassesOf(passed[f]))
  BY <1>1, <1>2, Count DEF Sound
<1> QED
  BY <1>3, <1>4, Numbers

(* Nothing in the map, nobody in the filter: a process that starts or one  *)
(* that has ended.                                                         *)
LEMMA EmptyFilter == TelemetryInit => FilterInv
<1> USE TelemetryAssumption
<1> SUFFICES ASSUME TelemetryInit PROVE FilterInv
  OBVIOUS
<1>1. FilterTyped
  BY Numbers DEF TelemetryInit, FilterTyped, NoSignals, Never, AgesOfReadings
<1>2. ASSUME NEW f \in Fingerprints
      PROVE  Sound(PassesOf(passed[f]), Pending(f), nowAge, recentSignals[f])
  <2>1. Pending(f) = {} /\ recentSignals[f] = None
    BY DEF TelemetryInit, Pending, NoSignals
  <2>2. PassesOf(passed[f]) = {}
    BY NoPasses DEF TelemetryInit, Never
  <2> QED
    BY <2>1, <2>2, NothingIsSound
<1> QED
  BY <1>1, <1>2 DEF FilterInv

(* Steps that leave the map, the counters and what is pending alone. *)
LEMMA QuietSteps ==
    ASSUME TelemetryAssumption, FilterInv, UNCHANGED <<recentSignals, passed>>,
           pc' = [c \in Consumers |-> pc'[c]], raw' = [c \in Consumers |-> raw'[c]],
           nowAge' \in AgesOfReadings,
           \A f \in Fingerprints :
              Pending(f)' = Pending(f) /\ \A c \in Pending(f) : nowAge'[c] = nowAge[c]
    PROVE  FilterInv'
<1>1. FilterTyped'
  BY DEF FilterInv, FilterTyped
<1>2. ASSUME NEW f \in Fingerprints
      PROVE  Sound(PassesOf(passed[f]), Pending(f), nowAge, recentSignals[f])'
  <2>1. Sound(PassesOf(passed[f]), Pending(f), nowAge, recentSignals[f])
    BY DEF FilterInv
  <2>2. Sound(PassesOf(passed[f]), Pending(f), nowAge', recentSignals[f])
    BY <2>1, OtherReadings
  <2> QED
    BY <2>2
<1> QED
  BY <1>1, <1>2 DEF FilterInv

LEMMA ConsumeKeepsFilter ==
    ASSUME TelemetryAssumption, FilterInv, NEW c \in Consumers, NEW batch \in Batches,
           Consume(c, batch)
    PROVE  FilterInv'
<1>1. /\ pc' = [d \in Consumers |-> pc'[d]] /\ raw' = [d \in Consumers |-> raw'[d]]
      /\ nowAge' \in AgesOfReadings
  <2>1. pc' = [d \in Consumers |-> pc'[d]]
    BY DEF Consume, GoTo, FilterInv, FilterTyped
  <2>2. raw' = [d \in Consumers |-> raw'[d]]
    BY DEF Consume, FilterInv, FilterTyped
  <2>3. nowAge' \in AgesOfReadings
    BY Numbers DEF Consume, FilterInv, FilterTyped, AgesOfReadings
  <2> QED
    BY <2>1, <2>2, <2>3
<1>2. \A d \in Consumers : d # c => /\ pc'[d] = pc[d] /\ raw'[d] = raw[d]
                                    /\ nowAge'[d] = nowAge[d]
  BY DEF Consume, GoTo, FilterInv, FilterTyped, AgesOfReadings
<1>3. pc[c] # "record" /\ pc'[c] # "record"
  BY DEF Consume, GoTo, FilterInv, FilterTyped
<1>4. \A f \in Fingerprints :
         Pending(f)' = Pending(f) /\ \A d \in Pending(f) : nowAge'[d] = nowAge[d]
  BY <1>2, <1>3 DEF Pending
<1> QED
  BY <1>1, <1>4, QuietSteps DEF Consume, histories

(* A step of one consumer that is not at the map. *)
LEMMA HandlerKeepsFilter ==
    ASSUME TelemetryAssumption, FilterInv, NEW c \in Consumers,
           Suppress(c) \/ CreateIncident(c) \/ CreateFails(c) \/ AttachSignal(c)
              \/ BatchDone(c)
    PROVE  FilterInv'
<1>1. /\ UNCHANGED <<recentSignals, passed, nowAge>>
      /\ pc' = [d \in Consumers |-> pc'[d]] /\ raw' = [d \in Consumers |-> raw'[d]]
  BY DEF Suppress, CreateIncident, CreateFails, AttachSignal, BatchDone, NextSignal,
         histories, GoTo, FilterInv, FilterTyped
<1>2. \A d \in Consumers : d # c => pc'[d] = pc[d] /\ raw'[d] = raw[d]
  BY DEF Suppress, CreateIncident, CreateFails, AttachSignal, BatchDone, NextSignal,
         GoTo, FilterInv, FilterTyped
<1>3. pc[c] # "record" /\ pc'[c] # "record"
  BY DEF Suppress, CreateIncident, CreateFails, AttachSignal, BatchDone, NextSignal,
         GoTo, FilterInv, FilterTyped
<1>4. \A f \in Fingerprints :
         Pending(f)' = Pending(f) /\ \A d \in Pending(f) : nowAge'[d] = nowAge[d]
  BY <1>1, <1>2, <1>3 DEF Pending
<1>5. nowAge' \in AgesOfReadings
  BY <1>1 DEF FilterInv, FilterTyped
<1> QED
  BY <1>1, <1>4, <1>5, QuietSteps

LEMMA PassKeepsFilter ==
    ASSUME TelemetryAssumption, FilterInv, NEW c \in Consumers, Pass(c)
    PROVE  FilterInv'
<1>1. FilterTyped'
  BY DEF Pass, histories, GoTo, FilterInv, FilterTyped
<1>2. ASSUME NEW f \in Fingerprints
      PROVE  Sound(PassesOf(passed[f]), Pending(f), nowAge, recentSignals[f])'
  <2>1. /\ Sound(PassesOf(passed[f]), Pending(f), nowAge, recentSignals[f])
        /\ nowAge \in AgesOfReadings /\ recentSignals[f] \in Ages \cup {None}
    BY DEF FilterInv, FilterTyped
  <2>2. UNCHANGED <<recentSignals, raw, nowAge, passed>>
    BY DEF Pass, histories
  <2>3. CASE f = Head(raw[c])
    <3>1. Pending(f)' = Pending(f) \cup {c}
      BY <2>2, <2>3 DEF Pass, GoTo, Pending, FilterInv, FilterTyped
    <3>2. nowAge[c] \in Nat /\ \A r \in Ages : r \in Nat
      BY <2>1, Numbers DEF AgesOfReadings
    <3>3. recentSignals[f] # None => recentSignals[f] >= nowAge[c] + MinSignalInterval
      BY <2>1, <2>3, <3>2, Numbers DEF Pass, SentRecently
    <3>4. Sound(PassesOf(passed[f]), Pending(f) \cup {c}, nowAge, recentSignals[f])
      BY <2>1, <3>3, PassIsSound
    <3> QED
      BY <2>2, <3>1, <3>4
  <2>4. CASE f # Head(raw[c])
    <3>1. Pending(f)' = Pending(f)
      BY <2>2, <2>4 DEF Pass, GoTo, Pending, FilterInv, FilterTyped
    <3> QED
      BY <2>1, <2>2, <3>1
  <2> QED
    BY <2>3, <2>4
<1> QED
  BY <1>1, <1>2 DEF FilterInv

LEMMA RecordKeepsFilter ==
    ASSUME TelemetryAssumption, FilterInv, NEW c \in Consumers, RecordSignal(c)
    PROVE  FilterInv'
<1>1. PICK g : g = Head(raw[c])
  OBVIOUS
<1>2. /\ nowAge \in AgesOfReadings /\ nowAge' = nowAge
      /\ nowAge[c] \in Nat /\ nowAge[c] \in Ages /\ nowAge[c] \in Recent
  BY Numbers DEF RecordSignal, FilterInv, FilterTyped, AgesOfReadings, Ages, Recent
<1>3. /\ recentSignals' = [recentSignals EXCEPT ![g] = nowAge[c]]
      /\ passed' = [passed EXCEPT ![g][nowAge[c]] = @ + 1]
      /\ raw' = [raw EXCEPT ![c] = Tail(@)] /\ pc' = [pc EXCEPT ![c] = "filter"]
      /\ pc[c] = "record"
  BY <1>1 DEF RecordSignal, GoTo
<1>4. /\ recentSignals \in [Fingerprints -> Ages \cup {None}]
      /\ passed \in [Fingerprints -> [Recent -> Nat]]
      /\ pc = [d \in Consumers |-> pc[d]] /\ raw = [d \in Consumers |-> raw[d]]
  BY DEF FilterInv, FilterTyped
<1>5. FilterTyped'
  <2>1. recentSignals' \in [Fingerprints -> Ages \cup {None}]
    BY <1>2, <1>3, <1>4
  <2>2. passed' \in [Fingerprints -> [Recent -> Nat]]
    <3>1. passed' = [passed EXCEPT ![g] = [passed[g] EXCEPT ![nowAge[c]] = @ + 1]]
      BY <1>3
    <3>2. g \in Fingerprints =>
             [passed[g] EXCEPT ![nowAge[c]] = @ + 1] \in [Recent -> Nat]
      BY <1>2, <1>4
    <3> QED
      BY <1>4, <3>1, <3>2
  <2>3. pc' = [d \in Consumers |-> pc'[d]] /\ raw' = [d \in Consumers |-> raw'[d]]
    BY <1>3, <1>4
  <2> QED
    BY <1>2, <2>1, <2>2, <2>3 DEF FilterTyped
<1>6. ASSUME NEW f \in Fingerprints
      PROVE  Sound(PassesOf(passed[f]), Pending(f), nowAge, recentSignals[f])'
  <2>1. Sound(PassesOf(passed[f]), Pending(f), nowAge, recentSignals[f])
    BY DEF FilterInv
  <2>2. CASE f = g
    <3>1. Pending(f)' = Pending(f) \ {c} /\ c \in Pending(f)
      BY <1>1, <1>3, <1>4, <2>2 DEF Pending
    <3>2. /\ passed[f] \in [Recent -> Nat]
          /\ passed'[f] = [passed[f] EXCEPT ![nowAge[c]] = @ + 1]
          /\ recentSignals'[f] = nowAge[c] /\ recentSignals[f] \in Ages \cup {None}
      BY <1>3, <1>4, <2>2
    <3>3. PICK n : n = passed[f][nowAge[c]] + 1
      OBVIOUS
    <3>4. /\ PassesOf(passed'[f]) = PassesOf(passed[f]) \cup {<<nowAge[c], n>>}
          /\ <<nowAge[c], n>> \notin PassesOf(passed[f])
          /\ n \in Nat \ {0}
          /\ n = 1 \/ <<nowAge[c], 1>> \in PassesOf(passed[f])
          /\ PassesOf(passed[f]) \in SUBSET Passes
      <4>1. PICK counts \in [Recent -> Nat],
                 a \in Recent :
               counts = passed[f] /\ a = nowAge[c]
        BY <1>2, <3>2
      <4> DEFINE more == passed'[f]
      <4>2. more = [counts EXCEPT ![a] = @ + 1] /\ n = counts[a] + 1
        BY <3>2, <3>3, <4>1
      <4>3. /\ PassesOf(more) = PassesOf(counts) \cup {<<a, n>>}
            /\ <<a, n>> \notin PassesOf(counts) /\ n \in Nat \ {0}
            /\ n = 1 \/ <<a, 1>> \in PassesOf(counts)
        BY <4>2, OnePassMore
      <4>4. PassesOf(counts) \in SUBSET Passes
        BY DEF PassesOf
      <4> QED
        BY <4>1, <4>3, <4>4
    <3>5. Pending(f) \in SUBSET Consumers
      BY DEF Pending
    <3>6. Sound(PassesOf(passed[f]) \cup {<<nowAge[c], n>>}, Pending(f) \ {c}, nowAge,
                nowAge[c])
      BY <1>2, <2>1, <3>1, <3>2, <3>4, <3>5, RecordIsSound
    <3> QED
      BY <1>2, <3>1, <3>2, <3>4, <3>6
  <2>3. CASE f # g
    <3>1. Pending(f)' = Pending(f)
      BY <1>1, <1>3, <1>4, <2>3 DEF Pending
    <3>2. passed'[f] = passed[f] /\ recentSignals'[f] = recentSignals[f]
      BY <1>3, <1>4, <2>3
    <3> QED
      BY <1>2, <2>1, <3>1, <3>2
  <2> QED
    BY <2>2, <2>3
<1> QED
  BY <1>5, <1>6 DEF FilterInv

(* The loop of the cleanup, when it finds an entry and when it ends. *)
LEMMA CleaningKeepsFilter ==
    ASSUME TelemetryAssumption, FilterInv, NEW c \in Consumers,
           FindExpired(c) \/ CleanupDone(c)
    PROVE  FilterInv'
<1>1. /\ UNCHANGED <<recentSignals, passed, raw>>
      /\ pc' = [d \in Consumers |-> pc'[d]] /\ raw' = [d \in Consumers |-> raw'[d]]
  BY DEF FindExpired, CleanupDone, histories, GoTo, FilterInv, FilterTyped
<1>2. nowAge' \in AgesOfReadings
  BY Numbers DEF FindExpired, CleanupDone, FilterInv, FilterTyped, AgesOfReadings
<1>3. \A d \in Consumers : d # c => nowAge'[d] = nowAge[d] /\ pc'[d] = pc[d]
  BY DEF FindExpired, CleanupDone, GoTo, AgesOfReadings, FilterInv, FilterTyped
<1>4. pc[c] # "record" /\ pc'[c] # "record"
  BY DEF FindExpired, CleanupDone, GoTo, FilterInv, FilterTyped
<1>5. \A f \in Fingerprints :
         Pending(f)' = Pending(f) /\ \A d \in Pending(f) : nowAge'[d] = nowAge[d]
  BY <1>1, <1>3, <1>4 DEF Pending
<1> QED
  BY <1>1, <1>2, <1>5, QuietSteps

(* The deletion: what has passed by an expired entry has left the interval *)
(* and what has passed by a live one is counted as earlier.                *)
LEMMA DeletionKeepsFilter ==
    ASSUME TelemetryAssumption, FilterInv, NEW c \in Consumers, DeleteSignal(c)
    PROVE  FilterInv'
<1>1. PICK g : g = doomed[c]
  OBVIOUS
<1>2. /\ pc[c] = "delete" /\ pc' = [pc EXCEPT ![c] = "filter"]
      /\ UNCHANGED <<raw, nowAge>>
      /\ recentSignals' = [recentSignals EXCEPT ![g] = None]
      /\ Live(g) => passed' = [passed EXCEPT ![g] = [a \in Recent |-> 0]]
      /\ ~Live(g) => passed' = passed
  BY <1>1 DEF DeleteSignal, GoTo, LoseEntry, histories
<1>3. /\ recentSignals \in [Fingerprints -> Ages \cup {None}]
      /\ passed \in [Fingerprints -> [Recent -> Nat]]
      /\ pc = [d \in Consumers |-> pc[d]] /\ raw = [d \in Consumers |-> raw[d]]
      /\ nowAge \in AgesOfReadings
  BY DEF FilterInv, FilterTyped
<1>4. FilterTyped'
  <2>1. [a \in Recent |-> 0] \in [Recent -> Nat]
    OBVIOUS
  <2>2. passed' \in [Fingerprints -> [Recent -> Nat]]
    BY <1>2, <1>3, <2>1
  <2>3. recentSignals' \in [Fingerprints -> Ages \cup {None}]
    BY <1>2, <1>3
  <2>4. pc' = [d \in Consumers |-> pc'[d]]
    BY <1>2, <1>3
  <2> QED
    BY <1>2, <1>3, <2>2, <2>3, <2>4 DEF FilterTyped
<1>5. \A f : Pending(f)' = Pending(f)
  BY <1>2, <1>3 DEF Pending
<1>6. ASSUME NEW f \in Fingerprints
      PROVE  Sound(PassesOf(passed'[f]), Pending(f), nowAge, recentSignals'[f])
  <2>1. /\ Sound(PassesOf(passed[f]), Pending(f), nowAge, recentSignals[f])
        /\ PassesOf(passed[f]) \in SUBSET Passes /\ Pending(f) \in SUBSET Consumers
        /\ recentSignals[f] \in Ages \cup {None}
    BY <1>3 DEF FilterInv, PassesOf, Pending
  <2>2. CASE f # g
    BY <1>2, <1>3, <2>1, <2>2
  <2>3. CASE f = g /\ Live(g)
    <3>1. recentSignals'[f] = None /\ passed'[f] = [a \in Recent |-> 0]
      BY <1>2, <1>3, <2>3
    <3> QED
      BY <3>1, NoPasses, NothingIsSound
  <2>4. CASE f = g /\ ~Live(g)
    <3>1. recentSignals'[f] = None /\ passed'[f] = passed[f]
      BY <1>2, <1>3, <2>4
    <3>2. CASE recentSignals[f] = None
      BY <2>1, <3>1, <3>2
    <3>3. CASE recentSignals[f] # None
      <4>1. recentSignals[f] \in Nat /\ recentSignals[f] > 2 * MinSignalInterval
        BY <2>1, <2>4, <3>3, Numbers DEF Live
      <4> QED
        BY <2>1, <3>1, <4>1, CleaningIsSound
    <3> QED
      BY <3>2, <3>3
  <2> QED
    BY <2>2, <2>3, <2>4
<1> QED
  BY <1>2, <1>4, <1>5, <1>6 DEF FilterInv

LEMMA TickKeepsFilter ==
    ASSUME TelemetryAssumption, FilterInv, Tick
    PROVE  FilterInv'
<1>1. /\ nowAge \in AgesOfReadings
      /\ recentSignals \in [Fingerprints -> Ages \cup {None}]
      /\ passed \in [Fingerprints -> [Recent -> Nat]]
      /\ UNCHANGED <<pc, raw>>
  BY DEF Tick, FilterInv, FilterTyped
<1>2. nowAge' \in AgesOfReadings
  <2>1. ASSUME NEW c \in Consumers
        PROVE  (IF Filtering(c) THEN nowAge[c] + 1 ELSE 0) \in 0..MaxSkew
    <3>1. nowAge[c] \in 0..MaxSkew /\ (Filtering(c) => nowAge[c] < MaxSkew)
      BY <1>1 DEF Tick, AgesOfReadings
    <3> QED
      BY <3>1, Numbers
  <2> QED
    BY <2>1 DEF Tick, AgesOfReadings
<1>3. ASSUME NEW f \in Fingerprints
      PROVE  /\ passed'[f] = [a \in Recent |-> IF a = 0 THEN 0 ELSE passed[f][a - 1]]
             /\ recentSignals'[f] = IF recentSignals[f] = None THEN None
                                    ELSE Older(recentSignals[f])
  BY DEF Tick, OneTickOlder
<1>4. ASSUME NEW f \in Fingerprints
      PROVE  /\ passed'[f] \in [Recent -> Nat]
             /\ \A p \in PassesOf(passed'[f]) :
                   p[1] >= 1 /\ <<p[1] - 1, p[2]>> \in PassesOf(passed[f])
             /\ \A p \in PassesOf(passed[f]) :
                   p[1] + 1 < MinSignalInterval
                      => <<p[1] + 1, p[2]>> \in PassesOf(passed'[f])
  <2>1. PICK counts \in [Recent -> Nat] : counts = passed[f]
    BY <1>1
  <2> DEFINE older == passed'[f]
  <2>2. older = [a \in Recent |-> IF a = 0 THEN 0 ELSE counts[a - 1]]
    BY <1>3, <2>1
  <2>3. /\ older \in [Recent -> Nat]
        /\ \A p \in PassesOf(older) :
              p[1] >= 1 /\ <<p[1] - 1, p[2]>> \in PassesOf(counts)
        /\ \A p \in PassesOf(counts) :
              p[1] + 1 < MinSignalInterval => <<p[1] + 1, p[2]>> \in PassesOf(older)
    BY <2>2, PassesGrowOlder
  <2> QED
    BY <2>1, <2>3
<1>5. FilterTyped'
  <2>1. passed' \in [Fingerprints -> [Recent -> Nat]]
    BY <1>4 DEF Tick, OneTickOlder
  <2>2. recentSignals' \in [Fingerprints -> Ages \cup {None}]
    <3>1. \A r \in Ages : Older(r) \in Ages
      BY DEF Older
    <3> QED
      BY <1>1, <3>1 DEF Tick
  <2> QED
    BY <1>1, <1>2, <2>1, <2>2 DEF FilterInv, FilterTyped
<1>6. ASSUME NEW f \in Fingerprints
      PROVE  Sound(PassesOf(passed[f]), Pending(f), nowAge, recentSignals[f])'
  <2>1. /\ Sound(PassesOf(passed[f]), Pending(f), nowAge, recentSignals[f])
        /\ PassesOf(passed[f]) \in SUBSET Passes /\ Pending(f) \in SUBSET Consumers
        /\ recentSignals[f] \in Ages \cup {None}
    BY DEF FilterInv, FilterTyped, Pending, PassesOf
  <2>2. PassesOf(passed'[f]) \in SUBSET Passes
    BY DEF PassesOf
  <2>3. \A c \in Pending(f) : nowAge[c] < MaxSkew /\ nowAge'[c] = nowAge[c] + 1
    BY DEF Tick, Filtering, Pending
  <2>4. Ticked(PassesOf(passed[f]), PassesOf(passed'[f]), Pending(f), nowAge, nowAge',
               recentSignals[f], recentSignals'[f])
    BY <1>3, <1>4, <2>3 DEF Ticked
  <2>5. Sound(PassesOf(passed'[f]), Pending(f), nowAge', recentSignals'[f])
    BY <1>1, <1>2, <2>1, <2>2, <2>4, TickIsSound
  <2>6. Pending(f)' = Pending(f)
    BY <1>1 DEF Pending
  <2> QED
    BY <2>5, <2>6
<1> QED
  BY <1>5, <1>6 DEF FilterInv

-----------------------------------------------------------------------------
(* The process.                                                            *)

LEMMA ExitKeepsFilter ==
    ASSUME TelemetryAssumption, FilterInv, NEW how, ExitWith(how) PROVE FilterInv'
<1>1. TelemetryInit'
  BY DEF ExitWith, TelemetryEnds, TelemetryInit
<1>2. (TelemetryInit => FilterInv)'
  BY EmptyFilter, PTL
<1> QED
  BY <1>1, <1>2

LEMMA FilterKept ==
    ASSUME TelemetryAssumption, FilterInv, [Next]_vars PROVE FilterInv'
<1>1. CASE UNCHANGED telemetryVars
  <2>1. \A f : Pending(f)' = Pending(f)
    BY <1>1 DEF telemetryVars, Pending
  <2> QED
    BY <1>1, <2>1 DEF telemetryVars, histories, FilterInv, FilterTyped
<1>2. CASE \E how : ExitWith(how)
  BY <1>2, ExitKeepsFilter
<1>3. ASSUME NEW c \in Consumers, Work(c) PROVE FilterInv'
  BY <1>3, HandlerKeepsFilter, PassKeepsFilter, RecordKeepsFilter, CleaningKeepsFilter,
     DeletionKeepsFilter DEF Work, ConsumerStep
<1>4. ASSUME NEW c \in Consumers, NEW batch \in Batches, ReceiveBatch(c, batch)
      PROVE  FilterInv'
  BY <1>4, ConsumeKeepsFilter DEF ReceiveBatch
<1>5. CASE TimePasses
  BY <1>5, TickKeepsFilter DEF TimePasses
<1>6. CASE UNCHANGED vars
  BY <1>1, <1>6 DEF vars, telemetryVars, histories
<1>7. CASE Main
  BY <1>1, <1>2, <1>7 DEF Main, StartReceiver, StartFails, SpawnListener,
     ReceiverStopped, ReceiverStopFails, ShutdownDone, ForcedClose
<1>8. CASE Listen \/ Signal \/ DeadlineExpires \/ BeginRequest \/ EndRequest
  BY <1>1, <1>8 DEF Listen, Signal, DeadlineExpires, BeginRequest, EndRequest
<1>9. CASE Crash
  BY <1>2, <1>9 DEF Crash
<1> QED
  BY <1>3, <1>4, <1>5, <1>6, <1>7, <1>8, <1>9 DEF Next

-----------------------------------------------------------------------------
(***************************************************************************)
(* Lost entries of one fingerprint: before and losses are its histories    *)
(* earlier and lost, D the consumers about to delete its entry r.  None of *)
(* D wrote a live entry, and only an entry that is not live is doomed, so  *)
(* that D does not grow again before the losses are forgotten.             *)
(***************************************************************************)
TwoRounds == 2 * Cardinality(Consumers) - 1

Fresh(r) == r # None /\ r <= 2 * MinSignalInterval

LossSound(before, losses, D, r) ==
    \A a \in Recent :
       /\ before[a] <= TwoRounds * losses[a]
       /\ losses[a] # 0 /\ r # None => r <= a + MaxSkew
       /\ losses[a] # 0 \/ Fresh(r)
             => losses[a] + Cardinality(D) < Cardinality(Consumers)

LEMMA OneMoreRound ==
    ASSUME NEW n \in Nat, NEW m \in Nat
    PROVE  n * (m + 1) = n * m + n /\ n * (1 + m) = n * m + n /\ n * 0 = 0
OBVIOUS

LEMMA FewerDoomed ==
    ASSUME TelemetryAssumption, NEW before, NEW losses \in [Recent -> Nat],
           NEW D \in SUBSET Consumers, NEW C \in SUBSET D, NEW r,
           LossSound(before, losses, D, r)
    PROVE  LossSound(before, losses, C, r)
<1>1. /\ Cardinality(C) \in Nat /\ Cardinality(D) \in Nat
      /\ Cardinality(C) <= Cardinality(D)
  BY Count, FS_Subset DEF TelemetryAssumption
<1> QED
  BY <1>1, Numbers DEF LossSound

(* A consumer that records is none of those that are about to delete. *)
LEMMA RecordKeepsLosses ==
    ASSUME TelemetryAssumption, NEW before, NEW losses \in [Recent -> Nat],
           NEW D \in SUBSET Consumers, NEW r, LossSound(before, losses, D, r),
           NEW c \in Consumers, c \notin D, NEW s \in 0..MaxSkew
    PROVE  LossSound(before, losses, D, s)
<1>1. /\ Cardinality(D) \in Nat /\ Cardinality(Consumers) \in Nat
      /\ Cardinality(D) < Cardinality(Consumers)
  <2>1. IsFiniteSet(Consumers \ {c}) /\ IsFiniteSet(D)
        /\ Cardinality(Consumers \ {c}) = Cardinality(Consumers) - 1
    BY FS_RemoveElement, FS_Subset DEF TelemetryAssumption
  <2>2. D \in SUBSET (Consumers \ {c})
    OBVIOUS
  <2>3. Cardinality(D) \in Nat /\ Cardinality(D) <= Cardinality(Consumers \ {c})
    BY <2>1, <2>2, Count
  <2> QED
    BY <2>1, <2>3, Numbers
<1>2. ASSUME NEW a \in Recent
      PROVE  /\ before[a] <= TwoRounds * losses[a]
             /\ losses[a] # 0 /\ s # None => s <= a + MaxSkew
             /\ losses[a] + Cardinality(D) < Cardinality(Consumers)
  <2>1. a \in Nat /\ losses[a] \in Nat
    BY Numbers
  <2>2. before[a] <= TwoRounds * losses[a]
    BY DEF LossSound
  <2>3. s <= a + MaxSkew
    BY <2>1, Numbers
  <2>4. losses[a] # 0 => losses[a] + Cardinality(D) < Cardinality(Consumers)
    BY DEF LossSound
  <2> QED
    BY <1>1, <2>1, <2>2, <2>3, <2>4
<1> QED
  BY <1>2 DEF LossSound

(* An entry that has expired was not lost within the interval. *)
LEMMA FindingKeepsLosses ==
    ASSUME TelemetryAssumption, NEW before, NEW losses \in [Recent -> Nat], NEW D,
           NEW more, NEW r \in Nat, LossSound(before, losses, D, r),
           r > 2 * MinSignalInterval
    PROVE  LossSound(before, losses, more, r)
<1>1. \A a \in Recent : losses[a] = 0
  BY Numbers DEF LossSound
<1>2. ~Fresh(r)
  BY Numbers DEF Fresh
<1> QED
  BY <1>1, <1>2 DEF LossSound

LEMMA NoEntryKeepsLosses ==
    ASSUME NEW before, NEW losses, NEW D, NEW r, LossSound(before, losses, D, r)
    PROVE  LossSound(before, losses, D, None)
BY DEF LossSound, Fresh

LEMMA LosingIsSound ==
    ASSUME TelemetryAssumption,
           NEW before \in [Recent -> Nat], NEW losses \in [Recent -> Nat],
           NEW D \in SUBSET Consumers, NEW c \in D, NEW r, Fresh(r),
           LossSound(before, losses, D, r),
           NEW passes \in [Recent -> Nat], \A a \in Recent : passes[a] <= TwoRounds,
           NEW b, b = [a \in Recent |-> before[a] + passes[a]],
           NEW l, l = [a \in Recent |-> losses[a] + 1]
    PROVE  LossSound(b, l, D \ {c}, None)
<1>1. /\ Cardinality(D) \in Nat /\ Cardinality(Consumers) \in Nat
      /\ Cardinality(D \ {c}) = Cardinality(D) - 1
  BY FS_RemoveElement, FS_Subset, FS_CardinalityType, Numbers DEF TelemetryAssumption
<1>2. TwoRounds \in Nat
  BY Numbers DEF TwoRounds
<1>3. ASSUME NEW a \in Recent
      PROVE  /\ b[a] <= TwoRounds * l[a]
             /\ l[a] + Cardinality(D \ {c}) < Cardinality(Consumers)
  <2>1. /\ b[a] = before[a] + passes[a] /\ l[a] = losses[a] + 1
        /\ before[a] \in Nat /\ passes[a] \in Nat /\ losses[a] \in Nat
    OBVIOUS
  <2>2. /\ before[a] <= TwoRounds * losses[a]
        /\ losses[a] + Cardinality(D) < Cardinality(Consumers)
    BY DEF LossSound
  <2>3. TwoRounds * l[a] = TwoRounds * losses[a] + TwoRounds
    BY <1>2, <2>1, OneMoreRound
  <2>4. PICK k \in Int : k = TwoRounds * losses[a]
    BY <1>2, <2>1
  <2>5. b[a] <= TwoRounds * l[a]
    <3>1. before[a] <= k /\ TwoRounds * l[a] = k + TwoRounds /\ passes[a] <= TwoRounds
      BY <2>2, <2>3, <2>4
    <3> QED
      BY <1>2, <2>1, <3>1
  <2> QED
    BY <1>1, <2>1, <2>2, <2>5
<1> QED
  BY <1>3 DEF LossSound

LEMMA TickKeepsLosses ==
    ASSUME TelemetryAssumption,
           NEW before \in [Recent -> Nat], NEW losses \in [Recent -> Nat],
           NEW D \in SUBSET Consumers, NEW r \in Ages \cup {None},
           LossSound(before, losses, D, r),
           NEW b, b = [a \in Recent |-> IF a = 0 THEN 0 ELSE before[a - 1]],
           NEW l, l = [a \in Recent |-> IF a = 0 THEN 0 ELSE losses[a - 1]],
           NEW s, s = IF r = None THEN None ELSE Older(r)
    PROVE  /\ b \in [Recent -> Nat] /\ l \in [Recent -> Nat]
           /\ LossSound(b, l, D, s)
<1>1. \A a \in Recent : a # 0 => a - 1 \in Recent /\ a - 1 + 1 = a
  BY Numbers
<1>2. b \in [Recent -> Nat] /\ l \in [Recent -> Nat] /\ 0 \in Recent
  BY <1>1, Numbers
<1>3. /\ Cardinality(D) \in Nat /\ Cardinality(Consumers) \in Nat
      /\ TwoRounds \in Nat
  BY Count, Numbers DEF TelemetryAssumption, TwoRounds
<1>4. s # None => r \in Nat /\ r # None /\ s \in Nat /\ s <= r + 1
  BY TickedEntry
<1>5. Fresh(s) => Fresh(r)
  <2>1. CASE r = None
    BY <2>1 DEF Fresh
  <2>2. CASE r # None
    <3>1. r \in Nat /\ s \in Nat /\ (s = r + 1 \/ s > 2 * MinSignalInterval + MaxSkew)
      BY <2>2, TickedEntry
    <3> QED
      BY <2>2, <3>1, Numbers DEF Fresh
  <2> QED
    BY <2>1, <2>2
<1>6. ASSUME NEW a \in Recent
      PROVE  /\ b[a] <= TwoRounds * l[a]
             /\ l[a] # 0 /\ s # None => s <= a + MaxSkew
             /\ l[a] # 0 \/ Fresh(s)
                   => l[a] + Cardinality(D) < Cardinality(Consumers)
  <2>1. CASE a = 0
    <3>1. b[a] = 0 /\ l[a] = 0
      BY <2>1
    <3>2. TwoRounds * l[a] = 0
      BY <1>3, <3>1, OneMoreRound
    <3>3. Fresh(s) => losses[0] + Cardinality(D) < Cardinality(Consumers)
      BY <1>2, <1>5 DEF LossSound
    <3>4. losses[0] \in Nat
      BY <1>2
    <3> QED
      BY <1>3, <3>1, <3>2, <3>3, <3>4
  <2>2. CASE a # 0
    <3>1. PICK k \in Recent : k = a - 1 /\ a = k + 1 /\ k \in Nat
      BY <1>1, <2>2, Numbers
    <3>2. b[a] = before[k] /\ l[a] = losses[k]
      BY <2>2, <3>1
    <3>3. /\ before[k] <= TwoRounds * losses[k]
          /\ losses[k] # 0 /\ r # None => r <= k + MaxSkew
          /\ losses[k] # 0 \/ Fresh(r)
                => losses[k] + Cardinality(D) < Cardinality(Consumers)
      BY DEF LossSound
    <3>4. l[a] # 0 /\ s # None => s <= a + MaxSkew
      BY <1>4, <3>1, <3>2, <3>3, Numbers
    <3> QED
      BY <1>5, <3>2, <3>3, <3>4
  <2> QED
    BY <2>1, <2>2
<1> QED
  BY <1>2, <1>6 DEF LossSound

-----------------------------------------------------------------------------
(* Consumers that have found an entry expired and not deleted it yet. *)
Doomed(f) == {c \in Consumers : pc[c] = "delete" /\ doomed[c] = f}

LossInv ==
    /\ doomed = [c \in Consumers |-> doomed[c]]
    /\ earlier \in [Fingerprints -> [Recent -> Nat]]
    /\ lost \in [Fingerprints -> [Recent -> Nat]]
    /\ \A f \in Fingerprints :
          LossSound(earlier[f], lost[f], Doomed(f), recentSignals[f])

LEMMA EmptyLosses == TelemetryInit => LossInv
<1> USE TelemetryAssumption
<1> SUFFICES ASSUME TelemetryInit PROVE LossInv
  OBVIOUS
<1>1. TwoRounds \in Nat /\ TwoRounds * 0 = 0
  BY Numbers, OneMoreRound DEF TwoRounds
<1>2. ASSUME NEW f \in Fingerprints
      PROVE  LossSound(earlier[f], lost[f], Doomed(f), recentSignals[f])
  <2>1. \A a \in Recent : earlier[f][a] = 0 /\ lost[f][a] = 0
    BY DEF TelemetryInit, Never
  <2>2. recentSignals[f] = None
    BY DEF TelemetryInit, NoSignals
  <2> QED
    BY <1>1, <2>1, <2>2 DEF LossSound, Fresh
<1> QED
  BY <1>2 DEF LossInv, TelemetryInit, Never

(* Steps that leave the map alone and make nobody delete. *)
LEMMA QuietLosses ==
    ASSUME TelemetryAssumption, LossInv, UNCHANGED <<recentSignals, doomed, earlier, lost>>,
           \A c \in Consumers : pc'[c] = "delete" => pc[c] = "delete"
    PROVE  LossInv'
<1>1. ASSUME NEW f \in Fingerprints
      PROVE  LossSound(earlier[f], lost[f], Doomed(f)', recentSignals[f])
  <2>1. Doomed(f)' \in SUBSET Doomed(f) /\ Doomed(f) \in SUBSET Consumers
    BY DEF Doomed
  <2>2. /\ LossSound(earlier[f], lost[f], Doomed(f), recentSignals[f])
        /\ lost[f] \in [Recent -> Nat]
    BY DEF LossInv
  <2> QED
    BY <2>1, <2>2, FewerDoomed
<1> QED
  BY <1>1 DEF LossInv

LEMMA RecordingKeepsLosses ==
    ASSUME TelemetryAssumption, FilterInv, LossInv, NEW c \in Consumers, RecordSignal(c)
    PROVE  LossInv'
<1>1. /\ UNCHANGED <<doomed, earlier, lost>> /\ pc' = [pc EXCEPT ![c] = "filter"]
      /\ pc[c] = "record" /\ pc = [d \in Consumers |-> pc[d]]
      /\ nowAge[c] \in 0..MaxSkew
      /\ recentSignals' = [recentSignals EXCEPT ![Head(raw[c])] = nowAge[c]]
      /\ recentSignals \in [Fingerprints -> Ages \cup {None}]
  BY DEF RecordSignal, GoTo, FilterInv, FilterTyped, AgesOfReadings
<1>2. \A f : Doomed(f)' = Doomed(f) /\ c \notin Doomed(f) /\ Doomed(f) \in SUBSET Consumers
  BY <1>1 DEF Doomed
<1>3. ASSUME NEW f \in Fingerprints
      PROVE  LossSound(earlier[f], lost[f], Doomed(f), recentSignals'[f])
  <2>1. /\ LossSound(earlier[f], lost[f], Doomed(f), recentSignals[f])
        /\ lost[f] \in [Recent -> Nat]
    BY DEF LossInv
  <2>2. recentSignals'[f] = recentSignals[f] \/ recentSignals'[f] = nowAge[c]
    BY <1>1
  <2> QED
    BY <1>1, <1>2, <2>1, <2>2, RecordKeepsLosses
<1> QED
  BY <1>1, <1>2, <1>3 DEF LossInv

LEMMA FindExpiredKeepsLosses ==
    ASSUME TelemetryAssumption, FilterInv, LossInv, NEW c \in Consumers, FindExpired(c)
    PROVE  LossInv'
<1>1. PICK g \in Fingerprints : Expired(c, g) /\ doomed' = [doomed EXCEPT ![c] = g]
  BY DEF FindExpired
<1>2. /\ UNCHANGED <<recentSignals, earlier, lost>> /\ pc' = [pc EXCEPT ![c] = "delete"]
      /\ pc = [d \in Consumers |-> pc[d]] /\ doomed = [d \in Consumers |-> doomed[d]]
      /\ pc[c] = "filter"
  BY DEF FindExpired, GoTo, histories, FilterInv, FilterTyped, LossInv
<1>3. ASSUME NEW f \in Fingerprints
      PROVE  LossSound(earlier[f], lost[f], Doomed(f)', recentSignals[f])
  <2>1. /\ LossSound(earlier[f], lost[f], Doomed(f), recentSignals[f])
        /\ lost[f] \in [Recent -> Nat] /\ recentSignals[f] \in Ages \cup {None}
    BY DEF LossInv, FilterInv, FilterTyped
  <2>2. CASE f = g
    <3>1. nowAge[c] \in Nat /\ recentSignals[f] \in Nat
      BY <1>1, <2>1, <2>2, Numbers DEF FilterInv, FilterTyped, AgesOfReadings, Expired
    <3>2. recentSignals[f] > 2 * MinSignalInterval
      BY <1>1, <2>2, <3>1, Numbers DEF Expired
    <3> QED
      BY <2>1, <3>1, <3>2, FindingKeepsLosses
  <2>3. CASE f # g
    <3>1. Doomed(f)' = Doomed(f)
      BY <1>1, <1>2, <2>3 DEF Doomed
    <3> QED
      BY <2>1, <3>1
  <2> QED
    BY <2>2, <2>3
<1>4. doomed' = [d \in Consumers |-> doomed'[d]]
  BY <1>1, <1>2
<1> QED
  BY <1>2, <1>3, <1>4 DEF LossInv

LEMMA DeletionKeepsLosses ==
    ASSUME TelemetryAssumption, FilterInv, LossInv, NEW c \in Consumers, DeleteSignal(c)
    PROVE  LossInv'
<1>1. PICK g : g = doomed[c]
  OBVIOUS
<1>2. /\ pc' = [pc EXCEPT ![c] = "filter"] /\ pc[c] = "delete"
      /\ pc = [d \in Consumers |-> pc[d]] /\ doomed = [d \in Consumers |-> doomed[d]]
      /\ doomed' = [doomed EXCEPT ![c] = None]
      /\ recentSignals' = [recentSignals EXCEPT ![g] = None]
      /\ recentSignals \in [Fingerprints -> Ages \cup {None}]
      /\ Live(g) => LoseEntry(g)
      /\ ~Live(g) => UNCHANGED <<earlier, lost>>
  BY <1>1 DEF DeleteSignal, GoTo, histories, FilterInv, FilterTyped, LossInv
<1>3. /\ earlier \in [Fingerprints -> [Recent -> Nat]]
      /\ lost \in [Fingerprints -> [Recent -> Nat]]
  BY DEF LossInv
<1>4. /\ \A f : f # g => Doomed(f)' = Doomed(f)
      /\ Doomed(g)' = Doomed(g) \ {c} /\ c \in Doomed(g)
      /\ \A f : Doomed(f) \in SUBSET Consumers
  BY <1>1, <1>2 DEF Doomed
<1>5. doomed' = [d \in Consumers |-> doomed'[d]]
  BY <1>2
<1>6. CASE ~Live(g)
  <2>1. ASSUME NEW f \in Fingerprints
        PROVE  LossSound(earlier[f], lost[f], Doomed(f)', recentSignals'[f])
    <3>1. LossSound(earlier[f], lost[f], Doomed(f), recentSignals[f])
      BY DEF LossInv
    <3>2. recentSignals'[f] = recentSignals[f] \/ recentSignals'[f] = None
      BY <1>2
    <3>3. LossSound(earlier[f], lost[f], Doomed(f), recentSignals'[f])
      BY <3>1, <3>2, NoEntryKeepsLosses
    <3>4. Doomed(f)' \in SUBSET Doomed(f)
      BY <1>4
    <3> QED
      BY <1>3, <1>4, <3>3, <3>4, FewerDoomed
  <2> QED
    BY <1>2, <1>3, <1>5, <1>6, <2>1 DEF LossInv
<1>7. CASE Live(g)
  <2> DEFINE passes == [a \in Recent |-> Cardinality(PassedWithin(g, a))]
             b == [a \in Recent |-> earlier[g][a] + passes[a]]
             l == [a \in Recent |-> lost[g][a] + 1]
  <2>1. earlier' = [earlier EXCEPT ![g] = b] /\ lost' = [lost EXCEPT ![g] = l]
    BY <1>2, <1>7 DEF LoseEntry
  <2>2. g \in Fingerprints =>
           /\ passes \in [Recent -> Nat]
           /\ \A a \in Recent : passes[a] <= TwoRounds
    BY FilterBounds DEF TwoRounds
  <2> HIDE DEF passes
  <2>3. g \in Fingerprints => b \in [Recent -> Nat] /\ l \in [Recent -> Nat]
    BY <1>3, <2>2
  <2>4. g \in Fingerprints => LossSound(b, l, Doomed(g) \ {c}, None)
    <3> SUFFICES ASSUME g \in Fingerprints
                 PROVE  LossSound(b, l, Doomed(g) \ {c}, None)
      OBVIOUS
    <3>1. LossSound(earlier[g], lost[g], Doomed(g), recentSignals[g])
      BY DEF LossInv
    <3>2. Fresh(recentSignals[g])
      BY <1>7 DEF Live, Fresh
    <3>3. earlier[g] \in [Recent -> Nat] /\ lost[g] \in [Recent -> Nat]
      BY <1>3
    <3> HIDE DEF b, l
    <3>4. b = [a \in Recent |-> earlier[g][a] + passes[a]]
      BY DEF b
    <3>5. l = [a \in Recent |-> lost[g][a] + 1]
      BY DEF l
    <3> QED
      BY <1>4, <2>2, <3>1, <3>2, <3>3, <3>4, <3>5, LosingIsSound
  <2> HIDE DEF b, l
  <2>5. ASSUME NEW f \in Fingerprints
        PROVE  LossSound(earlier'[f], lost'[f], Doomed(f)', recentSignals'[f])
    <3>1. CASE f = g
      <4>1. earlier'[f] = b /\ lost'[f] = l /\ recentSignals'[f] = None
        BY <1>2, <1>3, <2>1, <3>1
      <4> QED
        BY <1>4, <2>4, <3>1, <4>1
    <3>2. CASE f # g
      <4>1. /\ earlier'[f] = earlier[f] /\ lost'[f] = lost[f]
            /\ recentSignals'[f] = recentSignals[f] /\ Doomed(f)' = Doomed(f)
        BY <1>2, <1>3, <1>4, <2>1, <3>2
      <4> QED
        BY <4>1 DEF LossInv
    <3> QED
      BY <3>1, <3>2
  <2>6. /\ earlier' \in [Fingerprints -> [Recent -> Nat]]
        /\ lost' \in [Fingerprints -> [Recent -> Nat]]
    BY <1>3, <2>1, <2>3
  <2> QED
    BY <1>5, <2>5, <2>6 DEF LossInv
<1> QED
  BY <1>6, <1>7

LEMMA TimeKeepsLosses ==
    ASSUME TelemetryAssumption, FilterInv, LossInv, Tick
    PROVE  LossInv'
<1>1. ASSUME NEW f \in Fingerprints
      PROVE  /\ earlier'[f] \in [Recent -> Nat] /\ lost'[f] \in [Recent -> Nat]
             /\ LossSound(earlier'[f], lost'[f], Doomed(f), recentSignals'[f])
  <2>1. /\ LossSound(earlier[f], lost[f], Doomed(f), recentSignals[f])
        /\ earlier[f] \in [Recent -> Nat] /\ lost[f] \in [Recent -> Nat]
        /\ recentSignals[f] \in Ages \cup {None} /\ Doomed(f) \in SUBSET Consumers
    BY DEF LossInv, FilterInv, FilterTyped, Doomed
  <2>2. earlier'[f] = [a \in Recent |-> IF a = 0 THEN 0 ELSE earlier[f][a - 1]]
    BY DEF Tick, OneTickOlder
  <2>3. lost'[f] = [a \in Recent |-> IF a = 0 THEN 0 ELSE lost[f][a - 1]]
    BY DEF Tick, OneTickOlder
  <2>4. recentSignals'[f] = IF recentSignals[f] = None THEN None ELSE Older(recentSignals[f])
    BY DEF Tick
  <2> QED
    BY <2>1, <2>2, <2>3, <2>4, TickKeepsLosses
<1>2. \A f : Doomed(f)' = Doomed(f)
  BY DEF Tick, Doomed
<1>3. /\ earlier' \in [Fingerprints -> [Recent -> Nat]]
      /\ lost' \in [Fingerprints -> [Recent -> Nat]]
  BY <1>1 DEF Tick, OneTickOlder
<1>4. doomed' = [c \in Consumers |-> doomed'[c]]
  BY DEF Tick, LossInv
<1> QED
  BY <1>1, <1>2, <1>3, <1>4 DEF LossInv

LEMMA ConsumerKeepsLosses ==
    ASSUME TelemetryAssumption, FilterInv, LossInv, NEW c \in Consumers, ConsumerStep(c)
    PROVE  LossInv'
<1>1. CASE Suppress(c) \/ Pass(c) \/ CleanupDone(c) \/ CreateIncident(c) \/ CreateFails(c)
              \/ AttachSignal(c) \/ BatchDone(c)
  <2>1. UNCHANGED <<recentSignals, doomed, earlier, lost>>
    BY <1>1 DEF Suppress, Pass, CleanupDone, CreateIncident, CreateFails, AttachSignal,
       BatchDone, NextSignal, histories
  <2>2. \A d \in Consumers : pc'[d] = "delete" => pc[d] = "delete"
    BY <1>1 DEF Suppress, Pass, CleanupDone, CreateIncident, CreateFails, AttachSignal,
       BatchDone, NextSignal, GoTo, FilterInv, FilterTyped
  <2> QED
    BY <2>1, <2>2, QuietLosses
<1> QED
  BY <1>1, RecordingKeepsLosses, FindExpiredKeepsLosses, DeletionKeepsLosses
     DEF ConsumerStep

LEMMA LossKept ==
    ASSUME TelemetryAssumption, FilterInv, LossInv, [Next]_vars PROVE LossInv'
<1>1. CASE UNCHANGED telemetryVars
  BY <1>1, QuietLosses DEF telemetryVars, histories
<1>2. CASE \E how : ExitWith(how)
  <2>1. TelemetryInit'
    BY <1>2 DEF ExitWith, TelemetryEnds, TelemetryInit
  <2>2. (TelemetryInit => LossInv)'
    BY EmptyLosses, PTL
  <2> QED
    BY <2>1, <2>2
<1>3. ASSUME NEW c \in Consumers, Work(c) PROVE LossInv'
  BY <1>3, ConsumerKeepsLosses DEF Work
<1>4. ASSUME NEW c \in Consumers, NEW batch \in Batches, ReceiveBatch(c, batch)
      PROVE  LossInv'
  <2>1. UNCHANGED <<recentSignals, doomed, earlier, lost>>
    BY <1>4 DEF ReceiveBatch, Consume, histories
  <2>2. \A d \in Consumers : pc'[d] = "delete" => pc[d] = "delete"
    BY <1>4 DEF ReceiveBatch, Consume, GoTo, FilterInv, FilterTyped
  <2> QED
    BY <2>1, <2>2, QuietLosses
<1>5. CASE TimePasses
  BY <1>5, TimeKeepsLosses DEF TimePasses
<1>6. CASE UNCHANGED vars
  BY <1>1, <1>6 DEF vars, telemetryVars, histories
<1>7. CASE Main
  BY <1>1, <1>2, <1>7 DEF Main, StartReceiver, StartFails, SpawnListener,
     ReceiverStopped, ReceiverStopFails, ShutdownDone, ForcedClose
<1>8. CASE Listen \/ Signal \/ DeadlineExpires \/ BeginRequest \/ EndRequest
  BY <1>1, <1>8 DEF Listen, Signal, DeadlineExpires, BeginRequest, EndRequest
<1>9. CASE Crash
  BY <1>2, <1>9 DEF Crash
<1> QED
  BY <1>3, <1>4, <1>5, <1>6, <1>7, <1>8, <1>9 DEF Next

(* However many goroutines share the map without a mutex, and whatever the *)
(* server does, no more signals of a kind pass the filter within an        *)
(* interval than two rounds of the goroutines, less one, and as many again *)
(* for each entry that a cleanup deletes on an old reading, which is fewer *)
(* than there are goroutines.                                              *)
THEOREM BurstsAreBounded == Spec => []BurstBounded
<1> USE TelemetryAssumption
<1>1. Init => FilterInv /\ LossInv
  BY EmptyFilter, EmptyLosses DEF Init
<1>2. FilterInv /\ LossInv /\ [Next]_vars => FilterInv' /\ LossInv'
  BY FilterKept, LossKept
<1>3. FilterInv /\ LossInv => BurstBounded
  <2> SUFFICES ASSUME FilterInv, LossInv, NEW f \in Fingerprints,
                      NEW last, last = MinSignalInterval - 1
               PROVE  /\ Cardinality(PassedWithin(f, last)) + earlier[f][last]
                            <= (2 * Cardinality(Consumers) - 1) * (1 + lost[f][last])
                      /\ lost[f][last] < Cardinality(Consumers)
    BY DEF BurstBounded
  <2>1. last \in Recent
    BY Numbers
  <2>2. PICK passes \in Nat, before \in Nat, losses \in Nat :
           /\ passes = Cardinality(PassedWithin(f, last)) /\ passes <= TwoRounds
           /\ before = earlier[f][last] /\ losses = lost[f][last]
    BY <2>1, FilterBounds DEF LossInv, TwoRounds
  <2>3. /\ before <= TwoRounds * losses
        /\ losses # 0 => losses + Cardinality(Doomed(f)) < Cardinality(Consumers)
    BY <2>1, <2>2 DEF LossInv, LossSound
  <2>4. TwoRounds \in Nat /\ TwoRounds * (1 + losses) = TwoRounds * losses + TwoRounds
    BY <2>2, OneMoreRound, Numbers DEF TwoRounds
  <2>5. passes + before <= TwoRounds * (1 + losses)
    <3>1. PICK k \in Int : k = TwoRounds * losses
      BY <2>2, <2>4
    <3>2. before <= k /\ TwoRounds * (1 + losses) = k + TwoRounds
      BY <2>3, <2>4, <3>1
    <3>3. passes + before <= k + TwoRounds
      BY <2>2, <2>4, <3>1, <3>2
    <3> QED
      BY <3>2, <3>3
  <2>6. Cardinality(Doomed(f)) \in Nat
    BY Count DEF Doomed, TelemetryAssumption
  <2>7. losses < Cardinality(Consumers)
    BY <2>2, <2>3, <2>6, Numbers
  <2> QED
    BY <2>2, <2>5, <2>7 DEF TwoRounds
<1> QED
  BY <1>1, <1>2, <1>3, PTL DEF Spec

-----------------------------------------------------------------------------
(* Induction over finite sets and over numbers, as the existence of least *)
(* counterexamples.                                                        *)
LEMMA LeastSubset ==
    ASSUME NEW D, IsFiniteSet(D), NEW W \in SUBSET (SUBSET D), W # {}
    PROVE  \E x \in W : \A y \in W : y \subseteq x => y = x
<1>1. W \subseteq FiniteSubsetsOf(D)
  BY FS_Subset DEF FiniteSubsetsOf
<1>2. \E x \in W : \A y \in W : ~ <<y, x>> \in StrictSubsetOrdering(D)
  BY <1>1, FS_StrictSubsetOrderingWellFounded, WFMin
<1> QED
  BY <1>2 DEF StrictSubsetOrdering

LEMMA LeastNatural ==
    ASSUME NEW T \in SUBSET Nat, T # {}
    PROVE  \E n \in T : \A m \in T : n <= m
<1>1. PICK bound \in T : TRUE
  OBVIOUS
<1> DEFINE Below == {0..n : n \in {m \in T : m <= bound}}
<1>2. Below \in SUBSET (SUBSET (0..bound)) /\ 0..bound \in Below
  BY <1>1
<1>3. PICK x \in Below : \A y \in Below : y \subseteq x => y = x
  <2>1. IsFiniteSet(0..bound)
    BY <1>1, FS_Interval
  <2>2. PICK D : D = 0..bound
    OBVIOUS
  <2>3. IsFiniteSet(D) /\ Below \in SUBSET (SUBSET D) /\ Below # {}
    BY <1>2, <2>1, <2>2
  <2> HIDE DEF Below
  <2> QED
    BY <2>3, LeastSubset
<1>5. PICK n \in T : n <= bound /\ x = 0..n
  BY <1>3
<1>4. ASSUME NEW m \in T, m < n PROVE FALSE
  <2>1. m <= bound /\ 0..m \subseteq 0..n
    BY <1>1, <1>4, <1>5
  <2>2. 0..m = 0..n
    BY <1>3, <1>5, <2>1
  <2>3. n \in 0..n /\ n \notin 0..m
    BY <1>4
  <2> QED
    BY <2>2, <2>3
<1> QED
  BY <1>4

(* The recursion of FlattenSeq, up to n. *)
JoinedTo(seqs, n, flatten) ==
    flatten = [i \in 1..n |->
                  IF i = 1 THEN seqs[i] ELSE flatten[i - 1] \o seqs[i]]

(* It defines something, *)
LEMMA JoinedExists ==
    ASSUME NEW seqs, NEW n \in Nat
    PROVE  \E flatten : JoinedTo(seqs, n, flatten)
<1> DEFINE Fails == {m \in Nat : ~ \E flatten : JoinedTo(seqs, m, flatten)}
<1>1. JoinedTo(seqs, 0, [i \in 1..0 |-> <<>>])
  BY DEF JoinedTo
<1>2. ASSUME NEW m \in Nat, NEW flatten, JoinedTo(seqs, m, flatten)
      PROVE  \E g : JoinedTo(seqs, m + 1, g)
  <2> DEFINE g == [i \in 1..(m + 1) |->
                      IF i = 1 THEN seqs[i] ELSE flatten[i - 1] \o seqs[i]]
  <2>1. ASSUME NEW i \in 1..m PROVE g[i] = flatten[i]
    <3>1. flatten[i] = IF i = 1 THEN seqs[i] ELSE flatten[i - 1] \o seqs[i]
      BY <1>2 DEF JoinedTo
    <3> QED
      BY <3>1
  <2>2. ASSUME NEW i \in 1..(m + 1), i # 1 PROVE g[i] = g[i - 1] \o seqs[i]
    <3>1. i - 1 \in 1..m
      BY <2>2
    <3> QED
      BY <2>1, <2>2, <3>1
  <2>3. g[1] = seqs[1]
    OBVIOUS
  <2>4. JoinedTo(seqs, m + 1, g)
    BY <2>2, <2>3 DEF JoinedTo
  <2> QED
    BY <2>4
<1>3. Fails = {}
  <2> SUFFICES ASSUME Fails # {} PROVE FALSE
    OBVIOUS
  <2>1. PICK m \in Fails : \A k \in Fails : m <= k
    BY LeastNatural
  <2>2. m # 0
    BY <1>1
  <2>3. m - 1 \in Nat /\ m - 1 \notin Fails
    BY <2>1, <2>2
  <2>4. \E g : JoinedTo(seqs, (m - 1) + 1, g)
    BY <1>2, <2>3
  <2> QED
    BY <2>4
<1> QED
  BY <1>3

(* and no element is lost or added. *)
LEMMA FlattenRange ==
    ASSUME NEW S, NEW n \in Nat, NEW seqs \in [1..n -> Seq(S)]
    PROVE  /\ FlattenSeq(seqs) \in Seq(S)
           /\ Range(FlattenSeq(seqs)) = UNION {Range(seqs[k]) : k \in 1..n}
<1> DEFINE flatten == CHOOSE g : JoinedTo(seqs, n, g)
<1>1. Len(seqs) = n
  OBVIOUS
<1>2. CASE n = 0
  <2>1. FlattenSeq(seqs) = seqs /\ DOMAIN seqs = {}
    BY <1>1, <1>2 DEF FlattenSeq
  <2> QED
    BY <1>2, <2>1 DEF Range
<1>3. CASE n # 0
  <2>1. FlattenSeq(seqs) = flatten[n]
    BY <1>1, <1>3 DEF FlattenSeq, JoinedTo
  <2>2. JoinedTo(seqs, n, flatten)
    BY JoinedExists
  <2> DEFINE AllJoined(i) == /\ flatten[i] \in Seq(S)
                             /\ Range(flatten[i]) = UNION {Range(seqs[k]) : k \in 1..i}
             Fails == {i \in 1..n : ~AllJoined(i)}
  <2> HIDE DEF flatten
  <2>3. AllJoined(1)
    <3>1. flatten[1] = seqs[1] /\ 1..1 = {1}
      BY <1>3, <2>2 DEF JoinedTo
    <3>2. UNION {Range(seqs[k]) : k \in 1..1} = Range(seqs[1])
      BY <3>1
    <3> QED
      BY <1>3, <3>1, <3>2
  <2>4. ASSUME NEW i \in 1..n, i # 1, AllJoined(i - 1) PROVE AllJoined(i)
    <3>1. flatten[i] = flatten[i - 1] \o seqs[i] /\ seqs[i] \in Seq(S)
      BY <2>2, <2>4 DEF JoinedTo
    <3>2. flatten[i] \in Seq(S) /\ Range(flatten[i]) = Range(flatten[i - 1]) \cup Range(seqs[i])
      BY <2>4, <3>1, RangeConcatenation
    <3>3. UNION {Range(seqs[k]) : k \in 1..i}
             = (UNION {Range(seqs[k]) : k \in 1..(i - 1)}) \cup Range(seqs[i])
      <4>1. 1..i = (1..(i - 1)) \cup {i}
        BY <2>4
      <4> QED
        BY <4>1
    <3> QED
      BY <2>4, <3>2, <3>3
  <2>5. Fails = {}
    <3> SUFFICES ASSUME Fails # {} PROVE FALSE
      OBVIOUS
    <3>1. Fails \in SUBSET Nat
      OBVIOUS
    <3>2. PICK i \in Fails : \A k \in Fails : i <= k
      <4> HIDE DEF Fails
      <4> QED
        BY <3>1, LeastNatural
    <3> HIDE DEF AllJoined
    <3>3. i # 1 /\ i - 1 \in 1..n /\ i - 1 \notin Fails
      BY <2>3, <3>2
    <3> QED
      BY <2>4, <3>2, <3>3
  <2>6. AllJoined(n)
    <3> HIDE DEF AllJoined
    <3> QED
      BY <1>3, <2>5
  <2> QED
    BY <2>1, <2>6
<1> QED
  BY <1>2, <1>3

-----------------------------------------------------------------------------
(* Extraction from spans: a counter only grows while it lives, and at the  *)
(* last resource of a service it has seen all of its spans.                *)

LEMMA CountedFinite ==
    ASSUME NEW resources \in Seq(ResourceSpans), NEW ks \in SUBSET (DOMAIN resources), NEW map
    PROVE  /\ IsFiniteSet(Counted(resources, ks, map))
           /\ Cardinality(Counted(resources, ks, map)) \in Nat
<1> DEFINE ofResource == [k \in ks |->
              {k} \X {i \in DOMAIN resources[k].spans : Counts(resources[k].spans[i], map)}]
           Parts == {ofResource[k] : k \in ks}
<1>1. IsFiniteSet(ks)
  <2>1. DOMAIN resources = 1..Len(resources) /\ Len(resources) \in Nat
    OBVIOUS
  <2>2. IsFiniteSet(DOMAIN resources)
    BY <2>1, FS_Interval
  <2> QED
    BY <2>2, FS_Subset
<1>2. IsFiniteSet(Parts)
  <2>1. ofResource \in Surjection(ks, Parts)
    BY DEF Surjection
  <2> HIDE DEF ofResource, Parts
  <2> QED
    BY <1>1, <2>1, FS_Surjection
<1>3. ASSUME NEW part \in Parts PROVE IsFiniteSet(part)
  <2>1. PICK k \in ks : part = ofResource[k]
    OBVIOUS
  <2>2. resources[k] \in ResourceSpans
    OBVIOUS
  <2>3. PICK spans \in Seq([failed : BOOLEAN, duration : Int]) : spans = resources[k].spans
    BY <2>2 DEF ResourceSpans
  <2>4. IsFiniteSet(DOMAIN spans)
    <3>1. DOMAIN spans = 1..Len(spans) /\ Len(spans) \in Nat
      OBVIOUS
    <3> QED
      BY <3>1, FS_Interval
  <2>5. IsFiniteSet({k} \X DOMAIN spans)
    BY <2>4, FS_Singleton, FS_Product
  <2>6. part \in SUBSET ({k} \X DOMAIN spans)
    BY <2>1, <2>3
  <2> QED
    BY <2>5, <2>6, FS_Subset
<1>4. Counted(resources, ks, map) = UNION Parts
  BY DEF Counted
<1>5. IsFiniteSet(UNION Parts)
  <2> HIDE DEF Parts
  <2> QED
    BY <1>2, <1>3, FS_UNION
<1> QED
  BY <1>4, <1>5, FS_CardinalityType

LEMMA CountedGrows ==
    ASSUME NEW resources \in Seq(ResourceSpans), NEW map,
           NEW ks \in SUBSET (DOMAIN resources), NEW js \in SUBSET ks
    PROVE  Cardinality(Counted(resources, js, map)) <= Cardinality(Counted(resources, ks, map))
<1>1. Counted(resources, js, map) \in SUBSET Counted(resources, ks, map)
  BY DEF Counted
<1> QED
  BY <1>1, CountedFinite, FS_Subset

LEMMA LastOf ==
    ASSUME NEW n \in Nat, NEW K \in SUBSET (1..n), K # {}
    PROVE  \E k \in K : \A j \in K : j <= k
<1> DEFINE Behind == {n - k : k \in K}
<1>1. Behind \in SUBSET Nat /\ Behind # {}
  <2>1. ASSUME NEW k \in K PROVE n - k \in Nat
    <3>1. k \in 1..n
      OBVIOUS
    <3> QED
      BY <3>1
  <2> QED
    BY <2>1
<1>2. PICK b \in Behind : \A c \in Behind : b <= c
  <2> HIDE DEF Behind
  <2> QED
    BY <1>1, LeastNatural
<1>3. PICK k \in K : b = n - k
  OBVIOUS
<1>4. ASSUME NEW j \in K PROVE j <= k
  <2>1. n - k <= n - j
    BY <1>2, <1>3
  <2> QED
    BY <2>1
<1> QED
  BY <1>4

(* Resources at which a counter has reached the threshold. *)
Reached(resources, map) ==
    {k \in DOMAIN resources : CountUpTo(resources, k, map) >= ErrorSpanThreshold}

LEMMA ReachedIsOverloaded ==
    ASSUME NEW resources \in Seq(ResourceSpans), NEW map
    PROVE  {resources[k].service : k \in Reached(resources, map)} = Overloaded(resources, map)
<1> DEFINE Of(s) == {k \in DOMAIN resources : resources[k].service = s}
           UpTo(k) == {j \in 1..k : resources[j].service = resources[k].service}
<1>0. DOMAIN resources = 1..Len(resources) /\ Len(resources) \in Nat
  OBVIOUS
<1>1. ErrorSpanThreshold \in Nat
  BY ThresholdAssumption
<1>2. ASSUME NEW k \in Reached(resources, map)
      PROVE  resources[k].service \in Overloaded(resources, map)
  <2>1. k \in DOMAIN resources /\ UpTo(k) \in SUBSET Of(resources[k].service)
    BY <1>0 DEF Reached
  <2>2. Cardinality(Counted(resources, UpTo(k), map)) >= ErrorSpanThreshold
    BY DEF Reached, CountUpTo
  <2>3. Of(resources[k].service) \in SUBSET (DOMAIN resources)
    OBVIOUS
  <2>4. Cardinality(Counted(resources, UpTo(k), map))
          <= Cardinality(Counted(resources, Of(resources[k].service), map))
    BY <2>1, <2>3, CountedGrows
  <2>5. /\ Cardinality(Counted(resources, UpTo(k), map)) \in Nat
        /\ Cardinality(Counted(resources, Of(resources[k].service), map)) \in Nat
    BY <2>1, <2>3, CountedFinite
  <2>6. Cardinality(Counted(resources, Of(resources[k].service), map)) >= ErrorSpanThreshold
    BY <1>1, <2>2, <2>4, <2>5
  <2> QED
    BY <2>1, <2>6 DEF Overloaded
<1>3. ASSUME NEW s \in Overloaded(resources, map)
      PROVE  \E k \in Reached(resources, map) : s = resources[k].service
  <2>1. /\ \E k \in DOMAIN resources : s = resources[k].service
        /\ Cardinality(Counted(resources, Of(s), map)) >= ErrorSpanThreshold
    BY DEF Overloaded
  <2>2. PICK k \in Of(s) : \A j \in Of(s) : j <= k
    <3>1. PICK K : K = Of(s)
      OBVIOUS
    <3>2. K \in SUBSET (1..Len(resources)) /\ K # {}
      BY <1>0, <2>1, <3>1
    <3>3. \E k \in K : \A j \in K : j <= k
      BY <1>0, <3>2, LastOf
    <3> QED
      BY <3>1, <3>3
  <2>3. UpTo(k) = Of(s)
    BY <1>0, <2>2
  <2>4. k \in Reached(resources, map)
    BY <2>1, <2>3 DEF Reached, CountUpTo
  <2> QED
    BY <2>4
<1> QED
  BY <1>2, <1>3

LEMMA OneSignal ==
    ASSUME NEW S, NEW signal \in S, NEW condition \in BOOLEAN
    PROVE  /\ If(condition, signal) \in Seq(S)
           /\ Range(If(condition, signal)) = IF condition THEN {signal} ELSE {}
<1>1. CASE condition
  <2>1. If(condition, signal) = <<signal>>
    BY <1>1 DEF If
  <2>2. Range(<<signal>>) = {signal}
    BY DEF Range
  <2>3. <<signal>> \in Seq(S)
    OBVIOUS
  <2> QED
    BY <1>1, <2>1, <2>2, <2>3
<1>2. CASE ~condition
  <2>1. If(condition, signal) = <<>>
    BY <1>2 DEF If
  <2>2. Range(<<>>) = {}
    BY DEF Range
  <2>3. <<>> \in Seq(S)
    OBVIOUS
  <2> QED
    BY <1>2, <2>1, <2>2, <2>3
<1> QED
  BY <1>1, <1>2

LEMMA ExtractionExact ==
    ASSUME NEW resources \in Seq(ResourceSpans)
    PROVE  ExtractedExactly(resources)
<1> DEFINE n == Len(resources)
           failing(k) == Fingerprint("otlp_traces", resources[k].service, "trace_errors")
           slow(k) == Fingerprint("otlp_traces", resources[k].service, "slow_spans")
           Named == {failing(k) : k \in 1..n} \cup {slow(k) : k \in 1..n}
           seqs == [k \in 1..n |->
              If(CountUpTo(resources, k, "errors") >= ErrorSpanThreshold, failing(k))
              \o If(CountUpTo(resources, k, "slow") >= ErrorSpanThreshold, slow(k))]
<1>1. DOMAIN resources = 1..n /\ n \in Nat
  OBVIOUS
<1>2. ASSUME NEW k \in 1..n
      PROVE  /\ seqs[k] \in Seq(Named)
             /\ \A f : f \in Range(seqs[k]) <=>
                          \/ k \in Reached(resources, "errors") /\ f = failing(k)
                          \/ k \in Reached(resources, "slow") /\ f = slow(k)
  <2> DEFINE fails == CountUpTo(resources, k, "errors") >= ErrorSpanThreshold
             drags == CountUpTo(resources, k, "slow") >= ErrorSpanThreshold
  <2>1. failing(k) \in Named /\ slow(k) \in Named
    OBVIOUS
  <2>2. fails \in BOOLEAN /\ drags \in BOOLEAN
    OBVIOUS
  <2>3. /\ fails <=> k \in Reached(resources, "errors")
        /\ drags <=> k \in Reached(resources, "slow")
    BY <1>1 DEF Reached
  <2>4. seqs[k] = If(fails, failing(k)) \o If(drags, slow(k))
    OBVIOUS
  <2> HIDE DEF fails, drags, failing, slow, Named, seqs
  <2>5. /\ If(fails, failing(k)) \in Seq(Named)
        /\ Range(If(fails, failing(k))) = IF fails THEN {failing(k)} ELSE {}
    BY <2>1, <2>2, OneSignal
  <2>6. /\ If(drags, slow(k)) \in Seq(Named)
        /\ Range(If(drags, slow(k))) = IF drags THEN {slow(k)} ELSE {}
    BY <2>1, <2>2, OneSignal
  <2>7. /\ seqs[k] \in Seq(Named)
        /\ Range(seqs[k]) = Range(If(fails, failing(k))) \cup Range(If(drags, slow(k)))
    BY <2>4, <2>5, <2>6, RangeConcatenation
  <2> QED
    BY <2>3, <2>5, <2>6, <2>7
<1>3. ProcessTraces(resources) = FlattenSeq(seqs)
  BY <1>1 DEF ProcessTraces
<1>4. Range(FlattenSeq(seqs)) = UNION {Range(seqs[k]) : k \in 1..n}
  <2>1. seqs \in [1..n -> Seq(Named)]
    <3>1. seqs = [k \in 1..n |-> seqs[k]]
      OBVIOUS
    <3> HIDE DEF seqs, Named
    <3> QED
      BY <1>2, <3>1
  <2> HIDE DEF seqs, Named
  <2> QED
    BY <1>1, <2>1, FlattenRange
<1>5. UNION {Range(seqs[k]) : k \in 1..n}
         = {failing(k) : k \in Reached(resources, "errors")}
           \cup {slow(k) : k \in Reached(resources, "slow")}
  <2>1. /\ Reached(resources, "errors") \subseteq 1..n
        /\ Reached(resources, "slow") \subseteq 1..n
    BY <1>1 DEF Reached
  <2> HIDE DEF seqs, Named, failing, slow
  <2>2. \A f : f \in UNION {Range(seqs[k]) : k \in 1..n}
                <=> \E k \in 1..n : f \in Range(seqs[k])
    OBVIOUS
  <2>3. \A f : (\E k \in 1..n : f \in Range(seqs[k]))
                <=> \/ \E k \in Reached(resources, "errors") : f = failing(k)
                    \/ \E k \in Reached(resources, "slow") : f = slow(k)
    BY <1>2, <2>1
  <2> QED
    BY <2>2, <2>3
<1>6. /\ {failing(k) : k \in Reached(resources, "errors")}
           = {Fingerprint("otlp_traces", s, "trace_errors") :
                s \in Overloaded(resources, "errors")}
      /\ {slow(k) : k \in Reached(resources, "slow")}
           = {Fingerprint("otlp_traces", s, "slow_spans") :
                s \in Overloaded(resources, "slow")}
  <2>1. /\ {resources[k].service : k \in Reached(resources, "errors")}
              = Overloaded(resources, "errors")
        /\ {resources[k].service : k \in Reached(resources, "slow")}
              = Overloaded(resources, "slow")
    BY ReachedIsOverloaded
  <2> QED
    BY <2>1
<1> QED
  BY <1>3, <1>4, <1>5, <1>6 DEF ExtractedExactly

(* A batch of any length and order yields the signals of exactly the       *)
(* services that its spans overload.                                       *)
THEOREM TracesAreExact == Spec => []TracesExact
<1>1. TracesExact
  BY ExtractionExact, SpansAssumption DEF TracesExact
<1> QED
  BY <1>1, PTL

-----------------------------------------------------------------------------
(* Type correctness: what a batch yields is a sequence of signals, and     *)
(* what a consumer takes from it or records was there to be taken.         *)

LEMMA MaybeSignal ==
    ASSUME NEW S, NEW signal \in S, NEW s \in {<<>>, <<signal>>} PROVE s \in Seq(S)
<1>1. CASE s = <<>>
  BY <1>1
<1>2. CASE s = <<signal>>
  BY <1>2
<1> QED
  BY <1>1, <1>2

LEMMA MetricYields ==
    ASSUME NEW m, NEW S,
           \A type \in {"error_rate", "latency", "cpu", "memory"} :
              Fingerprint("otlp_metrics", m.service, type) \in S
    PROVE  checkErrorRateMetric(m) \o checkLatencyMetric(m) \o checkResourceMetric(m)
              \in Seq(S)
<1>1. checkErrorRateMetric(m) \in Seq(S)
  <2>1. checkErrorRateMetric(m)
          \in {<<>>, <<Fingerprint("otlp_metrics", m.service, "error_rate")>>}
    BY DEF checkErrorRateMetric, If
  <2> QED
    BY <2>1, MaybeSignal
<1>2. checkLatencyMetric(m) \in Seq(S)
  <2>1. checkLatencyMetric(m)
          \in {<<>>, <<Fingerprint("otlp_metrics", m.service, "latency")>>}
    BY DEF checkLatencyMetric, If
  <2> QED
    BY <2>1, MaybeSignal
<1>3. checkResourceMetric(m) \in Seq(S)
  <2>1. PICK s \in {<<>>, <<Fingerprint("otlp_metrics", m.service, "cpu")>>},
             t \in {<<>>, <<Fingerprint("otlp_metrics", m.service, "memory")>>} :
                checkResourceMetric(m) = s \o t
    BY DEF checkResourceMetric, If
  <2>2. s \in Seq(S) /\ t \in Seq(S)
    BY MaybeSignal
  <2> QED
    BY <2>1, <2>2, ConcatProperties
<1>4. checkErrorRateMetric(m) \o checkLatencyMetric(m) \in Seq(S)
  BY <1>1, <1>2, ConcatProperties
<1> QED
  BY <1>3, <1>4, ConcatProperties

LEMMA SpansYield ==
    ASSUME NEW resources, NEW k, NEW S,
           \A type \in {"trace_errors", "slow_spans"} :
              Fingerprint("otlp_traces", resources[k].service, type) \in S
    PROVE  If(CountUpTo(resources, k, "errors") >= ErrorSpanThreshold,
              Fingerprint("otlp_traces", resources[k].service, "trace_errors"))
           \o
           If(CountUpTo(resources, k, "slow") >= ErrorSpanThreshold,
              Fingerprint("otlp_traces", resources[k].service, "slow_spans"))
           \in Seq(S)
<1>1. PICK s \in {<<>>, <<Fingerprint("otlp_traces", resources[k].service, "trace_errors")>>} :
         s = If(CountUpTo(resources, k, "errors") >= ErrorSpanThreshold,
                Fingerprint("otlp_traces", resources[k].service, "trace_errors"))
  BY DEF If
<1>2. PICK t \in {<<>>, <<Fingerprint("otlp_traces", resources[k].service, "slow_spans")>>} :
         t = If(CountUpTo(resources, k, "slow") >= ErrorSpanThreshold,
                Fingerprint("otlp_traces", resources[k].service, "slow_spans"))
  BY DEF If
<1>3. s \in Seq(S) /\ t \in Seq(S)
  BY MaybeSignal
<1> QED
  BY <1>1, <1>2, <1>3, ConcatProperties

LEMMA RecordYields ==
    ASSUME NEW record, NEW S, Fingerprint("otlp_logs", record.service, "log_pattern") \in S
    PROVE  If(record.critical \/ record.error,
              Fingerprint("otlp_logs", record.service, "log_pattern")) \in Seq(S)
<1>1. If(record.critical \/ record.error,
         Fingerprint("otlp_logs", record.service, "log_pattern"))
         \in {<<>>, <<Fingerprint("otlp_logs", record.service, "log_pattern")>>}
  BY DEF If
<1> QED
  BY <1>1, MaybeSignal

LEMMA BatchYields ==
    ASSUME NEW batch \in Batches
    PROVE  Signals[batch] \in Seq(Range(Signals[batch]))
<1> DEFINE data == batch.data
           n == Len(data)
           S == {Fingerprint(source, data[k].service, type) :
                   source \in {"otlp_metrics", "otlp_traces", "otlp_logs"}, k \in 1..n,
                   type \in {"error_rate", "latency", "cpu", "memory", "trace_errors",
                             "slow_spans", "log_pattern"}}
<1>1. /\ batch.kind \in {"metrics", "traces", "logs"}
      /\ n \in Nat /\ DOMAIN data = 1..n
  BY BatchesAssumption, LenProperties
<1>2. Signals[batch] = Extract(batch)
  BY DEF Signals
<1>3. ASSUME batch.kind = "metrics" PROVE Extract(batch) \in Seq(S)
  <2> DEFINE seqs == [k \in 1..n |-> checkErrorRateMetric(data[k])
                        \o checkLatencyMetric(data[k]) \o checkResourceMetric(data[k])]
  <2>1. Extract(batch) = FlattenSeq(seqs)
    BY <1>1, <1>3 DEF Extract, ProcessMetrics
  <2>2. ASSUME NEW k \in 1..n PROVE seqs[k] \in Seq(S)
    <3>1. \A type \in {"error_rate", "latency", "cpu", "memory"} :
             Fingerprint("otlp_metrics", data[k].service, type) \in S
      OBVIOUS
    <3> HIDE DEF S
    <3> QED
      BY <3>1, MetricYields
  <2>3. seqs \in [1..n -> Seq(S)]
    <3>1. seqs = [k \in 1..n |-> seqs[k]]
      OBVIOUS
    <3> HIDE DEF seqs, S
    <3> QED
      BY <2>2, <3>1
  <2> HIDE DEF seqs, S, n
  <2> QED
    BY <1>1, <2>1, <2>3, FlattenRange
<1>4. ASSUME batch.kind = "traces" PROVE Extract(batch) \in Seq(S)
  <2> DEFINE seqs == [k \in 1..n |->
        If(CountUpTo(data, k, "errors") >= ErrorSpanThreshold,
           Fingerprint("otlp_traces", data[k].service, "trace_errors"))
        \o
        If(CountUpTo(data, k, "slow") >= ErrorSpanThreshold,
           Fingerprint("otlp_traces", data[k].service, "slow_spans"))]
  <2>1. Extract(batch) = FlattenSeq(seqs)
    BY <1>1, <1>4 DEF Extract, ProcessTraces
  <2>2. ASSUME NEW k \in 1..n PROVE seqs[k] \in Seq(S)
    <3>1. \A type \in {"trace_errors", "slow_spans"} :
             Fingerprint("otlp_traces", data[k].service, type) \in S
      OBVIOUS
    <3> HIDE DEF S
    <3> QED
      BY <3>1, SpansYield
  <2>3. seqs \in [1..n -> Seq(S)]
    <3>1. seqs = [k \in 1..n |-> seqs[k]]
      OBVIOUS
    <3> HIDE DEF seqs, S
    <3> QED
      BY <2>2, <3>1
  <2> HIDE DEF seqs, S, n
  <2> QED
    BY <1>1, <2>1, <2>3, FlattenRange
<1>5. ASSUME batch.kind = "logs" PROVE Extract(batch) \in Seq(S)
  <2> DEFINE seqs == [k \in 1..n |->
        If(data[k].critical \/ data[k].error,
           Fingerprint("otlp_logs", data[k].service, "log_pattern"))]
  <2>1. Extract(batch) = FlattenSeq(seqs)
    BY <1>1, <1>5 DEF Extract, ProcessLogs
  <2>2. ASSUME NEW k \in 1..n PROVE seqs[k] \in Seq(S)
    <3>1. Fingerprint("otlp_logs", data[k].service, "log_pattern") \in S
      OBVIOUS
    <3> HIDE DEF S
    <3> QED
      BY <3>1, RecordYields
  <2>3. seqs \in [1..n -> Seq(S)]
    <3>1. seqs = [k \in 1..n |-> seqs[k]]
      OBVIOUS
    <3> HIDE DEF seqs, S
    <3> QED
      BY <2>2, <3>1
  <2> HIDE DEF seqs, S, n
  <2> QED
    BY <1>1, <2>1, <2>3, FlattenRange
<1>6. Signals[batch] \in Seq(S)
  <2> HIDE DEF S
  <2> QED
    BY <1>1, <1>2, <1>3, <1>4, <1>5
<1> QED
  BY <1>6 DEF Range

(* What every consumer has in hand, besides FilterTyped. *)
HandTyped ==
    /\ pc \in [Consumers -> {"idle", "filter", "record", "delete", "handle", "attach"}]
    /\ raw \in [Consumers -> Seq(Fingerprints)]
    /\ filtered \in [Consumers -> Seq(Fingerprints)]
    /\ doomed \in [Consumers -> Fingerprints \cup {None}]
    /\ \A c \in Consumers : /\ pc[c] = "record" => raw[c] # <<>>
                            /\ pc[c] = "attach" => filtered[c] # <<>>

ServerTyped ==
    /\ main \in {"start", "spawn", "waiting", "stop_receiver", "shutdown", "exited"}
    /\ receiver \in {"stopped", "running", "draining"}
    /\ listener \in {"none", "starting", "serving", "failed", "closed"}
    /\ requests \in 0..MaxRequests
    /\ deadline \in {"none", "running", "expired"}
    /\ exit \in {"none", "start_error", "graceful", "forced", "crashed"}

LEMMA ConsumerKeepsHand ==
    ASSUME HandTyped, NEW c \in Consumers, ConsumerStep(c) PROVE HandTyped'
<1>1. /\ raw[c] \in Seq(Fingerprints) /\ filtered[c] \in Seq(Fingerprints)
      /\ pc[c] = "record" => raw[c] # <<>>
      /\ pc[c] = "attach" => filtered[c] # <<>>
  BY DEF HandTyped
<1>2. raw[c] # <<>> => Head(raw[c]) \in Fingerprints /\ Tail(raw[c]) \in Seq(Fingerprints)
  <2>1. PICK s \in Seq(Fingerprints) : s = raw[c]
    BY <1>1
  <2> QED
    BY <2>1, HeadTailProperties
<1>3. filtered[c] # <<>> => Tail(filtered[c]) \in Seq(Fingerprints)
  <2>1. PICK s \in Seq(Fingerprints) : s = filtered[c]
    BY <1>1
  <2> QED
    BY <2>1, HeadTailProperties
<1>4. CASE Suppress(c)
  BY <1>2, <1>4 DEF Suppress, HandTyped
<1>5. CASE Pass(c)
  BY <1>5 DEF Pass, GoTo, HandTyped
<1>6. CASE RecordSignal(c)
  <2>1. Append(filtered[c], Head(raw[c])) \in Seq(Fingerprints)
    BY <1>1, <1>2, <1>6 DEF RecordSignal
  <2>2. /\ raw' = [raw EXCEPT ![c] = Tail(raw[c])]
        /\ filtered' = [filtered EXCEPT ![c] = Append(filtered[c], Head(raw[c]))]
        /\ pc' = [pc EXCEPT ![c] = "filter"] /\ raw[c] # <<>> /\ doomed' = doomed
    BY <1>1, <1>6 DEF RecordSignal, GoTo
  <2> QED
    BY <1>2, <2>1, <2>2 DEF HandTyped
<1>7. CASE FindExpired(c) \/ DeleteSignal(c) \/ CleanupDone(c)
  BY <1>7 DEF FindExpired, DeleteSignal, CleanupDone, GoTo, HandTyped
<1>8. CASE CreateIncident(c) \/ BatchDone(c)
  BY <1>8 DEF CreateIncident, BatchDone, GoTo, HandTyped
<1>9. CASE CreateFails(c) \/ AttachSignal(c)
  BY <1>1, <1>3, <1>9 DEF CreateFails, AttachSignal, NextSignal, GoTo, HandTyped
<1> QED
  BY <1>4, <1>5, <1>6, <1>7, <1>8, <1>9 DEF ConsumerStep

LEMMA ConsumeKeepsHand ==
    ASSUME HandTyped, NEW c \in Consumers, NEW batch \in Batches, Consume(c, batch)
    PROVE  HandTyped'
<1>1. Signals[batch] \in Seq(Fingerprints)
  <2>1. Range(Signals[batch]) \subseteq Fingerprints
    BY DEF Fingerprints
  <2> QED
    BY <2>1, BatchYields, SeqMonotonic
<1> QED
  BY <1>1 DEF Consume, GoTo, HandTyped

LEMMA EmptyHands == TelemetryInit => HandTyped
BY DEF TelemetryInit, HandTyped

LEMMA ServerKeepsTypes ==
    ASSUME HandTyped, ServerTyped, [Next]_vars PROVE HandTyped' /\ ServerTyped'
<1> USE ServerAssumption
<1>1. CASE UNCHANGED vars
  BY <1>1 DEF vars, HandTyped, ServerTyped
<1>2. ASSUME NEW how, ExitWith(how),
             how \in {"start_error", "graceful", "forced", "crashed"}, UNCHANGED deadline
      PROVE  HandTyped' /\ ServerTyped'
  <2>1. TelemetryInit'
    BY <1>2 DEF ExitWith, TelemetryEnds, TelemetryInit
  <2>2. (TelemetryInit => HandTyped)'
    BY EmptyHands, PTL
  <2> QED
    BY <1>2, <2>1, <2>2 DEF ExitWith, ServerTyped
<1>3. CASE UNCHANGED telemetryVars /\ (StartReceiver \/ SpawnListener \/ ReceiverStopped
              \/ ReceiverStopFails \/ Listen \/ Signal \/ DeadlineExpires)
  <2>1. HandTyped'
    BY <1>3 DEF telemetryVars, HandTyped
  <2>2. ServerTyped'
    BY <1>3 DEF StartReceiver, SpawnListener, ReceiverStopped, ReceiverStopFails,
       BeginHTTPShutdown, Listen, Signal, DeadlineExpires, ServerTyped
  <2> QED
    BY <2>1, <2>2
<1>4. CASE BeginRequest \/ EndRequest
  <2>1. HandTyped'
    BY <1>4 DEF BeginRequest, EndRequest, telemetryVars, HandTyped
  <2>2. ServerTyped'
    BY <1>4 DEF BeginRequest, EndRequest, ServerTyped
  <2> QED
    BY <2>1, <2>2
<1>5. CASE Main \/ Listen \/ Signal \/ DeadlineExpires \/ Crash
  <2>1. CASE StartFails \/ ShutdownDone \/ ForcedClose \/ Crash
    BY <1>2, <2>1 DEF StartFails, ShutdownDone, ForcedClose, Crash
  <2>2. CASE StartReceiver \/ SpawnListener \/ ReceiverStopped
                \/ ReceiverStopFails \/ Listen \/ Signal \/ DeadlineExpires
    <3>1. UNCHANGED telemetryVars
      BY <2>2 DEF StartReceiver, SpawnListener, ReceiverStopped, ReceiverStopFails,
         Listen, Signal, DeadlineExpires
    <3> QED
      BY <1>3, <2>2, <3>1
  <2> QED
    BY <1>5, <2>1, <2>2 DEF Main
<1>6. CASE TimePasses
  BY <1>6 DEF TimePasses, Tick, serverVars, HandTyped, ServerTyped
<1>7. ASSUME NEW c \in Consumers, Work(c) PROVE HandTyped' /\ ServerTyped'
  BY <1>7, ConsumerKeepsHand DEF Work, serverVars, ServerTyped
<1>8. ASSUME NEW c \in Consumers, NEW batch \in Batches, ReceiveBatch(c, batch)
      PROVE  HandTyped' /\ ServerTyped'
  BY <1>8, ConsumeKeepsHand DEF ReceiveBatch, serverVars, ServerTyped
<1> QED
  BY <1>1, <1>4, <1>5, <1>6, <1>7, <1>8 DEF Next

(* Every variable has its type, for payloads of any kind and length: the   *)
(* consumers never take from an empty list, and an end of the process      *)
(* leaves nothing behind.                                                  *)
THEOREM TypeCorrect == Spec => []TypeOK
<1> USE TelemetryAssumption
<1>1. Init => FilterInv /\ LossInv /\ HandTyped /\ ServerTyped
  BY EmptyFilter, EmptyLosses, EmptyHands, ServerAssumption DEF Init, ServerTyped
<1>2. FilterInv /\ LossInv /\ HandTyped /\ ServerTyped /\ [Next]_vars
         => (FilterInv /\ LossInv /\ HandTyped /\ ServerTyped)'
  BY FilterKept, LossKept, ServerKeepsTypes
<1>3. FilterInv /\ LossInv /\ HandTyped /\ ServerTyped => TypeOK
  BY DEF FilterInv, FilterTyped, LossInv, AgesOfReadings, HandTyped, ServerTyped, TypeOK,
     TelemetryTypeOK
<1> QED
  BY <1>1, <1>2, <1>3, PTL DEF Spec

=============================================================================
