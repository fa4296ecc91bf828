--------------------------- MODULE SignalPathProofs ---------------------------
(***************************************************************************)
(* What a signal meets: the correlation engine and the detector.           *)
(*                                                                         *)
(* The engine's maps and counters agree, groups keep their limits, and     *)
(* duplicates are filtered: for any kinds of signals, rules, limits and    *)
(* delays, and however processing and cleanup alternate.  The detector's   *)
(* cooldowns bound the incidents of a rule, for any goroutines, rules and  *)
(* items.                                                                  *)
(***************************************************************************)
EXTENDS CorrelationEngine, Detector, FiniteSetTheorems, TLAPS


S(g, i) == groups[g].signals[i]
Size(g) == Len(groups[g].signals)

(* Group ids are issued in order. *)
IdsIssued == \A g \in DOMAIN groups : g <= created

(* A group's time stamp is the time of its last addition. *)
Stamped ==
    \A g \in DOMAIN groups :
        groups[g].updated <= now /\ groups[g].updated = S(g, Size(g)).done

SignalTimes ==
    \A g \in DOMAIN groups : \A i \in 1..Size(g) :
        S(g, i).at <= S(g, i).done /\ S(g, i).done <= now

(* A signal joins within a window of the addition before it. *)
Joins ==
    \A g \in DOMAIN groups : \A i, j \in 1..Size(g) :
        j = i + 1 => S(g, j).at - S(g, i).done <= TimeWindow

(* The cache forgets, and overwrites, only what no longer counts. *)
CacheSound ==
    EnableDeduplication =>
        \A g \in DOMAIN groups : \A i \in 1..Size(g) :
            \/ dedupeCache[SignalFingerprint(S(g, i).kind)] = S(g, i).at
            \/ now - S(g, i).at >= TimeWindow

Apart ==
    EnableDeduplication =>
        \A g, h \in DOMAIN groups : \A i \in 1..Size(g), j \in 1..Size(h) :
            /\ g # h \/ i # j
            /\ SignalFingerprint(S(g, i).kind) = SignalFingerprint(S(h, j).kind)
            => \/ S(g, i).done <= S(h, j).done /\ S(h, j).done - S(g, i).at >= TimeWindow
               \/ S(h, j).done <= S(g, i).done /\ S(g, i).done - S(h, j).at >= TimeWindow

(* Maps and counters, and the signals in the groups. *)
MapsInv == TypeOK /\ IdsIssued /\ IndexSound /\ Accounting
SignalsInv == Stamped /\ SignalTimes /\ Joins /\ CacheSound /\ Apart
EngineInv == MapsInv /\ SignalsInv

-----------------------------------------------------------------------------

LEMMA GroupType ==
    ASSUME TypeOK, NEW g \in DOMAIN groups
    PROVE  /\ groups[g] \in Group /\ groups[g].signals \in Seq(Signal)
           /\ Size(g) \in 1..MaxGroupSize /\ Size(g) \in Nat
           /\ groups[g].updated \in 0..MaxTime
           /\ groups[g].fingerprint \in ContentFingerprints
<1>1. groups[g] \in Group /\ Size(g) \in 1..MaxGroupSize
  BY DEF TypeOK, Size
<1>2. groups[g].signals \in Seq(Signal)
  BY <1>1 DEF Group
<1> QED
  BY <1>1, <1>2 DEF Group, Size

LEMMA SignalType ==
    ASSUME CorrelationAssumption, TypeOK, NEW g \in DOMAIN groups, NEW i \in 1..Size(g)
    PROVE  /\ S(g, i) \in Signal /\ S(g, i).kind \in Kinds
           /\ S(g, i).at \in Nat /\ S(g, i).done \in Nat
<1>1. groups[g].signals \in Seq(Signal)
  BY GroupType
<1>2. S(g, i) \in Signal
  BY <1>1 DEF S, Size
<1> QED
  BY <1>2 DEF Signal, CorrelationAssumption

LEMMA GroupsFinite ==
    ASSUME CorrelationAssumption, TypeOK
    PROVE  IsFiniteSet(DOMAIN groups) /\ Cardinality(DOMAIN groups) \in Nat
<1>1. IsFiniteSet(Ids)
  BY FS_Interval DEF Ids, CorrelationAssumption
<1>2. DOMAIN groups \in SUBSET Ids
  BY DEF TypeOK
<1> QED
  BY <1>1, <1>2, FS_Subset, FS_CardinalityType

(* Held and At, the pairs the properties speak of, are groups and places. *)
LEMMA HeldIs ==
    ASSUME CorrelationAssumption, TypeOK, NEW p \in Held
    PROVE  /\ p[1] \in DOMAIN groups /\ p[2] \in 1..Size(p[1])
           /\ p = <<p[1], p[2]>> /\ At(p) = S(p[1], p[2])
BY GroupType DEF Held, At, S, Size

-----------------------------------------------------------------------------
(* Joining a group and opening one add a signal; both keep what is known   *)
(* of the signals there are.                                               *)

(* Everything but the signal in place n of group g was there before. *)
Adds(g, n, k, at) ==
    /\ groups'[g].signals[n] = [kind |-> k, at |-> at, done |-> now]
    /\ \A h \in DOMAIN groups' : \A i \in 1..Len(groups'[h].signals) :
          h # g \/ i # n =>
              /\ h \in DOMAIN groups /\ i \in 1..Size(h)
              /\ groups'[h].signals[i] = S(h, i)

LEMMA SignalAdded ==
    ASSUME CorrelationAssumption, EngineInv, NEW k \in Kinds, NEW at \in 0..now,
           NEW g, NEW n, Adds(g, n, k, at), ~IsDuplicate(k, at),
           dedupeCache' = Remember(k, at), now' = now
    PROVE  SignalTimes' /\ CacheSound' /\ Apart'
<1> DEFINE new == [kind |-> k, at |-> at, done |-> now]
<1>1. TypeOK /\ now \in Nat /\ at \in Nat /\ at <= now /\ TimeWindow \in Nat
  BY DEF EngineInv, MapsInv, TypeOK, CorrelationAssumption
<1>2. /\ S(g, n)' = new
      /\ \A h \in DOMAIN groups' : \A i \in 1..Size(h)' :
            h # g \/ i # n =>
              h \in DOMAIN groups /\ i \in 1..Size(h) /\ S(h, i)' = S(h, i)
  BY DEF Adds, S, Size
<1>3. new.kind = k /\ new.at = at /\ new.done = now
  OBVIOUS
<1>4. SignalTimes'
  <2> SUFFICES ASSUME NEW h \in DOMAIN groups', NEW i \in 1..Size(h)'
               PROVE  S(h, i)'.at <= S(h, i)'.done /\ S(h, i)'.done <= now
    BY DEF SignalTimes
  <2>1. CASE h = g /\ i = n
    BY <1>1, <1>2, <1>3, <2>1
  <2>2. CASE ~(h = g /\ i = n)
    BY <1>2, <2>2 DEF EngineInv, SignalsInv, SignalTimes
  <2> QED
    BY <2>1, <2>2
<1> HIDE DEF new
<1>5. ASSUME EnableDeduplication, NEW h \in DOMAIN groups, NEW i \in 1..Size(h),
             SignalFingerprint(S(h, i).kind) = SignalFingerprint(k)
      PROVE  now - S(h, i).at >= TimeWindow /\ S(h, i).done <= now
  <2>1. S(h, i).at \in Nat /\ S(h, i).done <= now
    BY <1>1, SignalType DEF EngineInv, SignalsInv, SignalTimes
  <2>2. \/ dedupeCache[SignalFingerprint(k)] = S(h, i).at
        \/ now - S(h, i).at >= TimeWindow
    BY <1>5 DEF EngineInv, SignalsInv, CacheSound
  <2>3. CASE dedupeCache[SignalFingerprint(k)] = S(h, i).at
    <3>1. dedupeCache[SignalFingerprint(k)] # Never
      BY <2>1, <2>3 DEF Never
    <3>2. ~(now - dedupeCache[SignalFingerprint(k)] < TimeWindow)
      BY <1>5, <3>1 DEF IsDuplicate
    <3> QED
      BY <1>1, <2>1, <2>3, <3>2
  <2> QED
    BY <2>1, <2>2, <2>3
<1>6. CacheSound'
  <2> SUFFICES ASSUME EnableDeduplication, NEW h \in DOMAIN groups', NEW i \in 1..Size(h)'
               PROVE  \/ dedupeCache'[SignalFingerprint(S(h, i)'.kind)] = S(h, i)'.at
                      \/ now - S(h, i)'.at >= TimeWindow
    BY DEF CacheSound
  <2>1. /\ SignalFingerprint(k) \in SignalFingerprints
        /\ dedupeCache' = [dedupeCache EXCEPT ![SignalFingerprint(k)] = at]
        /\ dedupeCache \in [SignalFingerprints -> 0..MaxTime \cup {Never}]
    BY <1>1 DEF TypeOK, Remember, SignalFingerprints
  <2>2. CASE h = g /\ i = n
    BY <1>2, <1>3, <2>1, <2>2
  <2>3. CASE ~(h = g /\ i = n)
    <3>1. h \in DOMAIN groups /\ i \in 1..Size(h) /\ S(h, i)' = S(h, i)
      BY <1>2, <2>3
    <3>2. SignalFingerprint(S(h, i).kind) \in SignalFingerprints
      BY <1>1, <3>1, SignalType DEF SignalFingerprints
    <3>3. CASE SignalFingerprint(S(h, i).kind) = SignalFingerprint(k)
      BY <1>5, <3>1, <3>3
    <3>4. CASE SignalFingerprint(S(h, i).kind) # SignalFingerprint(k)
      <4>1. \/ dedupeCache[SignalFingerprint(S(h, i).kind)] = S(h, i).at
            \/ now - S(h, i).at >= TimeWindow
        BY <3>1 DEF EngineInv, SignalsInv, CacheSound
      <4>2. dedupeCache'[SignalFingerprint(S(h, i).kind)]
              = dedupeCache[SignalFingerprint(S(h, i).kind)]
        BY <2>1, <3>2, <3>4
      <4> QED
        BY <3>1, <4>1, <4>2
    <3> QED
      BY <3>3, <3>4
  <2> QED
    BY <2>2, <2>3
<1>7. Apart'
  <2> SUFFICES ASSUME EnableDeduplication, NEW h \in DOMAIN groups', NEW i \in 1..Size(h)',
                      NEW l \in DOMAIN groups', NEW j \in 1..Size(l)', h # l \/ i # j,
                      SignalFingerprint(S(h, i)'.kind) = SignalFingerprint(S(l, j)'.kind)
               PROVE  \/ /\ S(h, i)'.done <= S(l, j)'.done
                         /\ S(l, j)'.done - S(h, i)'.at >= TimeWindow
                      \/ /\ S(l, j)'.done <= S(h, i)'.done
                         /\ S(h, i)'.done - S(l, j)'.at >= TimeWindow
    BY DEF Apart
  <2>1. CASE h = g /\ i = n
    <3>1. l \in DOMAIN groups /\ j \in 1..Size(l) /\ S(l, j)' = S(l, j)
      BY <1>2, <2>1
    <3>2. S(h, i)' = new
      BY <1>2, <2>1
    <3>3. SignalFingerprint(S(l, j).kind) = SignalFingerprint(k)
      BY <1>3, <3>1, <3>2
    <3> QED
      BY <1>3, <1>5, <3>1, <3>2, <3>3
  <2>2. CASE l = g /\ j = n
    <3>1. h \in DOMAIN groups /\ i \in 1..Size(h) /\ S(h, i)' = S(h, i)
      BY <1>2, <2>2
    <3>2. S(l, j)' = new
      BY <1>2, <2>2
    <3>3. SignalFingerprint(S(h, i).kind) = SignalFingerprint(k)
      BY <1>3, <3>1, <3>2
    <3> QED
      BY <1>3, <1>5, <3>1, <3>2, <3>3
  <2>3. CASE ~(h = g /\ i = n) /\ ~(l = g /\ j = n)
    <3>1. /\ h \in DOMAIN groups /\ i \in 1..Size(h) /\ S(h, i)' = S(h, i)
          /\ l \in DOMAIN groups /\ j \in 1..Size(l) /\ S(l, j)' = S(l, j)
      BY <1>2, <2>3
    <3> QED
      BY <3>1 DEF EngineInv, SignalsInv, Apart
  <2> QED
    BY <2>1, <2>2, <2>3
<1> QED
  BY <1>4, <1>6, <1>7

LEMMA JoinKeeps ==
    ASSUME CorrelationAssumption, EngineInv, NEW k \in Kinds, NEW at \in 0..MaxTime,
           JoinGroup(k, at)
    PROVE  EngineInv'
<1> DEFINE new == [kind |-> k, at |-> at, done |-> now]
<1>1. TypeOK /\ now \in 0..MaxTime /\ at \in 0..now /\ MaxTime \in Nat
  BY DEF EngineInv, MapsInv, TypeOK, JoinGroup, Process, CorrelationAssumption
<1>2. PICK g \in DOMAIN groups :
         OpenTo(g, at) /\ groups' = AddTo(g, k, at)
  <2>1. PICK i \in Deciding(k, at) : \E g \in Candidates(Rules[i], k, at) :
           groups' = AddTo(g, k, at)
    BY DEF JoinGroup
  <2> QED
    BY <2>1 DEF Candidates
<1>3. /\ groups[g] \in Group /\ groups[g].signals \in Seq(Signal)
      /\ Size(g) \in 1..MaxGroupSize /\ Size(g) < MaxGroupSize
      /\ groups[g].updated >= at - TimeWindow
  BY <1>1, <1>2, GroupType DEF OpenTo, HasRoom, Size
<1>4. new \in Signal
  BY <1>1 DEF Signal
<1>5. groups' = [groups EXCEPT ![g] = [groups[g] EXCEPT
                   !.signals = Append(groups[g].signals, new), !.updated = now]]
  BY <1>2 DEF AddTo
<1> DEFINE signals == Append(groups[g].signals, new)
<1>6. /\ signals \in Seq(Signal) /\ Len(signals) = Size(g) + 1
      /\ signals[Size(g) + 1] = new
      /\ \A i \in 1..Size(g) : signals[i] = S(g, i)
  BY <1>3, <1>4 DEF Size, S
<1> HIDE DEF new, signals
<1>7. /\ DOMAIN groups' = DOMAIN groups
      /\ groups'[g].signals = signals /\ groups'[g].updated = now
      /\ groups'[g].fingerprint = groups[g].fingerprint
      /\ groups'[g] \in Group
      /\ \A h \in DOMAIN groups : h # g => groups'[h] = groups[h]
  BY <1>1, <1>3, <1>5, <1>6 DEF Group, signals
<1>8. /\ processed < MaxSignals /\ processed' = processed + 1
      /\ correlated' = correlated + 1
      /\ UNCHANGED <<now, cleaner, fingerprints, created, filtered, active>>
      /\ dedupeCache' = Remember(k, at) /\ ~IsDuplicate(k, at)
  BY DEF JoinGroup, Process
<1>9. MapsInv'
  <2>1. \A h \in DOMAIN groups' :
           groups'[h] \in Group /\ Len(groups'[h].signals) \in 1..MaxGroupSize
    <3> SUFFICES ASSUME NEW h \in DOMAIN groups'
                 PROVE  /\ groups'[h] \in Group
                        /\ Len(groups'[h].signals) \in 1..MaxGroupSize
      OBVIOUS
    <3>1. CASE h = g
      BY <1>3, <1>6, <1>7, <3>1
    <3>2. CASE h # g
      BY <1>1, <1>7, <3>2 DEF TypeOK
    <3> QED
      BY <3>1, <3>2
  <2>2. dedupeCache' \in [SignalFingerprints -> 0..MaxTime \cup {Never}]
    BY <1>1, <1>8 DEF TypeOK, Remember
  <2>3. TypeOK'
    BY <1>1, <1>7, <1>8, <2>1, <2>2 DEF TypeOK, CorrelationAssumption
  <2>4. IdsIssued'
    BY <1>7, <1>8 DEF EngineInv, MapsInv, IdsIssued
  <2>5. IndexSound'
    <3> SUFFICES ASSUME NEW c \in ContentFingerprints, fingerprints[c] # None
                 PROVE  /\ fingerprints[c] \in DOMAIN groups'
                        /\ groups'[fingerprints[c]].fingerprint = c
      BY <1>8 DEF IndexSound
    <3>1. /\ fingerprints[c] \in DOMAIN groups
          /\ groups[fingerprints[c]].fingerprint = c
      BY DEF EngineInv, MapsInv, IndexSound
    <3> QED
      BY <1>7, <3>1
  <2>6. Accounting'
    BY <1>1, <1>7, <1>8 DEF EngineInv, MapsInv, Accounting, TypeOK
  <2> QED
    BY <2>3, <2>4, <2>5, <2>6 DEF MapsInv
<1>10. Stamped'
  <2> SUFFICES ASSUME NEW h \in DOMAIN groups'
               PROVE  /\ groups'[h].updated <= now
                      /\ groups'[h].updated =
                           groups'[h].signals[Len(groups'[h].signals)].done
    BY <1>8 DEF Stamped, S, Size
  <2>1. CASE h = g
    BY <1>1, <1>6, <1>7, <2>1 DEF new
  <2>2. CASE h # g
    BY <1>7, <2>2 DEF EngineInv, SignalsInv, Stamped, S, Size
  <2> QED
    BY <2>1, <2>2
<1>11. Joins'
  <2> SUFFICES ASSUME NEW h \in DOMAIN groups', NEW i \in 1..Len(groups'[h].signals),
                      NEW j \in 1..Len(groups'[h].signals), j = i + 1
               PROVE  groups'[h].signals[j].at - groups'[h].signals[i].done <= TimeWindow
    BY DEF Joins, S, Size
  <2>1. CASE h = g /\ j = Size(g) + 1
    <3>1. i = Size(g) /\ i \in 1..Size(g)
      BY <1>3, <2>1
    <3>2. signals[i].done = groups[g].updated
      BY <1>6, <3>1 DEF EngineInv, SignalsInv, Stamped
    <3>3. signals[j].at = at
      BY <1>6, <2>1 DEF new
    <3>4. groups[g].updated \in Int /\ TimeWindow \in Int /\ at \in Int
      BY <1>1, GroupType DEF CorrelationAssumption
    <3> QED
      BY <1>3, <1>7, <2>1, <3>2, <3>3, <3>4
  <2>2. CASE h = g /\ j # Size(g) + 1
    <3>1. i \in 1..Size(g) /\ j \in 1..Size(g)
      BY <1>3, <1>6, <1>7, <2>2
    <3>2. S(g, j).at - S(g, i).done <= TimeWindow
      BY <3>1 DEF EngineInv, SignalsInv, Joins
    <3> QED
      BY <1>6, <1>7, <2>2, <3>1, <3>2
  <2>3. CASE h # g
    BY <1>7, <2>3 DEF EngineInv, SignalsInv, Joins, S, Size
  <2> QED
    BY <2>1, <2>2, <2>3
<1>12. Adds(g, Size(g) + 1, k, at)
  <2>1. groups'[g].signals[Size(g) + 1] = [kind |-> k, at |-> at, done |-> now]
    BY <1>6, <1>7 DEF new
  <2>2. ASSUME NEW h \in DOMAIN groups', NEW i \in 1..Len(groups'[h].signals),
               h # g \/ i # Size(g) + 1
        PROVE  /\ h \in DOMAIN groups /\ i \in 1..Size(h)
               /\ groups'[h].signals[i] = S(h, i)
    <3>1. CASE h = g
      <4>1. i \in 1..Size(g)
        BY <1>3, <1>6, <1>7, <2>2, <3>1
      <4> QED
        BY <1>6, <1>7, <3>1, <4>1
    <3>2. CASE h # g
      BY <1>7, <3>2 DEF S, Size
    <3> QED
      BY <3>1, <3>2
  <2> QED
    BY <2>1, <2>2 DEF Adds
<1>13. SignalTimes' /\ CacheSound' /\ Apart'
  BY <1>1, <1>8, <1>12, SignalAdded
<1> QED
  BY <1>9, <1>10, <1>11, <1>13 DEF EngineInv, SignalsInv

LEMMA OpenKeeps ==
    ASSUME CorrelationAssumption, EngineInv, NEW k \in Kinds, NEW at \in 0..MaxTime,
           OpenGroup(k, at)
    PROVE  EngineInv'
<1> DEFINE id == created + 1
           new == [kind |-> k, at |-> at, done |-> now]
           c0 == ContentFingerprint(k)
<1>1. /\ TypeOK /\ now \in 0..MaxTime /\ at \in 0..now /\ MaxTime \in Nat
      /\ MaxGroupSize \in Nat /\ MaxGroupSize >= 1
  BY DEF EngineInv, MapsInv, TypeOK, OpenGroup, Process, CorrelationAssumption
<1>2. /\ processed < MaxSignals /\ processed' = processed + 1
      /\ created' = created + 1 /\ active' = active + 1
      /\ UNCHANGED <<now, cleaner, correlated, filtered>>
      /\ dedupeCache' = Remember(k, at) /\ ~IsDuplicate(k, at)
      /\ fingerprints' = [fingerprints EXCEPT ![c0] = id]
  BY DEF OpenGroup, Process
<1>3. id \in Ids /\ id \in Nat /\ id # None /\ id \notin DOMAIN groups
  <2>1. /\ created \in Nat /\ correlated \in Nat /\ filtered \in Nat
        /\ processed \in 0..MaxSignals /\ MaxSignals \in Nat
        /\ created + correlated + filtered = processed
    BY <1>1 DEF EngineInv, MapsInv, Accounting, TypeOK, CorrelationAssumption
  <2>2. ~(id <= created)
    BY <2>1
  <2>3. id \notin DOMAIN groups
    BY <2>2 DEF EngineInv, MapsInv, IdsIssued
  <2> QED
    BY <1>2, <2>1, <2>3 DEF Ids, None
<1>4. new \in Signal /\ c0 \in ContentFingerprints
  BY <1>1 DEF Signal, ContentFingerprints
<1>5. groups' = [g \in DOMAIN groups \cup {id} |->
                   IF g = id THEN NewGroup(k, at) ELSE groups[g]]
  BY DEF OpenGroup
<1>6. /\ NewGroup(k, at).signals = <<new>> /\ NewGroup(k, at).updated = now
      /\ NewGroup(k, at).fingerprint = c0
      /\ NewGroup(k, at) \in Group
  <2>1. <<new>> \in Seq(Signal)
    BY <1>4
  <2> QED
    BY <1>1, <1>4, <2>1 DEF NewGroup, Group
<1> DEFINE one == <<new>>
<1>7. Len(one) = 1 /\ one[1] = new
  OBVIOUS
<1> HIDE DEF new, c0, id, one
<1>8. /\ DOMAIN groups' = DOMAIN groups \cup {id}
      /\ groups'[id].signals = one /\ groups'[id].updated = now
      /\ groups'[id].fingerprint = c0 /\ groups'[id] \in Group
      /\ \A g \in DOMAIN groups : groups'[g] = groups[g]
  BY <1>3, <1>5, <1>6 DEF one
<1>9. MapsInv'
  <2>1. ASSUME NEW h \in DOMAIN groups'
        PROVE  groups'[h] \in Group /\ Len(groups'[h].signals) \in 1..MaxGroupSize
    <3>1. CASE h = id
      <4>1. groups'[h] \in Group
        BY <1>8, <3>1
      <4>2. Len(groups'[h].signals) = 1
        BY <1>7, <1>8, <3>1
      <4> QED
        BY <1>1, <4>1, <4>2
    <3>2. CASE h # id
      BY <1>1, <1>8, <3>2 DEF TypeOK
    <3> QED
      BY <3>1, <3>2
  <2>2. dedupeCache' \in [SignalFingerprints -> 0..MaxTime \cup {Never}]
    BY <1>1, <1>2 DEF TypeOK, Remember
  <2>3. fingerprints' \in [ContentFingerprints -> Ids \cup {None}]
    BY <1>1, <1>2, <1>3 DEF TypeOK
  <2>4. DOMAIN groups' \subseteq Ids
    BY <1>1, <1>3, <1>8 DEF TypeOK
  <2>5. TypeOK'
    <3>1. now' \in 0..MaxTime /\ cleaner' \in {"running", "stopping", "ended"}
      BY <1>1, <1>2 DEF TypeOK
    <3>2. /\ processed' \in 0..MaxSignals /\ created' \in Nat /\ correlated' \in Nat
          /\ filtered' \in Nat /\ active' \in Int
      BY <1>1, <1>2 DEF TypeOK, CorrelationAssumption
    <3> QED
      BY <2>1, <2>2, <2>3, <2>4, <3>1, <3>2 DEF TypeOK
  <2>6. IdsIssued'
    <3>1. \A g \in DOMAIN groups : g \in Int /\ g <= created
      BY <1>1 DEF EngineInv, MapsInv, IdsIssued, TypeOK, Ids
    <3> QED
      BY <1>1, <1>2, <1>3, <1>8, <3>1 DEF IdsIssued, TypeOK, id
  <2>7. IndexSound'
    <3> SUFFICES ASSUME NEW c \in ContentFingerprints, fingerprints'[c] # None
                 PROVE  /\ fingerprints'[c] \in DOMAIN groups'
                        /\ groups'[fingerprints'[c]].fingerprint = c
      BY DEF IndexSound
    <3>1. CASE c = c0
      BY <1>1, <1>2, <1>8, <3>1 DEF TypeOK
    <3>2. CASE c # c0
      <4>1. fingerprints'[c] = fingerprints[c]
        BY <1>1, <1>2, <3>2 DEF TypeOK
      <4>2. /\ fingerprints[c] \in DOMAIN groups
            /\ groups[fingerprints[c]].fingerprint = c
        BY <4>1 DEF EngineInv, MapsInv, IndexSound
      <4> QED
        BY <1>8, <4>1, <4>2
    <3> QED
      BY <3>1, <3>2
  <2>8. Accounting'
    <3>1. Cardinality(DOMAIN groups \cup {id}) = Cardinality(DOMAIN groups) + 1
      BY <1>1, <1>3, GroupsFinite, FS_AddElement
    <3>2. created' + correlated' + filtered' = processed'
      BY <1>1, <1>2 DEF EngineInv, MapsInv, Accounting, TypeOK
    <3> QED
      BY <1>2, <1>8, <3>1, <3>2 DEF EngineInv, MapsInv, Accounting
  <2> QED
    BY <2>5, <2>6, <2>7, <2>8 DEF MapsInv
<1>10. Stamped'
  <2> SUFFICES ASSUME NEW h \in DOMAIN groups'
               PROVE  /\ groups'[h].updated <= now
                      /\ groups'[h].updated =
                           groups'[h].signals[Len(groups'[h].signals)].done
    BY <1>2 DEF Stamped, S, Size
  <2>1. CASE h = id
    BY <1>1, <1>7, <1>8, <2>1 DEF new
  <2>2. CASE h # id
    BY <1>8, <2>2 DEF EngineInv, SignalsInv, Stamped, S, Size
  <2> QED
    BY <2>1, <2>2
<1>11. Joins'
  <2> SUFFICES ASSUME NEW h \in DOMAIN groups', NEW i \in 1..Len(groups'[h].signals),
                      NEW j \in 1..Len(groups'[h].signals), j = i + 1
               PROVE  groups'[h].signals[j].at - groups'[h].signals[i].done <= TimeWindow
    BY DEF Joins, S, Size
  <2>1. CASE h = id
    BY <1>7, <1>8, <2>1
  <2>2. CASE h # id
    BY <1>8, <2>2 DEF EngineInv, SignalsInv, Joins, S, Size
  <2> QED
    BY <2>1, <2>2
<1>12. Adds(id, 1, k, at)
  <2>1. groups'[id].signals[1] = [kind |-> k, at |-> at, done |-> now]
    BY <1>7, <1>8 DEF new
  <2>2. ASSUME NEW h \in DOMAIN groups', NEW i \in 1..Len(groups'[h].signals),
               h # id \/ i # 1
        PROVE  /\ h \in DOMAIN groups /\ i \in 1..Size(h)
               /\ groups'[h].signals[i] = S(h, i)
    <3>1. CASE h = id
      <4>1. Len(groups'[h].signals) = 1
        BY <1>7, <1>8, <3>1
      <4> QED
        BY <2>2, <3>1, <4>1
    <3>2. CASE h # id
      BY <1>8, <3>2 DEF S, Size
    <3> QED
      BY <3>1, <3>2
  <2> QED
    BY <2>1, <2>2 DEF Adds
<1>13. SignalTimes' /\ CacheSound' /\ Apart'
  BY <1>1, <1>2, <1>12, SignalAdded
<1> QED
  BY <1>9, <1>10, <1>11, <1>13 DEF EngineInv, SignalsInv

LEMMA CleanupKeeps ==
    ASSUME CorrelationAssumption, EngineInv, Cleanup
    PROVE  EngineInv'
<1>1. TypeOK /\ now \in Nat /\ MaxTime \in Nat /\ TimeWindow \in Nat
  BY DEF EngineInv, MapsInv, TypeOK, CorrelationAssumption
<1>2. /\ groups' = [g \in DOMAIN groups \ Stale |-> groups[g]]
      /\ fingerprints' = [c \in ContentFingerprints |->
           IF \E g \in Stale : groups[g].fingerprint = c THEN None ELSE fingerprints[c]]
      /\ active' = active - Cardinality(Stale)
      /\ dedupeCache' = [f \in SignalFingerprints |->
           IF dedupeCache[f] < DedupeCutoff THEN Never ELSE dedupeCache[f]]
      /\ UNCHANGED <<now, processed, created, correlated, filtered, cleaner>>
  BY DEF Cleanup, ForgetFingerprints, StillActive
<1>3. /\ Stale \in SUBSET DOMAIN groups /\ DOMAIN groups' = DOMAIN groups \ Stale
      /\ \A g \in DOMAIN groups' : g \in DOMAIN groups /\ groups'[g] = groups[g]
  BY <1>2 DEF Stale
<1>4. MapsInv'
  <2>1. \A g \in DOMAIN groups' :
           groups'[g] \in Group /\ Len(groups'[g].signals) \in 1..MaxGroupSize
    BY <1>1, <1>3 DEF TypeOK
  <2>2. fingerprints' \in [ContentFingerprints -> Ids \cup {None}]
    BY <1>1, <1>2 DEF TypeOK
  <2>3. dedupeCache' \in [SignalFingerprints -> 0..MaxTime \cup {Never}]
    BY <1>1, <1>2 DEF TypeOK
  <2>4. IsFiniteSet(Stale) /\ Cardinality(Stale) \in Nat
        /\ Cardinality(DOMAIN groups') = Cardinality(DOMAIN groups) - Cardinality(Stale)
    <3>1. IsFiniteSet(Stale) /\ Cardinality(Stale) \in Nat
      BY <1>1, <1>3, GroupsFinite, FS_Subset, FS_CardinalityType
    <3>2. DOMAIN groups \cap Stale = Stale
      BY <1>3
    <3>3. Cardinality(DOMAIN groups \ Stale)
            = Cardinality(DOMAIN groups) - Cardinality(DOMAIN groups \cap Stale)
      BY <1>1, <3>1, GroupsFinite, FS_Difference
    <3> QED
      BY <1>3, <3>1, <3>2, <3>3
  <2>5. TypeOK'
    <3>1. active' \in Int
      BY <1>1, <1>2, <2>4 DEF TypeOK
    <3> QED
      BY <1>1, <1>2, <1>3, <2>1, <2>2, <2>3, <3>1 DEF TypeOK
  <2>6. IdsIssued'
    BY <1>2, <1>3 DEF EngineInv, MapsInv, IdsIssued
  <2>7. IndexSound'
    <3> SUFFICES ASSUME NEW c \in ContentFingerprints, fingerprints'[c] # None
                 PROVE  /\ fingerprints'[c] \in DOMAIN groups'
                        /\ groups'[fingerprints'[c]].fingerprint = c
      BY DEF IndexSound
    <3>1. /\ fingerprints'[c] = fingerprints[c]
          /\ ~\E g \in Stale : groups[g].fingerprint = c
      BY <1>2
    <3>2. /\ fingerprints[c] \in DOMAIN groups
          /\ groups[fingerprints[c]].fingerprint = c
      BY <3>1 DEF EngineInv, MapsInv, IndexSound
    <3>3. fingerprints[c] \in DOMAIN groups'
      BY <1>3, <3>1, <3>2
    <3> QED
      BY <1>3, <3>1, <3>2, <3>3
  <2>8. Accounting'
    BY <1>2, <2>4 DEF EngineInv, MapsInv, Accounting
  <2> QED
    BY <2>5, <2>6, <2>7, <2>8 DEF MapsInv
<1>5. \A g \in DOMAIN groups' :
         /\ g \in DOMAIN groups /\ groups'[g] = groups[g] /\ Size(g)' = Size(g)
         /\ \A i : S(g, i)' = S(g, i)
  BY <1>3 DEF S, Size
<1>6. Stamped' /\ SignalTimes' /\ Joins' /\ Apart'
  <2>1. Stamped' /\ SignalTimes'
    BY <1>2, <1>5 DEF EngineInv, SignalsInv, Stamped, SignalTimes
  <2>2. Joins'
    BY <1>5 DEF EngineInv, SignalsInv, Joins
  <2>3. Apart'
    BY <1>5 DEF EngineInv, SignalsInv, Apart
  <2> QED
    BY <2>1, <2>2, <2>3
<1>7. CacheSound'
  <2> SUFFICES ASSUME EnableDeduplication, NEW g \in DOMAIN groups', NEW i \in 1..Size(g)'
               PROVE  \/ dedupeCache'[SignalFingerprint(S(g, i)'.kind)] = S(g, i)'.at
                      \/ now - S(g, i)'.at >= TimeWindow
    BY <1>2 DEF CacheSound
  <2>1. g \in DOMAIN groups /\ i \in 1..Size(g) /\ S(g, i)' = S(g, i)
    BY <1>5
  <2>2. S(g, i).kind \in Kinds /\ S(g, i).at \in Nat
    BY <1>1, <2>1, SignalType
  <2> DEFINE f == SignalFingerprint(S(g, i).kind)
  <2>3. f \in SignalFingerprints
    BY <2>2 DEF SignalFingerprints
  <2>4. dedupeCache[f] = S(g, i).at \/ now - S(g, i).at >= TimeWindow
    BY <2>1 DEF EngineInv, SignalsInv, CacheSound
  <2>5. CASE dedupeCache[f] = S(g, i).at /\ dedupeCache[f] < DedupeCutoff
    BY <1>1, <2>2, <2>1, <2>5 DEF DedupeCutoff
  <2>6. CASE ~(dedupeCache[f] < DedupeCutoff)
    <3>1. dedupeCache'[f] = dedupeCache[f]
      BY <1>2, <2>3, <2>6
    <3> QED
      BY <2>1, <2>4, <3>1
  <2> QED
    BY <2>1, <2>4, <2>5, <2>6
<1> QED
  BY <1>4, <1>6, <1>7 DEF EngineInv, SignalsInv

LEMMA OtherStepsKeep ==
    ASSUME CorrelationAssumption, EngineInv,
           \/ \E k \in Kinds, at \in 0..MaxTime : FilterDuplicate(k, at)
           \/ Stop \/ CleanerExits \/ Tick \/ UNCHANGED vars
    PROVE  EngineInv'
<1>1. /\ UNCHANGED <<groups, fingerprints, dedupeCache, created, correlated, active>>
      /\ now' \in 0..MaxTime /\ now' >= now
      /\ processed' \in 0..MaxSignals /\ filtered' \in Nat
      /\ \E n \in {0, 1} : processed' = processed + n /\ filtered' = filtered + n
      /\ cleaner' \in {"running", "stopping", "ended"}
  <2>1. CASE \E k \in Kinds, at \in 0..MaxTime : FilterDuplicate(k, at)
    <3>1. /\ now \in 0..MaxTime /\ MaxTime \in Nat /\ filtered \in Nat
          /\ processed \in 0..MaxSignals /\ MaxSignals \in Nat
          /\ cleaner \in {"running", "stopping", "ended"}
      BY DEF EngineInv, MapsInv, TypeOK, CorrelationAssumption
    <3>2. /\ UNCHANGED <<groups, fingerprints, dedupeCache, created, correlated, active>>
          /\ now' = now /\ cleaner' = cleaner /\ processed < MaxSignals
          /\ processed' = processed + 1 /\ filtered' = filtered + 1
      BY <2>1 DEF FilterDuplicate, Process
    <3> QED
      BY <3>1, <3>2
  <2>2. CASE Stop \/ CleanerExits
    BY <2>2 DEF Stop, CleanerExits, metrics, EngineInv, MapsInv, TypeOK,
       CorrelationAssumption
  <2>3. CASE Tick \/ UNCHANGED vars
    BY <2>3 DEF Tick, vars, metrics, EngineInv, MapsInv, TypeOK, CorrelationAssumption
  <2> QED
    BY <2>1, <2>2, <2>3
<1>2. TypeOK /\ now \in Nat /\ now' \in Nat /\ TimeWindow \in Nat
  BY <1>1 DEF EngineInv, MapsInv, TypeOK, CorrelationAssumption
<1>3. \A g \in DOMAIN groups : Size(g)' = Size(g) /\ \A i : S(g, i)' = S(g, i)
  BY <1>1 DEF S, Size
<1>4. MapsInv'
  <2>1. TypeOK'
    BY <1>1, <1>2 DEF TypeOK
  <2>2. IdsIssued' /\ IndexSound'
    BY <1>1 DEF EngineInv, MapsInv, IdsIssued, IndexSound
  <2>3. Accounting'
    <3>1. /\ created \in Nat /\ correlated \in Nat /\ filtered \in Nat
          /\ processed \in Int /\ processed' \in Int
      BY <1>1, <1>2 DEF TypeOK, CorrelationAssumption
    <3>2. /\ created + correlated + filtered = processed
          /\ active = Cardinality(DOMAIN groups)
      BY DEF EngineInv, MapsInv, Accounting
    <3>3. created' + correlated' + filtered' = processed'
      <4>1. PICK n \in {0, 1} : processed' = processed + n /\ filtered' = filtered + n
        BY <1>1
      <4>2. created' = created /\ correlated' = correlated
        BY <1>1
      <4> QED
        BY <3>1, <3>2, <4>1, <4>2
    <3>4. active' = Cardinality(DOMAIN groups)'
      BY <1>1, <3>2
    <3> QED
      BY <3>3, <3>4 DEF Accounting
  <2> QED
    BY <2>1, <2>2, <2>3 DEF MapsInv
<1>5. Stamped'
  <2> SUFFICES ASSUME NEW g \in DOMAIN groups
               PROVE  groups[g].updated <= now' /\ groups[g].updated = S(g, Size(g)).done
    BY <1>1, <1>3 DEF Stamped
  <2>1. groups[g].updated <= now /\ groups[g].updated = S(g, Size(g)).done
    BY DEF EngineInv, SignalsInv, Stamped
  <2>2. groups[g].updated \in Int
    BY <1>2, GroupType DEF CorrelationAssumption
  <2> QED
    BY <1>1, <1>2, <2>1, <2>2
<1>6. SignalTimes' /\ CacheSound'
  <2>1. ASSUME NEW g \in DOMAIN groups, NEW i \in 1..Size(g)
        PROVE  /\ S(g, i).at <= S(g, i).done /\ S(g, i).done <= now'
               /\ now - S(g, i).at >= TimeWindow => now' - S(g, i).at >= TimeWindow
    <3>1. S(g, i).at \in Nat /\ S(g, i).done \in Nat
      BY <1>2, SignalType
    <3>2. S(g, i).at <= S(g, i).done /\ S(g, i).done <= now
      BY DEF EngineInv, SignalsInv, SignalTimes
    <3> QED
      BY <1>1, <1>2, <3>1, <3>2
  <2>2. SignalTimes'
    BY <1>1, <1>3, <2>1 DEF SignalTimes
  <2>3. CacheSound'
    BY <1>1, <1>3, <2>1 DEF EngineInv, SignalsInv, CacheSound
  <2> QED
    BY <2>2, <2>3
<1>7. Joins' /\ Apart'
  <2>1. Joins'
    BY <1>1, <1>3 DEF EngineInv, SignalsInv, Joins
  <2>2. Apart'
    BY <1>1, <1>3 DEF EngineInv, SignalsInv, Apart
  <2> QED
    BY <2>1, <2>2
<1> QED
  BY <1>4, <1>5, <1>6, <1>7 DEF EngineInv, SignalsInv

LEMMA EngineInit == CorrelationAssumption /\ Init => EngineInv
<1> SUFFICES ASSUME CorrelationAssumption, Init PROVE EngineInv
  OBVIOUS
<1>1. DOMAIN groups = {} /\ Cardinality(DOMAIN groups) = 0
  BY FS_EmptySet DEF Init
<1>2. TypeOK
  BY <1>1 DEF Init, TypeOK, CorrelationAssumption
<1>3. IdsIssued /\ IndexSound /\ Accounting
  BY <1>1 DEF Init, IdsIssued, IndexSound, Accounting
<1>4. SignalsInv
  BY <1>1 DEF SignalsInv, Stamped, SignalTimes, Joins, CacheSound, Apart
<1> QED
  BY <1>2, <1>3, <1>4 DEF EngineInv, MapsInv

LEMMA EngineStep == CorrelationAssumption /\ EngineInv /\ [Next]_vars => EngineInv'
BY JoinKeeps, OpenKeeps, CleanupKeeps, OtherStepsKeep DEF Next

-----------------------------------------------------------------------------

(* The inductive invariant: maps and counters in step, and of the signals  *)
(* in the groups their order in time and what the cache still knows.       *)
THEOREM EngineInductive == Spec => []EngineInv
<1> USE CorrelationAssumption
<1>1. Init => EngineInv
  BY EngineInit
<1>2. EngineInv /\ [Next]_vars => EngineInv'
  BY EngineStep
<1> QED
  BY <1>1, <1>2, PTL DEF Spec

(* The index never leads to a group that is gone or to one of other        *)
(* content.                                                                *)
THEOREM IndexIsSound == Spec => []IndexSound
<1>1. EngineInv => IndexSound
  BY DEF EngineInv, MapsInv
<1> QED
  BY <1>1, EngineInductive, PTL

(* The counters agree with each other and with the groups there are. *)
THEOREM CountersAgree == Spec => []Accounting
<1>1. EngineInv => Accounting
  BY DEF EngineInv, MapsInv
<1> QED
  BY <1>1, EngineInductive, PTL

(* Of two signals with one fingerprint in groups, the later was processed  *)
(* at least a time window after the earlier was received.                  *)
THEOREM DuplicatesAreFiltered == Spec => []DuplicatesFiltered
<1> USE CorrelationAssumption
<1>1. EngineInv => DuplicatesFiltered
  <2> SUFFICES ASSUME EngineInv, EnableDeduplication, NEW p \in Held, NEW q \in Held,
                      p # q,
                      SignalFingerprint(At(p).kind) = SignalFingerprint(At(q).kind)
               PROVE  \/ At(p).done <= At(q).done /\ At(q).done - At(p).at >= TimeWindow
                      \/ At(q).done <= At(p).done /\ At(p).done - At(q).at >= TimeWindow
    BY DEF DuplicatesFiltered
  <2>1. /\ p[1] \in DOMAIN groups /\ p[2] \in 1..Size(p[1]) /\ At(p) = S(p[1], p[2])
        /\ q[1] \in DOMAIN groups /\ q[2] \in 1..Size(q[1]) /\ At(q) = S(q[1], q[2])
        /\ p = <<p[1], p[2]>> /\ q = <<q[1], q[2]>>
    BY HeldIs DEF EngineInv, MapsInv
  <2>2. p[1] # q[1] \/ p[2] # q[2]
    BY <2>1
  <2> QED
    BY <2>1, <2>2 DEF EngineInv, SignalsInv, Apart
<1> QED
  BY <1>1, EngineInductive, PTL

(* A group never outgrows its limit, and a signal joins it only within a   *)
(* time window of the addition before it.                                  *)
THEOREM LimitsAreKept == Spec => []GroupLimits
<1> USE CorrelationAssumption
<1>1. EngineInv => GroupLimits
  <2> SUFFICES ASSUME EngineInv PROVE GroupLimits
    OBVIOUS
  <2>1. \A g \in DOMAIN groups : Len(groups[g].signals) <= MaxGroupSize
    BY DEF EngineInv, MapsInv, TypeOK, CorrelationAssumption
  <2>2. ASSUME NEW p \in Held, NEW q \in Held, p[1] = q[1], q[2] = p[2] + 1
        PROVE  At(q).at - At(p).done <= TimeWindow
    <3>1. /\ p[1] \in DOMAIN groups /\ p[2] \in 1..Size(p[1]) /\ At(p) = S(p[1], p[2])
          /\ q[2] \in 1..Size(q[1]) /\ At(q) = S(q[1], q[2])
      BY HeldIs DEF EngineInv, MapsInv
    <3> QED
      BY <2>2, <3>1 DEF EngineInv, SignalsInv, Joins
  <2> QED
    BY <2>1, <2>2 DEF GroupLimits
<1> QED
  BY <1>1, EngineInductive, PTL

(* Only cleanup removes a group, and not before its time to live is over;  *)
(* until then the group only grows.                                        *)
THEOREM NothingForgottenEarly == Spec => NotForgottenEarly
<1> USE CorrelationAssumption
<1> DEFINE Kept == \A g \in DOMAIN groups :
              IF g \in DOMAIN groups'
              THEN \A i \in DOMAIN groups[g].signals :
                      groups'[g].signals[i] = groups[g].signals[i]
              ELSE now - groups[g].updated > GroupTTL
<1>1. EngineInv /\ [Next]_vars => [Kept]_vars
  <2> SUFFICES ASSUME EngineInv, Next PROVE Kept
    OBVIOUS
  <2>1. TypeOK
    BY DEF EngineInv, MapsInv
  <2>2. CASE groups' = groups
    BY <2>2
  <2>3. ASSUME NEW k \in Kinds, NEW at \in 0..MaxTime, JoinGroup(k, at) PROVE Kept
    <3>1. PICK g \in DOMAIN groups : groups' = AddTo(g, k, at)
      <4>1. PICK i \in Deciding(k, at) : \E g \in Candidates(Rules[i], k, at) :
               groups' = AddTo(g, k, at)
        BY <2>3 DEF JoinGroup
      <4> QED
        BY <4>1 DEF Candidates
    <3> DEFINE new == [kind |-> k, at |-> at, done |-> now]
    <3>2. groups[g] \in Group /\ groups[g].signals \in Seq(Signal)
      BY <2>1, GroupType
    <3>3. at \in 0..MaxTime /\ now \in 0..MaxTime
      BY <2>1 DEF TypeOK
    <3>4. new \in Signal
      BY <3>3 DEF Signal
    <3>5. groups' = [groups EXCEPT ![g] = [groups[g] EXCEPT
                       !.signals = Append(groups[g].signals, new), !.updated = now]]
      BY <3>1 DEF AddTo
    <3> HIDE DEF new
    <3>6. \A i \in DOMAIN groups[g].signals :
             Append(groups[g].signals, new)[i] = groups[g].signals[i]
      BY <3>2, <3>4
    <3>7. groups'[g].signals = Append(groups[g].signals, new)
      BY <3>2, <3>5 DEF Group
    <3>8. DOMAIN groups' = DOMAIN groups
          /\ \A h \in DOMAIN groups : h # g => groups'[h] = groups[h]
      BY <3>5
    <3> QED
      BY <3>6, <3>7, <3>8
  <2>4. ASSUME NEW k \in Kinds, NEW at \in 0..MaxTime, OpenGroup(k, at) PROVE Kept
    <3>1. created + 1 \notin DOMAIN groups
      BY <2>1 DEF EngineInv, MapsInv, IdsIssued, TypeOK
    <3>2. \A g \in DOMAIN groups : g \in DOMAIN groups' /\ groups'[g] = groups[g]
      BY <2>4, <3>1 DEF OpenGroup
    <3> QED
      BY <3>2
  <2>5. CASE Cleanup
    <3> SUFFICES ASSUME NEW g \in DOMAIN groups
                 PROVE  IF g \in DOMAIN groups'
                        THEN \A i \in DOMAIN groups[g].signals :
                                groups'[g].signals[i] = groups[g].signals[i]
                        ELSE now - groups[g].updated > GroupTTL
      OBVIOUS
    <3>1. CASE g \in Stale
      <4>1. groups[g].updated < now - GroupTTL
        BY <3>1 DEF Stale
      <4>2. groups[g].updated \in Int /\ now \in Int /\ GroupTTL \in Int
        BY <2>1, GroupType DEF TypeOK, CorrelationAssumption
      <4>3. g \notin DOMAIN groups'
        BY <2>5, <3>1 DEF Cleanup
      <4> QED
        BY <4>1, <4>2, <4>3
    <3>2. CASE g \notin Stale
      BY <2>5, <3>2 DEF Cleanup
    <3> QED
      BY <3>1, <3>2
  <2>6. ASSUME \/ \E k \in Kinds, at \in 0..MaxTime : FilterDuplicate(k, at)
               \/ Stop \/ CleanerExits \/ Tick
        PROVE  groups' = groups
    BY <2>6 DEF FilterDuplicate, Stop, CleanerExits, Tick
  <2> QED
    BY <2>2, <2>3, <2>4, <2>5, <2>6 DEF Next
<1> QED
  BY <1>1, EngineInductive, PTL DEF Spec, NotForgottenEarly

-----------------------------------------------------------------------------
(* The detector.                                                           *)

(* Goroutines that created an incident of rule i and have not set its      *)
(* cooldown yet.                                                           *)
AtCooldown(i) == {p \in Processors : pc[p] = "cooldown" /\ IsFirst(i, matches[p])}

(* Goroutines that have matched rule i and may still create an incident.   *)
Holders(i) == {p \in Processors : i \in matches[p]} \ AtCooldown(i)

(* A rule becomes matched only while its cooldown is over; by then every   *)
(* incident since the last one is of a goroutine still on its way to set   *)
(* the cooldown, so that goroutines are left for those that match now.     *)
BurstSound(i) ==
    /\ burst[i] + Cardinality(Holders(i)) <= Cardinality(Processors)
    /\ cooldown[i] = 0 => burst[i] <= Cardinality(AtCooldown(i))

BurstTyped ==
    /\ burst \in [RuleNames -> Nat]
    /\ cooldown \in [RuleNames -> Nat]
    /\ pc = [p \in Processors |-> pc[p]]
    /\ matches = [p \in Processors |-> matches[p]]

BurstInv == BurstTyped /\ \A i \in RuleNames : BurstSound(i)

LEMMA DisjointGoroutines ==
    ASSUME DetectorAssumption, NEW h \in SUBSET Processors, NEW a \in SUBSET Processors,
           h \cap a = {}
    PROVE  /\ IsFiniteSet(h) /\ IsFiniteSet(a)
           /\ Cardinality(h) \in Nat /\ Cardinality(a) \in Nat
           /\ Cardinality(h) + Cardinality(a) <= Cardinality(Processors)
<1>1. IsFiniteSet(Processors) /\ Cardinality(Processors) \in Nat
  BY FS_CardinalityType DEF DetectorAssumption
<1>2. /\ IsFiniteSet(h) /\ IsFiniteSet(a)
      /\ Cardinality(h) \in Nat /\ Cardinality(a) \in Nat
  BY <1>1, FS_Subset, FS_CardinalityType
<1>3. /\ Cardinality(h \cup a) = Cardinality(h) + Cardinality(a) - Cardinality(h \cap a)
      /\ Cardinality(h \cap a) = 0
  BY <1>2, FS_Union, FS_EmptySet
<1>4. h \cup a \subseteq Processors
  OBVIOUS
<1>5. Cardinality(h \cup a) <= Cardinality(Processors)
  BY ONLY <1>1, <1>4, FS_Subset
<1> QED
  BY <1>1, <1>2, <1>3, <1>5

LEMMA BurstCounts ==
    ASSUME DetectorAssumption, NEW i
    PROVE  /\ IsFiniteSet(Holders(i)) /\ IsFiniteSet(AtCooldown(i))
           /\ Cardinality(Holders(i)) \in Nat /\ Cardinality(AtCooldown(i)) \in Nat
           /\ Cardinality(Processors) \in Nat
           /\ Cardinality(Holders(i)) <= Cardinality(Processors)
<1>1. IsFiniteSet(Processors) /\ Cardinality(Processors) \in Nat
  BY FS_CardinalityType DEF DetectorAssumption
<1>2. Holders(i) \subseteq Processors /\ AtCooldown(i) \subseteq Processors
  BY DEF Holders, AtCooldown
<1> QED
  BY <1>1, <1>2, FS_Subset, FS_CardinalityType

(* Numbers of goroutines before and after a step: nobody new holds the     *)
(* rule, nobody leaves for its cooldown.                                   *)
LEMMA QuietBurst ==
    ASSUME DetectorAssumption, NEW i \in RuleNames, BurstTyped, BurstSound(i),
           burst'[i] = burst[i], cooldown'[i] = 0 => cooldown[i] = 0,
           Holders(i)' \subseteq Holders(i), AtCooldown(i)' = AtCooldown(i)
    PROVE  BurstSound(i)'
<1>1. /\ IsFiniteSet(Holders(i)) /\ Cardinality(Holders(i)) \in Nat
      /\ Cardinality(Processors) \in Nat
  BY BurstCounts
<1>2. /\ IsFiniteSet(Holders(i)') /\ Cardinality(Holders(i)') \in Nat
      /\ Cardinality(Holders(i)') <= Cardinality(Holders(i))
  BY <1>1, FS_Subset, FS_CardinalityType
<1>3. burst[i] \in Nat
  BY DEF BurstTyped
<1>4. burst[i] + Cardinality(Holders(i)') <= Cardinality(Processors)
  BY <1>1, <1>2, <1>3 DEF BurstSound
<1> QED
  BY <1>4 DEF BurstSound

(* Steps at which no goroutine's matches grow and nobody enters or leaves  *)
(* a cooldown.                                                             *)
LEMMA QuietStep ==
    ASSUME DetectorAssumption, BurstInv, UNCHANGED <<burst, cooldown>>,
           pc' = [p \in Processors |-> pc'[p]],
           matches' = [p \in Processors |-> matches'[p]],
           \A p \in Processors :
              /\ matches'[p] \subseteq matches[p]
              /\ pc'[p] = "cooldown" <=> pc[p] = "cooldown"
              /\ pc[p] = "cooldown" => matches'[p] = matches[p]
    PROVE  BurstInv'
<1>1. BurstTyped'
  BY DEF BurstInv, BurstTyped
<1>2. ASSUME NEW i \in RuleNames PROVE BurstSound(i)'
  <2>1. AtCooldown(i)' = AtCooldown(i)
    BY DEF AtCooldown
  <2>2. Holders(i)' \subseteq Holders(i)
    BY <2>1 DEF Holders
  <2>3. burst'[i] = burst[i] /\ cooldown'[i] = cooldown[i] /\ BurstTyped /\ BurstSound(i)
    BY DEF BurstInv
  <2> QED
    BY <2>1, <2>2, <2>3, QuietBurst
<1> QED
  BY <1>1, <1>2 DEF BurstInv

LEMMA OnlyFirst ==
    ASSUME NEW chosen, NEW i \in RuleNames, NEW j \in RuleNames, IsFirst(i, chosen), IsFirst(j, chosen)
    PROVE  i = j
<1>1. i \in Int /\ j \in Int /\ i <= j /\ j <= i
  BY DEF IsFirst, RuleNames
<1> QED
  BY <1>1

(* A goroutine matches a rule whose cooldown is over. *)
LEMMA EvaluateKeepsBurst ==
    ASSUME DetectorAssumption, BurstInv, NEW p \in Processors, NEW r \in RuleNames,
           EvaluateRule(p, r)
    PROVE  BurstInv'
<1>1. /\ pc[p] = "rules" /\ cooldown[r] = 0 /\ UNCHANGED <<pc, cooldown, burst>>
      /\ matches' = [matches EXCEPT ![p] = @ \cup {r}] \/ matches' = matches
  BY DEF EvaluateRule, LooksAt, Ready
<1>2. BurstTyped'
  BY <1>1 DEF BurstInv, BurstTyped
<1>3. ASSUME NEW i \in RuleNames PROVE BurstSound(i)'
  <2>1. burst[i] \in Nat /\ BurstTyped /\ BurstSound(i)
    BY DEF BurstInv, BurstTyped
  <2>2. \A q \in Processors : q # p => matches'[q] = matches[q]
    BY <1>1, <2>1 DEF BurstTyped
  <2>3. AtCooldown(i)' = AtCooldown(i)
    BY <1>1, <2>2 DEF AtCooldown
  <2>4. CASE i # r
    <3>1. \A q \in Processors : i \in matches'[q] <=> i \in matches[q]
      BY <1>1, <2>1, <2>2, <2>4 DEF BurstTyped
    <3>2. Holders(i)' \subseteq Holders(i)
      BY <2>3, <3>1 DEF Holders
    <3> QED
      BY <1>1, <2>1, <2>3, <3>2, QuietBurst
  <2>5. CASE i = r
    <3>1. burst[i] <= Cardinality(AtCooldown(i)) /\ cooldown[i] = 0
      BY <1>1, <2>1, <2>5 DEF BurstSound
    <3>2. PICK h : h = Holders(i)'
      OBVIOUS
    <3>3. h \subseteq Processors /\ h \cap AtCooldown(i) = {}
      BY <2>3, <3>2 DEF Holders
    <3>4. Cardinality(h) \in Nat
          /\ Cardinality(h) + Cardinality(AtCooldown(i)) <= Cardinality(Processors)
      BY <3>3, DisjointGoroutines, BurstCounts DEF AtCooldown
    <3>5. burst[i] + Cardinality(h) <= Cardinality(Processors)
      BY <2>1, <3>1, <3>4, BurstCounts
    <3> QED
      BY <1>1, <2>3, <3>1, <3>2, <3>5 DEF BurstSound
  <2> QED
    BY <2>4, <2>5
<1> QED
  BY <1>2, <1>3 DEF BurstInv

(* It creates the incident: one goroutine fewer holds the rule, one more   *)
(* is on its way to set the cooldown.                                      *)
LEMMA CreateKeepsBurst ==
    ASSUME DetectorAssumption, BurstInv, NEW p \in Processors, NEW r \in RuleNames,
           CreateIncident(p, r)
    PROVE  BurstInv'
<1>1. /\ pc[p] = "create" /\ IsFirst(r, matches[p]) /\ UNCHANGED <<matches, cooldown>>
      /\ pc' = [pc EXCEPT ![p] = "cooldown"]
      /\ \A i \in RuleNames : i # r => burst'[i] = burst[i]
      /\ burst' = [burst EXCEPT ![r] = IF @ < BurstBound THEN @ + 1 ELSE @]
  BY DEF CreateIncident, GoTo, BurstInv, BurstTyped
<1>2. burst'[r] \in Nat /\ burst[r] \in Nat /\ burst'[r] <= burst[r] + 1
  BY <1>1 DEF BurstInv, BurstTyped
<1>3. BurstTyped'
  <2>1. burst' \in [RuleNames -> Nat]
    BY <1>1, <1>2 DEF BurstInv, BurstTyped
  <2> QED
    BY <1>1, <2>1 DEF BurstInv, BurstTyped
<1>4. ASSUME NEW i \in RuleNames PROVE BurstSound(i)'
  <2>1. BurstTyped /\ BurstSound(i)
    BY DEF BurstInv
  <2>2. CASE i # r
    <3>1. ~IsFirst(i, matches[p])
      BY <1>1, <2>2, OnlyFirst
    <3>2. AtCooldown(i)' = AtCooldown(i)
      BY <1>1, <2>1, <3>1 DEF AtCooldown, BurstTyped
    <3>3. Holders(i)' \subseteq Holders(i)
      BY <1>1, <3>2 DEF Holders
    <3> QED
      BY <1>1, <2>1, <2>2, <3>2, <3>3, QuietBurst
  <2>3. CASE i = r
    <3>1. p \notin AtCooldown(i) /\ p \in Holders(i)
      BY <1>1, <2>3 DEF AtCooldown, Holders, IsFirst
    <3>2. AtCooldown(i)' = AtCooldown(i) \cup {p}
      BY <1>1, <2>1, <2>3 DEF AtCooldown, BurstTyped
    <3>3. Holders(i)' = Holders(i) \ {p}
      BY <1>1, <3>2 DEF Holders
    <3>4. Cardinality(AtCooldown(i)') = Cardinality(AtCooldown(i)) + 1
      BY <3>1, <3>2, BurstCounts, FS_AddElement
    <3>5. Cardinality(Holders(i)') = Cardinality(Holders(i)) - 1
      BY <3>1, <3>3, BurstCounts, FS_RemoveElement
    <3>6. /\ Cardinality(AtCooldown(i)) \in Nat /\ Cardinality(Holders(i)) \in Nat
          /\ Cardinality(Processors) \in Nat
      BY BurstCounts
    <3>7. burst'[i] + Cardinality(Holders(i)') <= Cardinality(Processors)
      BY <1>2, <2>1, <2>3, <3>5, <3>6 DEF BurstSound
    <3>8. cooldown[i] = 0 => burst'[i] <= Cardinality(AtCooldown(i)')
      BY <1>2, <2>1, <2>3, <3>4, <3>6 DEF BurstSound
    <3> QED
      BY <1>1, <3>7, <3>8 DEF BurstSound
  <2> QED
    BY <2>2, <2>3
<1> QED
  BY <1>3, <1>4 DEF BurstInv

(* It sets the cooldown. *)
LEMMA CooldownKeepsBurst ==
    ASSUME DetectorAssumption, Cooldown > 0, BurstInv, NEW p \in Processors,
           NEW r \in RuleNames, SetCooldown(p, r)
    PROVE  BurstInv'
<1>1. /\ pc[p] = "cooldown" /\ IsFirst(r, matches[p]) /\ UNCHANGED burst
      /\ cooldown' = [cooldown EXCEPT ![r] = Cooldown]
      /\ matches' = [matches EXCEPT ![p] = @ \ {r}]
      /\ pc' = [pc EXCEPT ![p] = "create"]
  BY DEF SetCooldown, Dismiss, GoTo
<1>2. Cooldown \in Nat /\ Cooldown # 0
  BY DEF DetectorAssumption
<1>3. BurstTyped'
  BY <1>1, <1>2 DEF BurstInv, BurstTyped
<1>4. ASSUME NEW i \in RuleNames PROVE BurstSound(i)'
  <2>1. BurstTyped /\ BurstSound(i)
    BY DEF BurstInv
  <2>2. CASE i # r
    <3>1. ~IsFirst(i, matches[p])
      BY <1>1, <2>2, OnlyFirst
    <3>2. AtCooldown(i)' = AtCooldown(i)
      BY <1>1, <2>1, <3>1 DEF AtCooldown, BurstTyped
    <3>3. Holders(i)' \subseteq Holders(i)
      BY <1>1, <2>1, <3>2 DEF Holders, BurstTyped
    <3>4. cooldown'[i] = cooldown[i] /\ burst'[i] = burst[i]
      BY <1>1, <2>1, <2>2 DEF BurstTyped
    <3> QED
      BY <2>1, <3>2, <3>3, <3>4, QuietBurst
  <2>3. CASE i = r
    <3>1. \A q \in Processors : q # p => matches'[q] = matches[q] /\ pc'[q] = pc[q]
      BY <1>1, <2>1 DEF BurstTyped
    <3>2. i \notin matches'[p]
      BY <1>1, <2>1, <2>3 DEF BurstTyped
    <3>3. Holders(i)' \subseteq Holders(i)
      BY <3>1, <3>2 DEF Holders, AtCooldown
    <3>4. cooldown'[i] # 0
      BY <1>1, <1>2, <2>1, <2>3 DEF BurstTyped
    <3>5. /\ IsFiniteSet(Holders(i)) /\ Cardinality(Holders(i)) \in Nat
          /\ Cardinality(Processors) \in Nat /\ burst[i] \in Nat
      BY <2>1, BurstCounts DEF BurstTyped
    <3>6. /\ Cardinality(Holders(i)') \in Nat
          /\ Cardinality(Holders(i)') <= Cardinality(Holders(i))
      BY <3>3, <3>5, FS_Subset, FS_CardinalityType
    <3>7. burst[i] + Cardinality(Holders(i)') <= Cardinality(Processors)
      BY <2>1, <3>5, <3>6 DEF BurstSound
    <3> QED
      BY <1>1, <3>4, <3>7 DEF BurstSound
  <2> QED
    BY <2>2, <2>3
<1> QED
  BY <1>3, <1>4 DEF BurstInv

(* A cooldown that runs out ends the burst. *)
LEMMA TickKeepsBurst ==
    ASSUME DetectorAssumption, BurstInv, CooldownTick
    PROVE  BurstInv'
<1>1. /\ UNCHANGED <<pc, matches>> /\ BurstTyped
      /\ \A i \in RuleNames :
            /\ cooldown'[i] = IF cooldown[i] > 0 THEN cooldown[i] - 1 ELSE 0
            /\ burst'[i] = IF cooldown[i] = 1 THEN 0 ELSE burst[i]
            /\ burst[i] \in Nat /\ cooldown[i] \in Nat
  BY DEF CooldownTick, processorVars, BurstInv, BurstTyped
<1>2. BurstTyped'
  <2>1. \A i \in RuleNames : cooldown'[i] \in Nat /\ burst'[i] \in Nat
    BY <1>1
  <2>2. /\ cooldown' = [i \in RuleNames |-> cooldown'[i]]
        /\ burst' = [i \in RuleNames |-> burst'[i]]
    BY DEF CooldownTick
  <2> QED
    BY <1>1, <2>1, <2>2 DEF BurstTyped
<1>3. ASSUME NEW i \in RuleNames PROVE BurstSound(i)'
  <2>1. Holders(i)' = Holders(i) /\ AtCooldown(i)' = AtCooldown(i) /\ BurstSound(i)
    BY <1>1 DEF Holders, AtCooldown, BurstInv
  <2>2. CASE cooldown[i] = 1
    <3>1. burst'[i] = 0
      BY <1>1, <2>2
    <3>2. /\ Cardinality(Holders(i)) \in Nat /\ Cardinality(AtCooldown(i)) \in Nat
          /\ Cardinality(Processors) \in Nat
          /\ Cardinality(Holders(i)) <= Cardinality(Processors)
      BY BurstCounts
    <3>3. 0 + Cardinality(Holders(i)) <= Cardinality(Processors)
      BY <3>2
    <3> QED
      BY <2>1, <3>1, <3>2, <3>3 DEF BurstSound
  <2>3. CASE cooldown[i] # 1
    <3>1. burst'[i] = burst[i] /\ (cooldown'[i] = 0 => cooldown[i] = 0)
      BY <1>1, <2>3
    <3> QED
      BY <1>1, <2>1, <3>1, QuietBurst
  <2> QED
    BY <2>2, <2>3
<1> QED
  BY <1>2, <1>3 DEF BurstInv

(* Steps of the processors that match nothing new. *)
LEMMA ProcessingKeepsBurst ==
    ASSUME DetectorAssumption, BurstInv, NEW p \in Processors,
           \/ StoreSignal(p) \/ RulesDone(p) \/ Return(p)
           \/ \E x \in Items : Begin(p, x)
           \/ \E i \in RuleNames : SkipRule(p, i) \/ CreateFails(p, i)
    PROVE  BurstInv'
<1>1. /\ UNCHANGED <<burst, cooldown>>
      /\ pc' = [pc EXCEPT ![p] = pc'[p]]
      /\ pc[p] # "cooldown" /\ pc'[p] # "cooldown"
  BY DEF StoreSignal, RulesDone, Return, Begin, SkipRule, LooksAt, CreateFails, GoTo,
         BurstInv, BurstTyped
<1>2. \/ matches' = matches
      \/ \E fewer \in SUBSET matches[p] : matches' = [matches EXCEPT ![p] = fewer]
  BY DEF StoreSignal, RulesDone, Return, Begin, SkipRule, LooksAt, CreateFails, Dismiss
<1>3. /\ pc = [q \in Processors |-> pc[q]]
      /\ matches = [q \in Processors |-> matches[q]]
  BY DEF BurstInv, BurstTyped
<1>4. /\ pc' = [q \in Processors |-> pc'[q]]
      /\ matches' = [q \in Processors |-> matches'[q]]
  BY <1>1, <1>2, <1>3
<1>5. \A q \in Processors :
         /\ matches'[q] \subseteq matches[q]
         /\ pc'[q] = "cooldown" <=> pc[q] = "cooldown"
         /\ pc[q] = "cooldown" => matches'[q] = matches[q]
  BY <1>1, <1>2, <1>3
<1> QED
  BY <1>1, <1>4, <1>5, QuietStep

LEMMA BurstStep ==
    ASSUME DetectorAssumption, Cooldown > 0, BurstInv, [DetectorNext]_detectorVars
    PROVE  BurstInv'
<1>1. ASSUME NEW p \in Processors, Processing(p) PROVE BurstInv'
  BY <1>1, ProcessingKeepsBurst, EvaluateKeepsBurst, CreateKeepsBurst, CooldownKeepsBurst
     DEF Processing
<1>2. ASSUME NEW p \in Processors, NEW x \in Items, Begin(p, x) PROVE BurstInv'
  BY <1>2, ProcessingKeepsBurst
<1>3. CASE UNCHANGED <<pc, matches, cooldown, burst>>
  BY <1>3 DEF BurstInv, BurstTyped, BurstSound, Holders, AtCooldown
<1>4. CASE \/ Start \/ TickerFires \/ Evaluating \/ StopDetector \/ StopReturn
           \/ StopTimeout \/ CancelRun \/ UNCHANGED detectorVars
  BY <1>3, <1>4 DEF Start, TickerFires, Evaluating, EvalBegin, EvalEnd, EvalExit,
     StopDetector, StopReturn, StopTimeout, CancelRun, detectorVars, processorVars
<1>5. CASE CooldownTick
  BY <1>5, TickKeepsBurst
<1> QED
  BY <1>1, <1>2, <1>4, <1>5 DEF DetectorNext

(* Within one cooldown of a rule each goroutine creates at most one        *)
(* incident, when rules have a cooldown at all (a configuration whose      *)
(* default is 0 switches it off).                                          *)
THEOREM CooldownsBoundBursts == Cooldown > 0 => (DetectorSpec => []BurstBounded)
<1> USE DetectorAssumption
<1> SUFFICES ASSUME Cooldown > 0 PROVE DetectorSpec => []BurstBounded
  OBVIOUS
<1>1. DetectorInit => BurstInv
  <2> SUFFICES ASSUME DetectorInit PROVE BurstInv
    OBVIOUS
  <2>1. BurstTyped
    BY DEF DetectorInit, BurstTyped
  <2>2. ASSUME NEW i \in RuleNames PROVE BurstSound(i)
    <3>1. Holders(i) = {} /\ AtCooldown(i) = {} /\ burst[i] = 0
      BY DEF DetectorInit, Holders, AtCooldown
    <3>2. Cardinality({}) = 0 /\ Cardinality(Processors) \in Nat
      BY FS_EmptySet, FS_CardinalityType DEF DetectorAssumption
    <3> QED
      BY <3>1, <3>2 DEF BurstSound
  <2> QED
    BY <2>1, <2>2 DEF BurstInv
<1>2. BurstInv /\ [DetectorNext]_detectorVars => BurstInv'
  BY BurstStep
<1>3. BurstInv => BurstBounded
  <2> SUFFICES ASSUME BurstInv, NEW i \in RuleNames
               PROVE  burst[i] <= Cardinality(Processors)
    BY DEF BurstBounded
  <2>1. /\ burst[i] \in Nat /\ Cardinality(Holders(i)) \in Nat
        /\ burst[i] + Cardinality(Holders(i)) <= Cardinality(Processors)
        /\ Cardinality(Processors) \in Nat
    BY BurstCounts DEF BurstInv, BurstTyped, BurstSound
  <2> QED
    BY <2>1
<1> QED
  BY <1>1, <1>2, <1>3, PTL DEF DetectorSpec

-----------------------------------------------------------------------------

(* Steps of a processor keep the types. *)
LEMMA ProcessingKeepsTypes ==
    ASSUME DetectorAssumption, DetectorTypeOK, NEW p \in Processors,
           Processing(p) \/ \E x \in Items : Begin(p, x)
    PROVE  DetectorTypeOK'
<1> USE DEF DetectorTypeOK, GoTo, evaluatorVars
<1>0. Len(RuleTypes) \in Nat /\ MaxRulesPerSignal \in Nat /\ Cooldown \in Nat
  BY DEF DetectorAssumption
<1>1. ASSUME NEW x \in Items, Begin(p, x) PROVE DetectorTypeOK'
  BY <1>1 DEF Begin
<1>2. CASE StoreSignal(p)
  BY <1>2 DEF StoreSignal
<1>3. CASE RulesDone(p)
  <2>1. /\ 1 \in 1..(Len(RuleTypes) + 1) /\ 0 \in 0..MaxRulesPerSignal
        /\ matches' \in [Processors -> SUBSET Evaluable]
    BY <1>0, <1>3 DEF RulesDone
  <2> QED
    BY <1>3, <2>1 DEF RulesDone
<1>4. CASE Return(p)
  BY <1>4 DEF Return
<1>5. ASSUME NEW i \in RuleNames, LooksAt(p, i)
      PROVE  /\ next' \in [Processors -> 1..(Len(RuleTypes) + 1)]
             /\ item[p].isGroup \/ evaluated[p] < MaxRulesPerSignal
  <2>1. i + 1 \in 1..(Len(RuleTypes) + 1)
    BY <1>0 DEF RuleNames
  <2>2. evaluated[p] \in Nat
    BY <1>0
  <2> QED
    BY <1>0, <1>5, <2>1, <2>2 DEF LooksAt, LimitReached
<1>6. ASSUME NEW i \in RuleNames, SkipRule(p, i) PROVE DetectorTypeOK'
  BY <1>5, <1>6 DEF SkipRule, LooksAt
<1>7. ASSUME NEW i \in RuleNames, EvaluateRule(p, i) PROVE DetectorTypeOK'
  <2>1. evaluated' \in [Processors -> 0..MaxRulesPerSignal]
    <3>1. CASE item[p].isGroup
      BY <1>7, <3>1 DEF EvaluateRule
    <3>2. CASE ~item[p].isGroup
      <4>1. evaluated[p] < MaxRulesPerSignal /\ evaluated[p] \in Nat
        BY <1>0, <1>5, <1>7, <3>2 DEF EvaluateRule
      <4>2. evaluated[p] + 1 \in 0..MaxRulesPerSignal
        BY <1>0, <4>1
      <4> QED
        BY <1>7, <3>2, <4>2 DEF EvaluateRule
    <3> QED
      BY <3>1, <3>2
  <2>2. matches' \in [Processors -> SUBSET Evaluable]
    <3>1. item[p].meets \in SUBSET Evaluable
      <4>1. ASSUME NEW x \in Items PROVE x.meets \in SUBSET Evaluable
        BY DEF DetectorAssumption, ItemOK
      <4>2. NoItem.meets = {}
        BY DEF NoItem
      <4>3. item[p] \in Items \/ item[p] = NoItem
        OBVIOUS
      <4> QED
        BY <4>1, <4>2, <4>3
    <3> QED
      BY <1>7, <3>1 DEF EvaluateRule
  <2> QED
    BY <1>5, <1>7, <2>1, <2>2 DEF EvaluateRule, LooksAt
<1>8. ASSUME NEW i \in RuleNames, CreateIncident(p, i) PROVE DetectorTypeOK'
  <2>1. BurstBound \in Nat
    BY FS_CardinalityType DEF BurstBound, DetectorAssumption
  <2>2. \A n \in 0..BurstBound : n < BurstBound => n + 1 \in 0..BurstBound
    BY <2>1
  <2>3. burst' \in [RuleNames -> 0..BurstBound]
    BY <1>8, <2>2 DEF CreateIncident
  <2> QED
    BY <1>8, <2>3 DEF CreateIncident
<1>9. ASSUME NEW i \in RuleNames, CreateFails(p, i) \/ SetCooldown(p, i)
      PROVE  DetectorTypeOK'
  <2>1. Cooldown \in 0..Cooldown
    BY <1>0
  <2>2. matches' \in [Processors -> SUBSET Evaluable]
    <3>1. matches' = [matches EXCEPT ![p] = @ \ {i}]
      BY <1>9 DEF CreateFails, SetCooldown, Dismiss
    <3>2. matches[p] \ {i} \in SUBSET Evaluable
      OBVIOUS
    <3> QED
      BY <3>1, <3>2
  <2>3. CASE CreateFails(p, i)
    BY <2>2, <2>3 DEF CreateFails
  <2>4. CASE SetCooldown(p, i)
    BY <2>1, <2>2, <2>4 DEF SetCooldown
  <2> QED
    BY <1>9, <2>3, <2>4
<1> QED
  BY <1>1, <1>2, <1>3, <1>4, <1>6, <1>7, <1>8, <1>9 DEF Processing

(* Type correctness, with the counters that must not pass their limits:    *)
(* the rules evaluated for a signal, and what is left of a cooldown.       *)
THEOREM DetectorTypes == DetectorSpec => []DetectorTypeOK
<1> USE DetectorAssumption
<1>0. Len(RuleTypes) \in Nat /\ MaxRulesPerSignal \in Nat /\ Cooldown \in Nat /\ BurstBound \in Nat
  BY FS_CardinalityType DEF DetectorAssumption, BurstBound
<1>1. DetectorInit => DetectorTypeOK
  <2>1. /\ 0 \in 0..Cooldown /\ 0 \in 0..MaxRulesPerSignal /\ 0 \in 0..BurstBound
        /\ 1 \in 1..(Len(RuleTypes) + 1)
    BY <1>0
  <2> SUFFICES ASSUME DetectorInit PROVE DetectorTypeOK
    OBVIOUS
  <2>2. locked \in BOOLEAN /\ tickReady \in BOOLEAN /\ runDone \in BOOLEAN
    BY Zenon DEF DetectorInit
  <2>3. /\ cooldown \in [RuleNames -> 0..Cooldown]
        /\ burst \in [RuleNames -> 0..BurstBound]
        /\ next \in [Processors -> 1..(Len(RuleTypes) + 1)]
        /\ evaluated \in [Processors -> 0..MaxRulesPerSignal]
    BY <2>1 DEF DetectorInit
  <2>4. /\ pc \in [Processors -> {"idle", "store", "rules", "create", "cooldown"}]
        /\ item \in [Processors -> Items \cup {NoItem}]
        /\ matches \in [Processors -> SUBSET Evaluable]
        /\ evaluator \in {"off", "waiting", "evaluating", "ended"}
        /\ stop \in {"none", "stopping", "returned", "timed_out"}
    BY DEF DetectorInit
  <2> QED
    BY <2>2, <2>3, <2>4 DEF DetectorTypeOK
<1>2. ASSUME DetectorTypeOK, [DetectorNext]_detectorVars PROVE DetectorTypeOK'
  <2>1. CASE \E p \in Processors : Processing(p) \/ \E x \in Items : Begin(p, x)
    BY <1>2, <2>1, ProcessingKeepsTypes
  <2>2. CASE \/ Start \/ TickerFires \/ Evaluating \/ StopDetector \/ StopReturn
             \/ StopTimeout \/ CancelRun \/ UNCHANGED detectorVars
    BY <1>2, <2>2 DEF Start, TickerFires, Evaluating, EvalBegin, EvalEnd, EvalExit,
       StopDetector, StopReturn, StopTimeout, CancelRun, detectorVars, processorVars,
       evaluatorVars, DetectorTypeOK
  <2>3. CASE CooldownTick
    <3>1. \A n \in 0..Cooldown : (IF n > 0 THEN n - 1 ELSE 0) \in 0..Cooldown
      BY <1>0
    <3>2. 0 \in 0..BurstBound
      BY <1>0
    <3>3. /\ cooldown' \in [RuleNames -> 0..Cooldown]
          /\ burst' \in [RuleNames -> 0..BurstBound]
      BY <1>2, <2>3, <3>1, <3>2 DEF CooldownTick, DetectorTypeOK
    <3> QED
      BY <1>2, <2>3, <3>3 DEF CooldownTick, processorVars, evaluatorVars, DetectorTypeOK
  <2> QED
    BY <1>2, <2>1, <2>2, <2>3 DEF DetectorNext
<1> QED
  BY <1>1, <1>2, PTL DEF DetectorSpec

=============================================================================
