-------------------------- MODULE CorrelationEngine --------------------------
(***************************************************************************)
(* The signal correlation engine, internal/correlation/engine.go.          *)
(* ProcessSignal and cleanup each hold the engine's mutex from end to end, *)
(* so each is one step.  Two clocks meet in it: a signal carries the time  *)
(* it was received, groups carry the time they were last added to, and a   *)
(* signal is processed some time after it was received.                    *)
(***************************************************************************)
EXTENDS Integers, Sequences, FiniteSets

CONSTANTS Kinds,          \* signal contents, see Kind
          Rules,          \* types of the enabled rules, highest priority first
          TimeWindow, MaxGroupSize, GroupTTL,
          EnableDeduplication,
          MaxDelay,       \* how late a received signal may be processed
          MaxSignals,     \* bound on the signals processed
          MaxTime         \* bound on the clock

(* A signal's content, as far as the engine tells contents apart: title    *)
(* stands for source and title, critical for the labels the label rule     *)
(* asks for.                                                               *)
ASSUME CorrelationAssumption ==
    /\ \A k \in Kinds : DOMAIN k = {"title", "description", "service", "critical"}
    /\ Rules \in Seq({"time", "service", "labels", "fingerprint"})
    /\ TimeWindow \in Nat \ {0} /\ MaxGroupSize \in Nat \ {0}
    /\ GroupTTL \in Nat /\ MaxDelay \in Nat
    /\ EnableDeduplication \in BOOLEAN
    /\ MaxSignals \in Nat /\ MaxTime \in Nat

SignalFingerprint(k) == <<k.title, k.service, k.critical>>
ContentFingerprint(k) == <<k.title, k.description, k.service>>
GroupKey(k) == k.service
MatchesLabels(k) == k.critical

SignalFingerprints == {SignalFingerprint(k) : k \in Kinds}
ContentFingerprints == {ContentFingerprint(k) : k \in Kinds}

(* Group ids are issued in order; generateGroupID takes the nanosecond     *)
(* clock, which two creations under one mutex do not share.                *)
Ids == 1..MaxSignals
None == 0
Never == -1

Signal == [kind : Kinds, at : 0..MaxTime, done : 0..MaxTime]
NoGroup == [fingerprint |-> None, signals |-> <<>>, updated |-> 0]

VARIABLES now,
          groups,         \* the live groups: a function on a set of ids
          fingerprints,   \* content fingerprint -> group id, None if absent
          dedupeCache,    \* signal fingerprint -> received time, Never if absent
          processed, created, correlated, filtered, active,   \* metrics
          cleaner         \* the cleanup goroutine

metrics == <<processed, created, correlated, filtered, active>>
vars == <<now, groups, fingerprints, dedupeCache, metrics, cleaner>>

Group == [fingerprint : ContentFingerprints, signals : Seq(Signal),
          updated : 0..MaxTime]

TypeOK ==
    /\ now \in 0..MaxTime
    /\ DOMAIN groups \subseteq Ids
    /\ \A g \in DOMAIN groups :
          groups[g] \in Group /\ Len(groups[g].signals) \in 1..MaxGroupSize
    /\ fingerprints \in [ContentFingerprints -> Ids \cup {None}]
    /\ dedupeCache \in [SignalFingerprints -> 0..MaxTime \cup {Never}]
    /\ processed \in 0..MaxSignals /\ created \in Nat /\ correlated \in Nat
    /\ filtered \in Nat /\ active \in Int
    /\ cleaner \in {"running", "stopping", "ended"}

Init ==
    /\ now = 0
    /\ groups = [g \in {} |-> NoGroup]
    /\ fingerprints = [c \in ContentFingerprints |-> None]
    /\ dedupeCache = [f \in SignalFingerprints |-> Never]
    /\ processed = 0 /\ created = 0 /\ correlated = 0 /\ filtered = 0 /\ active = 0
    /\ cleaner = "running"

-----------------------------------------------------------------------------
(* Which groups a rule offers to a signal received at a given time.        *)

HasRoom(g) == Len(groups[g].signals) < MaxGroupSize

(* Mutant: groups stay open however old they are. *)
OpenToAny(g, at) == HasRoom(g)

OpenTo(g, at) == HasRoom(g) /\ groups[g].updated >= at - TimeWindow

First(g) == groups[g].signals[1].kind

(* time and fingerprint ask for After(cutoff), the others for not Before.  *)
Candidates(rule, k, at) ==
    {g \in DOMAIN groups :
        /\ OpenTo(g, at)
        /\ \/ rule = "time" /\ groups[g].updated # at - TimeWindow
           \/ rule = "service" /\ GroupKey(First(g)) = GroupKey(k)
           \/ rule = "labels" /\ MatchesLabels(k) /\ MatchesLabels(First(g))
           \/ /\ rule = "fingerprint" /\ groups[g].updated # at - TimeWindow
              /\ fingerprints[ContentFingerprint(k)] = g}

(* The rules in order of priority: the first that offers a group decides.  *)
Deciding(k, at) ==
    {i \in DOMAIN Rules :
        /\ Candidates(Rules[i], k, at) # {}
        /\ \A j \in 1..(i - 1) : Candidates(Rules[j], k, at) = {}}

IsDuplicate(k, at) ==
    LET seen == dedupeCache[SignalFingerprint(k)] IN
    EnableDeduplication /\ seen # Never /\ now - seen < TimeWindow

Remember(k, at) ==
    IF EnableDeduplication
    THEN [dedupeCache EXCEPT ![SignalFingerprint(k)] = at] ELSE dedupeCache

-----------------------------------------------------------------------------
(* ProcessSignal: a duplicate is dropped, a signal joins a group, or it    *)
(* opens one.                                                              *)

Process(k, at) ==
    /\ processed < MaxSignals
    /\ at \in 0..now /\ now - at <= MaxDelay
    /\ processed' = processed + 1
    /\ UNCHANGED <<now, cleaner>>

FilterDuplicate(k, at) ==
    /\ IsDuplicate(k, at)
    /\ Process(k, at)
    /\ filtered' = filtered + 1
    /\ UNCHANGED <<groups, fingerprints, dedupeCache, created, correlated, active>>

AddTo(g, k, at) ==
    [groups EXCEPT ![g].signals = Append(@, [kind |-> k, at |-> at, done |-> now]),
                   ![g].updated = now]

JoinGroup(k, at) ==
    /\ ~IsDuplicate(k, at)
    /\ Process(k, at)
    /\ \E i \in Deciding(k, at) : \E g \in Candidates(Rules[i], k, at) :
          groups' = AddTo(g, k, at)
    /\ dedupeCache' = Remember(k, at)
    /\ correlated' = correlated + 1
    /\ UNCHANGED <<fingerprints, created, filtered, active>>

NewGroup(k, at) ==
    [fingerprint |-> ContentFingerprint(k), updated |-> now,
     signals |-> <<[kind |-> k, at |-> at, done |-> now]>>]

OpenGroup(k, at) ==
    LET id == created + 1 IN
    /\ ~IsDuplicate(k, at)
    /\ Process(k, at)
    /\ Deciding(k, at) = {}
    /\ groups' = [g \in DOMAIN groups \cup {id} |->
                    IF g = id THEN NewGroup(k, at) ELSE groups[g]]
    /\ fingerprints' = [fingerprints EXCEPT ![ContentFingerprint(k)] = id]
    /\ dedupeCache' = Remember(k, at)
    /\ created' = created + 1
    /\ active' = active + 1
    /\ UNCHANGED <<correlated, filtered>>

-----------------------------------------------------------------------------
(* The cleanup goroutine and Stop.  When a tick and the stop signal are    *)
(* both there, select may still take the tick.                             *)

(* Mutant: groups are dropped after the correlation window. *)
StaleByWindow == {g \in DOMAIN groups : groups[g].updated < now - TimeWindow}

Stale == {g \in DOMAIN groups : groups[g].updated < now - GroupTTL}

(* Mutant: the cache forgets what it has seen at the next cleanup. *)
DedupeCutoffNow == now

DedupeCutoff == now - 2 * TimeWindow

(* Mutant: the index keeps the fingerprints of the groups that go. *)
ForgetNothing == fingerprints

ForgetFingerprints ==
    [c \in ContentFingerprints |->
        IF \E g \in Stale : groups[g].fingerprint = c THEN None ELSE fingerprints[c]]

(* Mutant: the gauge is decremented once per cleanup. *)
StillActiveOnce == IF Stale = {} THEN active ELSE active - 1

StillActive == active - Cardinality(Stale)

Cleanup ==
    /\ cleaner # "ended"
    /\ groups' = [g \in DOMAIN groups \ Stale |-> groups[g]]
    /\ fingerprints' = ForgetFingerprints
    /\ active' = StillActive
    /\ dedupeCache' = [f \in SignalFingerprints |->
          IF dedupeCache[f] < DedupeCutoff THEN Never ELSE dedupeCache[f]]
    /\ UNCHANGED <<now, processed, created, correlated, filtered, cleaner>>

(* Stop closes the channel and waits.  A second call would close it again: *)
(* callers stop an engine once.                                            *)
Stop ==
    /\ cleaner = "running"
    /\ cleaner' = "stopping"
    /\ UNCHANGED <<now, groups, fingerprints, dedupeCache, metrics>>

CleanerExits ==
    /\ cleaner = "stopping"
    /\ cleaner' = "ended"
    /\ UNCHANGED <<now, groups, fingerprints, dedupeCache, metrics>>

Tick ==
    /\ now < MaxTime
    /\ now' = now + 1
    /\ UNCHANGED <<groups, fingerprints, dedupeCache, metrics, cleaner>>

Next ==
    \/ \E k \in Kinds, at \in 0..MaxTime :
          FilterDuplicate(k, at) \/ JoinGroup(k, at) \/ OpenGroup(k, at)
    \/ Cleanup \/ Stop \/ CleanerExits \/ Tick

Spec == Init /\ [][Next]_vars

-----------------------------------------------------------------------------
(* Properties                                                              *)

(* The fingerprint index never leads to a group that is gone or to one of  *)
(* other content: cleanup and creation keep the two maps in step.          *)
IndexSound ==
    \A c \in ContentFingerprints : fingerprints[c] # None =>
        /\ fingerprints[c] \in DOMAIN groups
        /\ groups[fingerprints[c]].fingerprint = c

(* The counters, each kept on its own path, agree with each other and with *)
(* the groups there are.                                                   *)
Accounting ==
    /\ created + correlated + filtered = processed
    /\ active = Cardinality(DOMAIN groups)

Held == {p \in (DOMAIN groups) \X (1..MaxGroupSize) : p[2] <= Len(groups[p[1]].signals)}
At(p) == groups[p[1]].signals[p[2]]

(* Deduplication: of two signals with one fingerprint that both sit in a   *)
(* group, the later was processed at least a time window after the earlier *)
(* was received, whatever the cleanup of the cache removed in between.     *)
DuplicatesFiltered ==
    EnableDeduplication => \A p, q \in Held :
        p # q /\ SignalFingerprint(At(p).kind) = SignalFingerprint(At(q).kind) =>
            \/ At(p).done <= At(q).done /\ At(q).done - At(p).at >= TimeWindow
            \/ At(q).done <= At(p).done /\ At(p).done - At(q).at >= TimeWindow

(* A group never outgrows its limit, and a signal joins it only if it was  *)
(* received within a time window of the group's previous addition, however *)
(* late it is processed.                                                   *)
GroupLimits ==
    /\ \A g \in DOMAIN groups : Len(groups[g].signals) <= MaxGroupSize
    /\ \A p, q \in Held : p[1] = q[1] /\ q[2] = p[2] + 1 =>
          At(q).at - At(p).done <= TimeWindow

(* A group and its signals disappear only when nothing was added to it for *)
(* the group's time to live, and until then the group only grows.          *)
NotForgottenEarly ==
    [][\A g \in DOMAIN groups :
          IF g \in DOMAIN groups'
          THEN \A i \in DOMAIN groups[g].signals :
                  groups'[g].signals[i] = groups[g].signals[i]
          ELSE now - groups[g].updated > GroupTTL]_vars

=============================================================================
