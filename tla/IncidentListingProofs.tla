------------------------ MODULE IncidentListingProofs ------------------------
(***************************************************************************)
(* Paging by creation time misses nothing whose stamp is its own, and an   *)
(* undisturbed walk in any order is exact: for any number of incidents,    *)
(* statuses and requests, and any readings of the clock.                   *)
(***************************************************************************)
EXTENDS IncidentListing, FiniteSetTheorems, TLAPS

-----------------------------------------------------------------------------
(* What the operators return. *)

LEMMA LimitType == ASSUME NEW q \in Request PROVE Limit(q) \in Nat /\ Limit(q) >= 1
<1>1. q.limit \in Int
  BY DEF Request
<1> QED
  BY <1>1 DEF Limit

LEMMA KeyType ==
    ASSUME ListingAssumption, TypeOK, NEW q \in Request, NEW id \in Ids
    PROVE  Key(q, id) \in Nat
BY DEF ListingAssumption, TypeOK, Row, Key

LEMMA ListedFinite ==
    ASSUME ListingAssumption, NEW q
    PROVE  IsFiniteSet(Listed(q)) /\ Cardinality(Listed(q)) \in Nat
BY FS_Subset, FS_CardinalityType DEF ListingAssumption, Listed

LEMMA AheadFinite ==
    ASSUME ListingAssumption, NEW q, NEW id
    PROVE  IsFiniteSet(Ahead(q, id)) /\ Cardinality(Ahead(q, id)) \in Nat
<1>1. Ahead(q, id) \in SUBSET Listed(q)
  BY DEF Ahead
<1> QED
  BY <1>1, ListedFinite, FS_Subset, FS_CardinalityType

(* An incident of the list has fewer before it than the list is long. *)
LEMMA AheadBound ==
    ASSUME ListingAssumption, TypeOK, NEW q \in Request, NEW id \in Listed(q)
    PROVE  Cardinality(Ahead(q, id)) < Cardinality(Listed(q))
<1>1. id \in Ids
  BY DEF Listed
<1>2. ~Sooner(q, id, id)
  BY <1>1, KeyType DEF Sooner
<1>3. Ahead(q, id) \in SUBSET (Listed(q) \ {id})
  BY <1>2 DEF Ahead
<1>4. /\ IsFiniteSet(Listed(q) \ {id})
      /\ Cardinality(Listed(q) \ {id}) = Cardinality(Listed(q)) - 1
  BY ListedFinite, FS_RemoveElement
<1>5. Cardinality(Ahead(q, id)) <= Cardinality(Listed(q) \ {id})
  BY <1>3, <1>4, FS_Subset
<1> QED
  BY <1>4, <1>5, ListedFinite, AheadFinite

LEMMA KeysAndTies ==
    ASSUME ListingAssumption, TypeOK, NEW q \in Request, NEW tie \in Ties,
           NEW id \in Listed(q)
    PROVE  id \in Ids /\ Key(q, id) \in Nat /\ tie[id] \in Nat
<1>1. id \in Ids
  BY DEF Listed
<1> QED
  BY <1>1, KeyType, FS_CardinalityType DEF Ties, ListingAssumption

(* Whatever the order of ties, no two incidents have the same position. *)
LEMMA PositionsDiffer ==
    ASSUME ListingAssumption, TypeOK, NEW q \in Request, NEW tie \in Ties,
           NEW i \in Listed(q), NEW j \in Listed(q), i # j
    PROVE  Position(q, tie, i) # Position(q, tie, j)
<1> DEFINE Sooners(id) == {k \in Listed(q) : Before(q, tie, k, id)}
<1>1. \A id : IsFiniteSet(Sooners(id)) /\ Cardinality(Sooners(id)) \in Nat
  <2>1. \A id : Sooners(id) \in SUBSET Listed(q)
    OBVIOUS
  <2> QED
    BY <2>1, ListedFinite, FS_Subset, FS_CardinalityType
<1>2. ASSUME NEW a \in Listed(q), NEW b \in Listed(q), Before(q, tie, a, b)
      PROVE  Cardinality(Sooners(a)) < Cardinality(Sooners(b))
  <2>1. \A c \in Sooners(a) : Before(q, tie, c, b) /\ c # a
    <3> SUFFICES ASSUME NEW c \in Listed(q), Before(q, tie, c, a)
                 PROVE  Before(q, tie, c, b) /\ c # a
      OBVIOUS
    <3>1. /\ Key(q, a) \in Nat /\ Key(q, b) \in Nat /\ Key(q, c) \in Nat
          /\ tie[a] \in Nat /\ tie[b] \in Nat /\ tie[c] \in Nat
      BY KeysAndTies
    <3> QED
      BY <1>2, <3>1 DEF Before, Sooner
  <2>2. Sooners(a) \in SUBSET (Sooners(b) \ {a}) /\ a \in Sooners(b)
    BY <1>2, <2>1
  <2> HIDE DEF Sooners
  <2>3. /\ IsFiniteSet(Sooners(b) \ {a})
        /\ Cardinality(Sooners(b) \ {a}) = Cardinality(Sooners(b)) - 1
    BY <1>1, <2>2, FS_RemoveElement
  <2>4. Cardinality(Sooners(a)) <= Cardinality(Sooners(b) \ {a})
    BY <2>2, <2>3, FS_Subset
  <2> QED
    BY <1>1, <2>3, <2>4
<1>3. Before(q, tie, i, j) \/ Before(q, tie, j, i)
  <2>1. /\ Key(q, i) \in Nat /\ Key(q, j) \in Nat
        /\ tie[i] \in Nat /\ tie[j] \in Nat /\ i \in Ids /\ j \in Ids
    BY KeysAndTies
  <2>2. tie[i] # tie[j]
    BY <2>1 DEF Ties
  <2> QED
    BY <2>1, <2>2 DEF Before, Sooner
<1>4. \A id : Position(q, tie, id) = Cardinality(Sooners(id))
  BY DEF Position
<1> HIDE DEF Sooners
<1> QED
  BY <1>1, <1>2, <1>3, <1>4

(* The order of ties does not matter to an incident without one. *)
LEMMA PositionIs ==
    ASSUME ListingAssumption, TypeOK, NEW q \in Request, NEW tie \in Ties,
           NEW id \in Listed(q), Alone(q, id)
    PROVE  Position(q, tie, id) = Cardinality(Ahead(q, id))
<1>1. ASSUME NEW j \in Listed(q)
      PROVE  Before(q, tie, j, id) <=> Sooner(q, j, id)
  <2>1. tie[id] \in Nat
    BY KeysAndTies
  <2>2. j # id => Key(q, j) # Key(q, id)
    BY DEF Alone
  <2> QED
    BY <2>1, <2>2 DEF Before
<1>2. {j \in Listed(q) : Before(q, tie, j, id)} = Ahead(q, id)
  BY <1>1 DEF Ahead
<1> QED
  BY <1>2 DEF Position

LEMMA PageIs ==
    ASSUME ListingAssumption, TypeOK, NEW q \in Request, DistinctKeys(q),
           NEW tie \in Ties, NEW offset \in Nat
    PROVE  Page(q, tie, offset) =
             {id \in Listed(q) : /\ Cardinality(Ahead(q, id)) >= offset
                                 /\ Cardinality(Ahead(q, id)) < offset + Limit(q)}
BY PositionIs DEF Page, DistinctKeys

(* A page is at most as long as the limit. *)
LEMMA PageSize ==
    ASSUME ListingAssumption, TypeOK, NEW q \in Request,
           NEW tie \in Ties, NEW offset \in Nat
    PROVE  /\ Cardinality(Page(q, tie, offset)) \in Nat
           /\ Cardinality(Page(q, tie, offset)) <= Limit(q)
<1> DEFINE page == Page(q, tie, offset)
           slots == offset..(offset + Limit(q) - 1)
           f == [id \in page |-> Position(q, tie, id)]
<1>1. page \in SUBSET Listed(q)
  BY DEF Page
<1>2. IsFiniteSet(page) /\ Cardinality(page) \in Nat
  BY <1>1, ListedFinite, FS_Subset, FS_CardinalityType
<1>3. Limit(q) \in Nat /\ Limit(q) >= 1
  BY LimitType
<1>4. IsFiniteSet(slots) /\ Cardinality(slots) = Limit(q)
  <2>1. \A n \in Nat : n >= 1 =>
           /\ IsFiniteSet(offset..(offset + n - 1))
           /\ Cardinality(offset..(offset + n - 1)) = n
    <3> SUFFICES ASSUME NEW n \in Nat, n >= 1
                 PROVE  /\ IsFiniteSet(offset..(offset + n - 1))
                        /\ Cardinality(offset..(offset + n - 1)) = n
      OBVIOUS
    <3> DEFINE last == offset + n - 1
    <3>1. last \in Int /\ last >= offset /\ last - offset + 1 = n
      OBVIOUS
    <3> HIDE DEF last
    <3>2. IsFiniteSet(offset..last) /\ Cardinality(offset..last) = n
      BY <3>1, FS_Interval
    <3> QED
      BY <3>2 DEF last
  <2> QED
    BY <1>3, <2>1
<1>5. f \in [page -> slots]
  <2>1. ASSUME NEW id \in page PROVE Position(q, tie, id) \in slots
    <3>1. Position(q, tie, id) >= offset /\ Position(q, tie, id) < offset + Limit(q)
      BY <2>1 DEF Page
    <3>2. Position(q, tie, id) \in Nat
      <4>1. {k \in Listed(q) : Before(q, tie, k, id)} \in SUBSET Listed(q)
        OBVIOUS
      <4> QED
        BY <4>1, ListedFinite, FS_Subset, FS_CardinalityType DEF Position
    <3> QED
      BY <1>3, <3>1, <3>2
  <2> QED
    BY <2>1
<1>6. ASSUME Cardinality(page) > Limit(q) PROVE FALSE
  <2>1. PICK i \in page, j \in page : i # j /\ f[i] = f[j]
    <3> HIDE DEF page, slots, f
    <3> QED
      BY <1>2, <1>3, <1>4, <1>5, <1>6, FS_PigeonHole
  <2>2. Position(q, tie, i) = Position(q, tie, j)
    BY <2>1
  <2> QED
    BY <1>1, <2>1, <2>2, PositionsDiffer
<1> QED
  BY <1>2, <1>3, <1>6

(* When has_more is false in either repository, nothing lies behind the    *)
(* page.                                                                   *)
LEMMA LastPage ==
    ASSUME ListingAssumption, TypeOK, NEW q \in Request,
           NEW tie \in Ties, NEW offset \in Nat,
           \/ ~HasMore(offset + Limit(q), Cardinality(Listed(q)))
           \/ ~HasMore(offset + Cardinality(Page(q, tie, offset)), Cardinality(Listed(q))),
           NEW id \in Listed(q)
    PROVE  Cardinality(Ahead(q, id)) < offset + Limit(q)
<1>1. Cardinality(Listed(q)) <= offset + Limit(q)
  BY PageSize, LimitType, ListedFinite DEF HasMore
<1> QED
  BY <1>1, AheadBound, AheadFinite, LimitType, ListedFinite

-----------------------------------------------------------------------------
(* Steps that turn a page.                                                 *)

LEMMA TurnType ==
    ASSUME walk \in Walk, NEW a \in {"page", "done"}, NEW n \in Nat,
           NEW s \in SUBSET Ids, NEW r \in BOOLEAN, NEW m \in BOOLEAN
    PROVE  [walk EXCEPT !.at = a, !.offset = n, !.seen = s, !.repeated = r,
                        !.miscounted = m] \in Walk
BY DEF Walk

LEMMA PageTurned ==
    ASSUME ListingAssumption, ListingInv, Walking,
           NEW tie \in Ties, NEW total \in Nat, NEW more \in BOOLEAN,
           Turn(Page(walk.request, tie, walk.offset), total, more),
           UNCHANGED row,
           \/ /\ total = Cardinality(Listed(walk.request))
              /\ more = HasMore(walk.offset + Limit(walk.request), total)
           \/ /\ walk.at = "counted" /\ total = walk.counted
              /\ more = HasMore(walk.offset
                           + Cardinality(Page(walk.request, tie, walk.offset)), total)
    PROVE  ListingInv'
<1> DEFINE q == walk.request
           o == walk.offset
           page == Page(q, tie, o)
<1>1. TypeOK /\ q \in Request /\ o \in Nat /\ walk \in Walk
  BY DEF ListingInv, TypeOK, Walk, ListingAssumption
<1>2. Limit(q) \in Nat /\ Limit(q) >= 1
  BY <1>1, LimitType
<1>3. page \subseteq Listed(q) /\ page \subseteq Ids
  BY DEF Page, Listed
<1>4. /\ walk'.at = (IF more THEN "page" ELSE "done") /\ walk'.request = q
      /\ walk'.offset = o + Limit(q) /\ walk'.seen = walk.seen \cup page
      /\ walk'.first = walk.first /\ walk'.left = walk.left
      /\ walk'.torn = walk.torn /\ walk'.changed = walk.changed
      /\ walk'.repeated = (walk.repeated \/ page \cap walk.seen # {})
      /\ walk'.miscounted = (walk.miscounted \/ total # Cardinality(Listed(q)))
  BY <1>1 DEF Turn, Walk
<1>5. /\ Listed(walk.request)' = Listed(q)
      /\ DistinctKeys(walk.request)' = DistinctKeys(q)
      /\ \A id : Alone(walk.request, id)' = Alone(q, id)
      /\ \A id : Ahead(walk.request, id)' = Ahead(q, id)
  BY <1>4 DEF Listed, Stored, Matches, DistinctKeys, Alone, Key, Ahead, Sooner
<1>6. ASSUME ~more,
             walk.at = "counted" => walk.counted = Cardinality(Listed(q)),
             NEW id \in Listed(q)
      PROVE  Cardinality(Ahead(q, id)) < o + Limit(q)
  <2>1. \/ ~HasMore(o + Limit(q), Cardinality(Listed(q)))
        \/ ~HasMore(o + Cardinality(page), Cardinality(Listed(q)))
    BY <1>6
  <2> QED
    BY <1>1, <1>6, <2>1, LastPage
<1>7. ASSUME SortBy(q) = "created_at", ~walk.left, ~walk.torn,
             NEW id \in walk.first \ (walk.seen \cup page), Alone(q, id)
      PROVE  /\ id \in Listed(q)
             /\ Cardinality(Ahead(q, id)) >= o + Limit(q)
  <2>1. id \in Listed(q)
    BY <1>7 DEF ListingInv, FirstStay
  <2>2. Cardinality(Ahead(q, id)) >= o
    BY <1>7 DEF ListingInv, UnseenAhead
  <2>3. Position(q, tie, id) = Cardinality(Ahead(q, id))
    BY <1>1, <1>7, <2>1, PositionIs
  <2>4. ~(Cardinality(Ahead(q, id)) < o + Limit(q))
    BY <1>7, <2>1, <2>2, <2>3 DEF Page
  <2> QED
    BY <1>1, <1>2, <2>1, <2>4, AheadFinite
<1>8. ASSUME ~walk.changed, DistinctKeys(q)
      PROVE  /\ walk.seen \cup page =
                  {id \in Listed(q) : Cardinality(Ahead(q, id)) < o + Limit(q)}
             /\ ~walk'.repeated /\ ~walk'.miscounted
             /\ walk.at = "counted" => walk.counted = Cardinality(Listed(q))
  <2>1. /\ walk.seen = {id \in Listed(q) : Cardinality(Ahead(q, id)) < o}
        /\ ~walk.repeated /\ ~walk.miscounted
        /\ walk.at = "counted" => walk.counted = Cardinality(Listed(q))
    BY <1>8 DEF ListingInv, QuietSeen
  <2>2. page = {id \in Listed(q) : /\ Cardinality(Ahead(q, id)) >= o
                                   /\ Cardinality(Ahead(q, id)) < o + Limit(q)}
    BY <1>1, <1>8, PageIs
  <2>3. \A id : Cardinality(Ahead(q, id)) \in Nat
    BY AheadFinite
  <2>4. walk.seen \cup page =
           {id \in Listed(q) : Cardinality(Ahead(q, id)) < o + Limit(q)}
    BY <1>1, <1>2, <2>1, <2>2, <2>3
  <2>5. page \cap walk.seen = {}
    BY <1>1, <2>1, <2>2, <2>3
  <2> QED
    BY <1>4, <2>1, <2>4, <2>5
<1> HIDE DEF page
<1>9. TypeOK'
  <2> DEFINE r == walk.repeated \/ page \cap walk.seen # {}
             m == walk.miscounted \/ total # Cardinality(Listed(q))
             a == IF more THEN "page" ELSE "done"
  <2>2. /\ o + Limit(q) \in Nat /\ walk.seen \cup page \in SUBSET Ids
        /\ a \in {"page", "done"} /\ r \in BOOLEAN /\ m \in BOOLEAN
    BY <1>1, <1>2, <1>3 DEF Walk
  <2>3. walk' = [walk EXCEPT !.at = a, !.offset = o + Limit(q),
                             !.seen = walk.seen \cup page, !.repeated = r,
                             !.miscounted = m]
    BY DEF Turn, page
  <2>1. walk' \in Walk
    <3> HIDE DEF r, m, a
    <3> QED
      BY <1>1, <2>2, <2>3, TurnType
  <2> QED
    BY <1>1, <2>1 DEF TypeOK
<1>11. FirstStay'
  BY <1>4, <1>5 DEF ListingInv, FirstStay, Walking
<1>12. CountFresh'
  BY <1>4 DEF CountFresh
<1>13. UnseenAhead'
  BY <1>4, <1>5, <1>7 DEF UnseenAhead, Walking, SortBy
<1>14. QuietSeen'
  BY <1>4, <1>5, <1>8 DEF QuietSeen, Walking
<1>15. PagesMissNothing'
  <2> SUFFICES ASSUME ~more, SortBy(q) = "created_at", ~walk.left, ~walk.torn,
                      NEW id \in walk.first, id \notin walk.seen \cup page,
                      Alone(q, id)
               PROVE  FALSE
    BY <1>4, <1>5 DEF PagesMissNothing, SortBy
  <2>1. /\ id \in Listed(q)
        /\ Cardinality(Ahead(q, id)) >= o + Limit(q)
    BY <1>7
  <2>2. walk.at = "counted" => walk.counted = Cardinality(Listed(q))
    BY DEF ListingInv, CountFresh
  <2>3. Cardinality(Ahead(q, id)) < o + Limit(q)
    BY <1>6, <2>1, <2>2
  <2> QED
    BY <1>1, <1>2, <2>1, <2>3, AheadFinite
<1>16. QuietWalkExact'
  <2> SUFFICES ASSUME ~more, ~walk.changed, DistinctKeys(q)
               PROVE  /\ walk.seen \cup page = Listed(q)
                      /\ ~walk'.repeated /\ ~walk'.miscounted
    BY <1>4, <1>5 DEF QuietWalkExact
  <2> QED
    BY <1>6, <1>8
<1> QED
  BY <1>9, <1>11, <1>12, <1>13, <1>14, <1>15, <1>16 DEF ListingInv

-----------------------------------------------------------------------------
(* Steps that change an incident.                                          *)

(* While nothing leaves the list and stamps stay, whatever stood before an *)
(* incident still does.                                                    *)
LEMMA AheadGrows ==
    ASSUME ListingAssumption, TypeOK, NEW q \in Request, SortBy(q) = "created_at",
           Listed(q) \subseteq Listed(q)', NEW id \in Listed(q),
           \A i \in Ids : Stored(i) /\ Stored(i)' => row'[i].created = row[i].created
    PROVE  /\ Cardinality(Ahead(q, id)) <= Cardinality(Ahead(q, id)')
           /\ Alone(q, id)' => Alone(q, id)
<1>1. \A j \in Listed(q) : j \in Ids /\ row'[j].created = row[j].created
  BY DEF Listed
<1>2. \A j \in Ids : Key(q, j) = row[j].created /\ Key(q, j)' = row'[j].created
  BY DEF Key
<1>3. Ahead(q, id) \in SUBSET (Ahead(q, id)')
  BY <1>1, <1>2 DEF Ahead, Sooner
<1>4. IsFiniteSet(Ahead(q, id)')
  <2>1. Ahead(q, id)' \in SUBSET Ids
    BY DEF Ahead, Listed
  <2> QED
    BY <2>1, FS_Subset DEF ListingAssumption
<1>5. Alone(q, id)' => Alone(q, id)
  BY <1>1, <1>2 DEF Alone
<1>6. Cardinality(Ahead(q, id)) <= Cardinality(Ahead(q, id)')
  BY <1>3, <1>4, FS_Subset
<1> QED
  BY <1>5, <1>6

LEMMA WatchType ==
    ASSUME walk \in Walk, NEW c \in BOOLEAN, NEW l \in BOOLEAN, NEW t \in BOOLEAN
    PROVE  [walk EXCEPT !.changed = c, !.left = l, !.torn = t] \in Walk
BY DEF Walk

LEMMA RowChanged ==
    ASSUME ListingAssumption, ListingInv, Underway, ListChange,
           row' \in [Ids -> Row],
           \A i \in Ids : Stored(i) /\ Stored(i)' => row'[i].created = row[i].created
    PROVE  ListingInv'
<1>q. PICK q \in Requests : q = walk.request
  BY DEF ListingInv, TypeOK, Walk
<1> DEFINE l == Listed(q)
           m == Listed(q)'
           left == walk.left \/ ~(l \subseteq m)
           torn == walk.torn \/ (walk.at = "counted" /\ ~(m \subseteq l))
<1>1. TypeOK /\ q \in Request /\ walk \in Walk
  BY <1>q DEF ListingInv, TypeOK, Walk, ListingAssumption
<1>2. CASE walk.at = "idle"
  <2>1. walk' = walk
    BY <1>2 DEF ListChange
  <2>2. TypeOK'
    BY <1>1, <2>1 DEF TypeOK
  <2> QED
    BY <1>2, <2>1, <2>2 DEF ListingInv, FirstStay, CountFresh, UnseenAhead, QuietSeen,
       PagesMissNothing, QuietWalkExact, Walking
<1>3. CASE walk.at # "idle"
  <2>1. walk' = [walk EXCEPT !.changed = TRUE, !.left = left, !.torn = torn]
    BY <1>3, <1>q DEF ListChange, Watch
  <2>2. /\ walk'.at = walk.at /\ walk'.request = q /\ walk'.offset = walk.offset
        /\ walk'.counted = walk.counted /\ walk'.seen = walk.seen
        /\ walk'.first = walk.first /\ walk'.changed
        /\ walk'.left = left /\ walk'.torn = torn
    BY <1>1, <1>q, <2>1 DEF Walk
  <2>3. walk.at \in {"page", "counted"}
    BY <1>1, <1>3 DEF Walk, Underway
  <2>4. walk'.request = q /\ Listed(walk.request)' = m
    BY <2>2 DEF Listed, Stored, Matches
  <2>5. \A id : /\ Ahead(walk.request, id)' = Ahead(q, id)'
               /\ Alone(walk.request, id)' = Alone(q, id)'
    BY <2>2 DEF Ahead, Alone, Sooner, Key, Listed, Stored, Matches
  <2>6. TypeOK'
    <3>1. left \in BOOLEAN /\ torn \in BOOLEAN
      BY <1>1 DEF Walk
    <3>2. walk' \in Walk
      <4> HIDE DEF left, torn
      <4> QED
        BY <1>1, <2>1, <3>1, WatchType
    <3> QED
      BY <3>2 DEF TypeOK
  <2>7. FirstStay'
    BY <1>q, <2>2, <2>3, <2>4 DEF ListingInv, FirstStay, Walking
  <2>8. CountFresh'
    <3> SUFFICES ASSUME walk.at = "counted", ~left, ~torn
                 PROVE  walk.counted = Cardinality(m)
      BY <2>2, <2>4 DEF CountFresh
    <3>1. l = m
      BY <1>q
    <3>2. walk.counted = Cardinality(l)
      BY <1>q DEF ListingInv, CountFresh
    <3> QED
      BY <3>1, <3>2
  <2>9. UnseenAhead'
    <3> SUFFICES ASSUME SortBy(q) = "created_at", ~left, ~torn,
                        NEW id \in walk.first \ walk.seen, Alone(q, id)'
                 PROVE  Cardinality(Ahead(q, id)') >= walk.offset
      BY <2>2, <2>5 DEF UnseenAhead, SortBy
    <3>1. id \in l
      BY <1>q, <2>3 DEF ListingInv, FirstStay, Walking
    <3>3. Cardinality(Ahead(q, id)) <= Cardinality(Ahead(q, id)') /\ Alone(q, id)
      BY <1>1, <3>1, AheadGrows
    <3>2. Cardinality(Ahead(q, id)) >= walk.offset
      BY <1>q, <2>3, <3>3 DEF ListingInv, UnseenAhead, Walking
    <3>4. Cardinality(Ahead(q, id)') \in Nat
      <4>1. Ahead(q, id)' \in SUBSET Ids
        BY DEF Ahead, Listed
      <4> QED
        BY <4>1, FS_Subset, FS_CardinalityType DEF ListingAssumption
    <3>5. Cardinality(Ahead(q, id)) \in Nat /\ walk.offset \in Nat
      BY <1>1, AheadFinite DEF Walk
    <3> QED
      BY <3>2, <3>3, <3>4, <3>5
  <2>10. QuietSeen' /\ QuietWalkExact' /\ PagesMissNothing'
    BY <2>2, <2>3 DEF QuietSeen, QuietWalkExact, PagesMissNothing
  <2> QED
    BY <2>6, <2>7, <2>8, <2>9, <2>10 DEF ListingInv
<1> QED
  BY <1>2, <1>3

-----------------------------------------------------------------------------
(* One lemma per kind of step.                                             *)

LEMMA InitEstablishes == ListingAssumption /\ Init => ListingInv
<1> SUFFICES ASSUME ListingAssumption, Init PROVE ListingInv
  OBVIOUS
<1>1. NoRequest \in Requests
  BY DEF NoRequest, ListingAssumption
<1>3. row \in [Ids -> Row]
  BY DEF Init, Row, NoIncident, ListingAssumption
<1>4. walk \in Walk
  BY <1>1 DEF Init, Walk, Repository
<1>5. walk.at = "idle"
  BY DEF Init
<1>6. TypeOK
  BY <1>3, <1>4 DEF TypeOK
<1> QED
  BY <1>5, <1>6 DEF ListingInv, FirstStay, CountFresh, UnseenAhead, QuietSeen,
     PagesMissNothing, QuietWalkExact, Walking

(* Stamping an incident that is not stored yet leaves the list alone. *)
LEMMA BuildKeeps ==
    ASSUME ListingAssumption, ListingInv, NEW id \in Ids, NEW now \in Stamps,
           Build(id, now)
    PROVE  ListingInv'
<1>1. TypeOK
  BY DEF ListingInv
<1>2. /\ row' = [row EXCEPT ![id] = [row[id] EXCEPT !.phase = "built", !.created = now,
                                                    !.updated = now]]
      /\ row[id].phase = "none" /\ walk' = walk
  BY DEF Build
<1>3. row[id] \in Row /\ now \in Nat
  BY <1>1 DEF TypeOK, ListingAssumption
<1>4. [row[id] EXCEPT !.phase = "built", !.created = now, !.updated = now] \in Row
  BY <1>3 DEF Row
<1>5. TypeOK'
  BY <1>1, <1>2, <1>4 DEF TypeOK
<1>6. row'[id].phase = "built"
  BY <1>1, <1>2, <1>3 DEF TypeOK, Row
<1>7. \A i \in Ids \ {id} : row'[i] = row[i]
  BY <1>1, <1>2 DEF TypeOK
<1>9. PICK q \in Requests : q = walk.request
  BY <1>1 DEF TypeOK, Walk
<1>10. Listed(q)' = Listed(q)
  BY <1>2, <1>6, <1>7 DEF Listed, Stored, Matches
<1>11. \A i \in Listed(q) : i \in Ids /\ row'[i] = row[i]
  BY <1>2, <1>7 DEF Listed, Stored
<1>12. \A i \in Listed(q) : Key(q, i)' = Key(q, i)
  BY <1>11 DEF Key
<1>13. \A i \in Listed(q) : Alone(q, i)' <=> Alone(q, i)
  BY <1>10, <1>12 DEF Alone
<1>14. \A i \in Listed(q) : Ahead(q, i)' = Ahead(q, i)
  BY <1>10, <1>12 DEF Ahead, Sooner
<1>15. /\ Listed(walk.request)' = Listed(walk.request)
       /\ DistinctKeys(walk.request)' <=> DistinctKeys(walk.request)
       /\ \A i \in Listed(walk.request) :
             /\ Ahead(walk.request, i)' = Ahead(walk.request, i)
             /\ Alone(walk.request, i)' <=> Alone(walk.request, i)
  <2>1. walk.request = q /\ walk'.request = q
    BY <1>2, <1>9
  <2>2. /\ Listed(walk.request)' = Listed(q)'
        /\ \A i : /\ Ahead(walk.request, i)' = Ahead(q, i)'
                  /\ Alone(walk.request, i)' <=> Alone(q, i)'
    BY <2>1 DEF Listed, Stored, Matches, Alone, Ahead, Sooner, Key
  <2>3. DistinctKeys(walk.request)' <=> DistinctKeys(walk.request)
    BY <1>10, <1>13, <2>1, <2>2 DEF DistinctKeys
  <2> QED
    BY <1>10, <1>13, <1>14, <2>1, <2>2, <2>3
<1>16. FirstStay' /\ CountFresh' /\ PagesMissNothing'
  BY <1>2, <1>15 DEF Build, Underway, ListingInv, FirstStay, CountFresh,
     PagesMissNothing, Walking
<1>17. UnseenAhead'
  <2>1. Walking /\ ~walk.left => walk.first \subseteq Listed(walk.request)
    BY DEF ListingInv, FirstStay
  <2> QED
    BY <1>2, <1>15, <2>1 DEF ListingInv, UnseenAhead, Walking
<1>18. QuietSeen' /\ QuietWalkExact'
  BY <1>2, <1>15 DEF ListingInv, QuietSeen, QuietWalkExact, Walking
<1> QED
  BY <1>5, <1>16, <1>17, <1>18 DEF ListingInv

LEMMA StoreKeeps ==
    ASSUME ListingAssumption, ListingInv, NEW id \in Ids, Store(id)
    PROVE  ListingInv'
<1>1. TypeOK
  BY DEF ListingInv
<1>2. row' = [row EXCEPT ![id] = [row[id] EXCEPT !.phase = "stored"]]
  BY DEF Store
<1>3. row[id] \in Row
  BY <1>1 DEF TypeOK
<1>4. /\ [row[id] EXCEPT !.phase = "stored"] \in Row
      /\ [row[id] EXCEPT !.phase = "stored"].created = row[id].created
  BY <1>3 DEF Row
<1>5. row' \in [Ids -> Row]
  BY <1>1, <1>2, <1>4 DEF TypeOK
<1>6. \A i \in Ids : row'[i].created = row[i].created
  BY <1>1, <1>2, <1>4 DEF TypeOK
<1> QED
  BY <1>5, <1>6, RowChanged DEF Store

LEMMA UpdateStatusKeeps ==
    ASSUME ListingAssumption, ListingInv, NEW id \in Ids, NEW status \in Status,
           NEW now \in Stamps, UpdateStatus(id, status, now)
    PROVE  ListingInv'
<1>1. TypeOK
  BY DEF ListingInv
<1> DEFINE new == [row[id] EXCEPT !.status = status, !.updated = now]
<1>2. row' = [row EXCEPT ![id] = new]
  BY DEF UpdateStatus
<1>3. row[id] \in Row /\ now \in Nat
  BY <1>1 DEF TypeOK, ListingAssumption
<1>4. new \in Row /\ new.created = row[id].created
  BY <1>3 DEF Row
<1>5. row' \in [Ids -> Row]
  BY <1>1, <1>2, <1>4 DEF TypeOK
<1>6. \A i \in Ids : row'[i].created = row[i].created
  BY <1>1, <1>2, <1>4 DEF TypeOK
<1> QED
  BY <1>5, <1>6, RowChanged DEF UpdateStatus

LEMMA DeleteKeeps ==
    ASSUME ListingAssumption, ListingInv, NEW id \in Ids, Delete(id)
    PROVE  ListingInv'
<1>1. TypeOK
  BY DEF ListingInv
<1>2. row' = [row EXCEPT ![id] = Deleted]
  BY DEF Delete
<1>3. Deleted \in Row /\ Deleted.phase = "deleted"
  BY DEF Deleted, NoIncident, Row, ListingAssumption
<1>4. row' \in [Ids -> Row]
  BY <1>1, <1>2, <1>3 DEF TypeOK
<1>5. \A i \in Ids : i # id => row'[i] = row[i]
  BY <1>1, <1>2 DEF TypeOK
<1>6. row'[id].phase = "deleted"
  BY <1>1, <1>2, <1>3 DEF TypeOK
<1>7. \A i \in Ids : Stored(i) /\ Stored(i)' => row'[i].created = row[i].created
  BY <1>5, <1>6 DEF Stored
<1> QED
  BY <1>4, <1>7, RowChanged DEF Delete

LEMMA StartWalkKeeps ==
    ASSUME ListingAssumption, ListingInv, NEW repository \in Repository,
           NEW q \in Requests, StartWalk(repository, q)
    PROVE  ListingInv'
<1>1. TypeOK
  BY DEF ListingInv
<1>2. Listed(q) \in SUBSET Ids
  BY DEF Listed
<1>3. walk' \in Walk
  BY <1>2 DEF StartWalk, Walk
<1>4. TypeOK'
  BY <1>1, <1>3 DEF StartWalk, TypeOK
<1>5. /\ walk'.at \in {"page", "refused"} /\ walk'.request = q /\ walk'.offset = 0
      /\ walk'.seen = {} /\ walk'.first = Listed(q)
      /\ walk'.repeated = FALSE /\ walk'.miscounted = FALSE
      /\ UNCHANGED row
  BY DEF StartWalk
<1>6. Listed(walk.request)' = Listed(q)
  BY <1>5 DEF Listed, Stored, Matches
<1>7. \A id : Cardinality(Ahead(walk.request, id)') >= 0
               /\ ~(Cardinality(Ahead(walk.request, id)') < 0)
  <2> SUFFICES ASSUME NEW id
               PROVE  /\ Cardinality(Ahead(walk.request, id)') >= 0
                      /\ ~(Cardinality(Ahead(walk.request, id)') < 0)
    OBVIOUS
  <2>1. Ahead(walk.request, id)' \in SUBSET Ids
    BY DEF Ahead, Listed
  <2>2. Cardinality(Ahead(walk.request, id)') \in Nat
    BY <2>1, FS_Subset, FS_CardinalityType DEF ListingAssumption
  <2> QED
    BY <2>2
<1>8. FirstStay' /\ CountFresh' /\ PagesMissNothing' /\ QuietWalkExact'
  BY <1>5, <1>6 DEF FirstStay, CountFresh, PagesMissNothing, QuietWalkExact
<1>9. UnseenAhead'
  BY <1>5, <1>7 DEF UnseenAhead
<1>10. QuietSeen'
  BY <1>5, <1>7 DEF QuietSeen
<1> QED
  BY <1>4, <1>8, <1>9, <1>10 DEF ListingInv

LEMMA CountKeeps ==
    ASSUME ListingAssumption, ListingInv, CountRows
    PROVE  ListingInv'
<1> DEFINE q == walk.request
<1>1. TypeOK /\ walk \in Walk
  BY DEF ListingInv, TypeOK
<1>2. /\ walk' = [walk EXCEPT !.at = "counted", !.counted = Cardinality(Listed(q))]
      /\ walk.at = "page" /\ UNCHANGED row
  BY DEF CountRows
<1>3. /\ walk'.at = "counted" /\ walk'.counted = Cardinality(Listed(q))
      /\ walk'.request = q /\ walk'.offset = walk.offset /\ walk'.seen = walk.seen
      /\ walk'.first = walk.first /\ walk'.left = walk.left /\ walk'.torn = walk.torn
      /\ walk'.changed = walk.changed /\ walk'.repeated = walk.repeated
      /\ walk'.miscounted = walk.miscounted
  BY <1>1, <1>2 DEF Walk
<1>4. walk' \in Walk
  <2>1. Cardinality(Listed(q)) \in Nat
    BY ListedFinite
  <2> HIDE DEF q
  <2> QED
    BY <1>1, <1>2, <2>1 DEF Walk
<1>5. TypeOK'
  BY <1>1, <1>2, <1>4 DEF ListingInv, TypeOK
<1>6. /\ Listed(walk.request)' = Listed(q)
      /\ DistinctKeys(walk.request)' <=> DistinctKeys(q)
      /\ \A id : /\ Ahead(walk.request, id)' = Ahead(q, id)
                 /\ Alone(walk.request, id)' = Alone(q, id)
  BY <1>2, <1>3 DEF Listed, Stored, Matches, DistinctKeys, Alone, Key, Ahead, Sooner
<1>7. FirstStay' /\ CountFresh' /\ PagesMissNothing' /\ QuietWalkExact'
  BY <1>2, <1>3, <1>6 DEF ListingInv, FirstStay, CountFresh, PagesMissNothing,
     QuietWalkExact, Walking
<1>8. UnseenAhead'
  BY <1>2, <1>3, <1>6 DEF ListingInv, UnseenAhead, Walking
<1>9. QuietSeen'
  BY <1>2, <1>3, <1>6 DEF ListingInv, QuietSeen, Walking
<1> QED
  BY <1>5, <1>7, <1>8, <1>9 DEF ListingInv

LEMMA ListPageKeeps ==
    ASSUME ListingAssumption, ListingInv, ListPage
    PROVE  ListingInv'
<1>1. Walking
  BY DEF ListPage, Walking
<1>2. Cardinality(Listed(walk.request)) \in Nat
  BY ListedFinite
<1>3. HasMore(walk.offset + Limit(walk.request), Cardinality(Listed(walk.request)))
        \in BOOLEAN
  BY DEF HasMore
<1>4. UNCHANGED row
  BY DEF ListPage
<1>5. PICK tie \in Ties :
         Turn(Page(walk.request, tie, walk.offset), Cardinality(Listed(walk.request)),
              HasMore(walk.offset + Limit(walk.request),
                      Cardinality(Listed(walk.request))))
  BY DEF ListPage
<1> QED
  BY <1>1, <1>2, <1>3, <1>4, <1>5, PageTurned

LEMMA QueryKeeps ==
    ASSUME ListingAssumption, ListingInv, QueryRows
    PROVE  ListingInv'
<1>1. Walking /\ walk.at = "counted"
  BY DEF QueryRows, Walking
<1>2. walk.counted \in Nat
  BY DEF ListingInv, TypeOK, Walk
<1>3. UNCHANGED row
  BY DEF QueryRows
<1>4. PICK tie \in Ties :
         Turn(Page(walk.request, tie, walk.offset), walk.counted,
              HasMore(walk.offset + Cardinality(Page(walk.request, tie, walk.offset)),
                      walk.counted))
  BY DEF QueryRows
<1>5. HasMore(walk.offset + Cardinality(Page(walk.request, tie, walk.offset)),
              walk.counted) \in BOOLEAN
  BY DEF HasMore
<1> QED
  BY <1>1, <1>2, <1>3, <1>4, <1>5, PageTurned

LEMMA StepKeeps ==
    ASSUME ListingAssumption, ListingInv, [Next]_vars
    PROVE  ListingInv'
<1>1. CASE \E id \in Ids, now \in Stamps : Build(id, now)
  BY <1>1, BuildKeeps
<1>2. CASE \E id \in Ids : Store(id)
  BY <1>2, StoreKeeps
<1>3. CASE \E id \in Ids : Delete(id)
  BY <1>3, DeleteKeeps
<1>4. CASE \E id \in Ids, now \in Stamps, status \in Status :
              UpdateStatus(id, status, now)
  BY <1>4, UpdateStatusKeeps
<1>5. CASE \E repository \in Repository, q \in Requests : StartWalk(repository, q)
  BY <1>5, StartWalkKeeps
<1>6. CASE ListPage
  BY <1>6, ListPageKeeps
<1>7. CASE CountRows
  BY <1>7, CountKeeps
<1>8. CASE QueryRows
  BY <1>8, QueryKeeps
<1>9. CASE UNCHANGED vars
  <2>1. row' = row /\ walk' = walk
    BY <1>9 DEF vars
  <2>2. /\ Listed(walk.request)' = Listed(walk.request)
        /\ DistinctKeys(walk.request)' <=> DistinctKeys(walk.request)
        /\ \A id : /\ Ahead(walk.request, id)' = Ahead(walk.request, id)
                   /\ Alone(walk.request, id)' = Alone(walk.request, id)
    BY <2>1 DEF Listed, Stored, Matches, DistinctKeys, Alone, Key, Ahead, Sooner
  <2>3. TypeOK'
    BY <2>1 DEF ListingInv, TypeOK
  <2>4. FirstStay' /\ CountFresh' /\ UnseenAhead' /\ PagesMissNothing'
    BY <2>1, <2>2 DEF ListingInv, FirstStay, CountFresh, UnseenAhead, PagesMissNothing,
       Walking
  <2>5. QuietSeen' /\ QuietWalkExact'
    BY <2>1, <2>2 DEF ListingInv, QuietSeen, QuietWalkExact, Walking
  <2> QED
    BY <2>3, <2>4, <2>5 DEF ListingInv
<1> QED
  BY <1>1, <1>2, <1>3, <1>4, <1>5, <1>6, <1>7, <1>8, <1>9 DEF Next

-----------------------------------------------------------------------------

(* The inductive invariant: what was listed from the start, shares its     *)
(* stamp with no other and has not been seen stands at or behind the       *)
(* offset, and an undisturbed walk has seen exactly the incidents before   *)
(* it.                                                                     *)
THEOREM ListingInductive == Spec => []ListingInv
<1> USE ListingAssumption
<1>1. Init => ListingInv
  BY InitEstablishes
<1>2. ListingInv /\ [Next]_vars => ListingInv'
  BY StepKeeps
<1> QED
  BY <1>1, <1>2, PTL DEF Spec

(* Paging by creation time misses nothing that was listed when the walk    *)
(* began, never left the list and shares its stamp with no other, however  *)
(* many incidents are created, updated and stored between its pages and    *)
(* whatever the clock reads.                                               *)
THEOREM NothingIsMissed == Spec => []PagesMissNothing
<1>1. ListingInv => PagesMissNothing
  BY DEF ListingInv
<1> QED
  BY <1>1, ListingInductive, PTL

(* An undisturbed walk over distinct keys returns each match exactly once, *)
(* under a correct total, for every filter, order and limit.               *)
THEOREM QuietWalksAreExact == Spec => []QuietWalkExact
<1>1. ListingInv => QuietWalkExact
  BY DEF ListingInv
<1> QED
  BY <1>1, ListingInductive, PTL

(* Everything the walk keeps is of its type. *)
THEOREM ListingTypes == Spec => []TypeOK
<1>1. ListingInv => TypeOK
  BY DEF ListingInv
<1> QED
  BY <1>1, ListingInductive, PTL

=============================================================================
