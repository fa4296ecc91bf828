--------------------------- MODULE IncidentListing ---------------------------
(***************************************************************************)
(* GET /api/v1/incidents: filter, sort, limit and offset over incidents    *)
(* that other requests create, update and delete.  A client walks through  *)
(* the list page by page.  The in-memory repository answers a page under   *)
(* its read lock; the PostgreSQL one counts and queries in two statements. *)
(***************************************************************************)
EXTENDS Integers, FiniteSets

CONSTANTS Ids,          \* incident UUIDs
          Status,       \* incident statuses
          Rank,         \* their priority: 0 is the most urgent
          Requests,     \* the requests a client begins a walk with
          Stamps        \* bound: readings of the wall clock.  Two may be equal,
                        \* and a later one smaller.

(* A request as its query parameters arrive: "" and 0 when left out.       *)
Request == [status : SUBSET Status,
            sort_by : {"", "created_at", "updated_at", "status", "title"},
            sort_order : {"", "asc", "desc"}, limit : Int]

ASSUME ListingAssumption ==
    /\ IsFiniteSet(Ids)
    /\ Rank \in [Status -> Nat]
    /\ "triggered" \in Status
    /\ Requests \subseteq Request /\ Requests # {}
    /\ Stamps \subseteq Nat

VARIABLES row,      \* each incident: its fields and whether it is stored
          walk      \* the client's walk through the list

vars == <<row, walk>>

(* CreatedAt is stamped before the incident is stored. *)
Row == [phase : {"none", "built", "stored", "deleted"}, created : Nat, updated : Nat,
        status : Status]

Repository == {"memory", "postgres"}

(* counted: the total of the COUNT statement; seen: the incidents on the   *)
(* pages so far.  The rest is history: the incidents that were in the list *)
(* from the start, whether any incident has left it, whether one joined     *)
(* between a count and its query, whether anything has changed, whether a  *)
(* page repeated an incident, whether a total was wrong.                   *)
Walk == [at : {"idle", "page", "counted", "done", "refused"}, repository : Repository,
         request : Requests, offset : Nat, counted : Nat,
         seen : SUBSET Ids, first : SUBSET Ids, left : BOOLEAN, torn : BOOLEAN,
         changed : BOOLEAN, repeated : BOOLEAN, miscounted : BOOLEAN]

TypeOK == /\ row \in [Ids -> Row]
          /\ walk \in Walk

Stored(id) == row[id].phase = "stored"

-----------------------------------------------------------------------------
(* ListFilter.Validate and ListIncidentsRequest.Validate: defaults first,  *)
(* then what is refused.                                                   *)

SortBy(q) == IF q.sort_by = "" THEN "created_at" ELSE q.sort_by
SortOrder(q) == IF q.sort_order = "" THEN "desc" ELSE q.sort_order
Limit(q) == IF q.limit <= 0 THEN 50 ELSE q.limit

Valid(q) == SortBy(q) # "title" /\ Limit(q) <= 1000

(* matchesFilter, of whose fields the status stands for all: it is the one *)
(* that changes (severity, team, assignee, service, labels, search and the *)
(* times are compared in the same way).                                    *)
Matches(q, id) == q.status # {} => row[id].status \in q.status

Listed(q) == {id \in Ids : Stored(id) /\ Matches(q, id)}

(* sortIncidents and ORDER BY: by one field, in either direction (severity *)
(* has a priority as the status has).                                      *)
Key(q, id) ==
    CASE SortBy(q) = "created_at" -> row[id].created
      [] SortBy(q) = "updated_at" -> row[id].updated
      [] OTHER                    -> Rank[row[id].status]

Sooner(q, j, id) ==
    IF SortOrder(q) = "desc" THEN Key(q, j) > Key(q, id) ELSE Key(q, j) < Key(q, id)

(* Equal keys stand in any order: the sort is unstable over map order, and *)
(* ORDER BY names one column.  tie is the order of this call.              *)
Ties == {t \in [Ids -> 1..Cardinality(Ids)] : \A i, j \in Ids : i # j => t[i] # t[j]}

Before(q, tie, j, id) ==
    \/ Sooner(q, j, id)
    \/ Key(q, j) = Key(q, id) /\ tie[j] < tie[id]

Position(q, tie, id) == Cardinality({j \in Listed(q) : Before(q, tie, j, id)})

(* Mutant: the page ends one incident too late. *)
PageTooLong(q, tie, offset) ==
    {id \in Listed(q) : /\ Position(q, tie, id) >= offset
                        /\ Position(q, tie, id) <= offset + Limit(q)}

Page(q, tie, offset) ==
    {id \in Listed(q) : /\ Position(q, tie, id) >= offset
                        /\ Position(q, tie, id) < offset + Limit(q)}

(* Mutant: the last incident is not reported. *)
HasMoreButOne(end, total) == end + 1 < total

HasMore(end, total) == end < total

-----------------------------------------------------------------------------

NoRequest == CHOOSE q \in Requests : TRUE

NoIncident == [phase |-> "none", created |-> 0, updated |-> 0, status |-> "triggered"]
Deleted == [NoIncident EXCEPT !.phase = "deleted"]

Init ==
    /\ row = [id \in Ids |-> NoIncident]
    /\ walk = [at |-> "idle", repository |-> "memory", request |-> NoRequest,
               offset |-> 0, counted |-> 0, seen |-> {}, first |-> {}, left |-> FALSE,
               torn |-> FALSE, changed |-> FALSE, repeated |-> FALSE,
               miscounted |-> FALSE]

(* History of a step that turns the list l into the list m. *)
Watch(l, m) ==
    walk' = [walk EXCEPT !.changed = TRUE,
                         !.left = @ \/ ~(l \subseteq m),
                         !.torn = @ \/ (walk.at = "counted" /\ ~(m \subseteq l))]

ListChange ==
    IF walk.at = "idle" THEN UNCHANGED walk
    ELSE \E q \in {walk.request} : Watch(Listed(q), Listed(q)')

(* Bound: a behaviour follows one walk, and incidents change until it ends *)
(* or something happens that the properties except.                        *)
Underway == walk.at \notin {"done", "refused"} /\ ~walk.left /\ ~walk.torn

(* CreateIncident stamps the incident and stores it some time later. *)
Build(id, now) ==
    /\ Underway /\ row[id].phase = "none"
    /\ row' = [row EXCEPT ![id] = [@ EXCEPT !.phase = "built", !.created = now,
                                            !.updated = now]]
    /\ UNCHANGED walk

Store(id) ==
    /\ Underway /\ row[id].phase = "built"
    /\ row' = [row EXCEPT ![id].phase = "stored"]
    /\ ListChange

(* An update stamped before the creation is refused by Validate. *)
UpdateStatus(id, status, now) ==
    /\ Underway /\ Stored(id) /\ now >= row[id].created
    /\ row' = [row EXCEPT ![id] = [@ EXCEPT !.status = status, !.updated = now]]
    /\ ListChange

Delete(id) ==
    /\ Underway /\ Stored(id)
    /\ row' = [row EXCEPT ![id] = Deleted]
    /\ ListChange

-----------------------------------------------------------------------------

(* A walk begins at offset 0 of a repository; an invalid request is        *)
(* answered 400.                                                           *)
StartWalk(repository, q) ==
    /\ walk.at = "idle"
    /\ walk' = [at |-> IF Valid(q) THEN "page" ELSE "refused",
                repository |-> repository, request |-> q, offset |-> 0, counted |-> 0,
                seen |-> {}, first |-> Listed(q), left |-> FALSE, torn |-> FALSE,
                changed |-> FALSE, repeated |-> FALSE, miscounted |-> FALSE]
    /\ UNCHANGED row

(* The client takes the page, and the next one at offset + limit for as    *)
(* long as has_more says so.                                               *)
Turn(page, total, more) ==
    walk' = [walk EXCEPT
               !.at = IF more THEN "page" ELSE "done",
               !.offset = @ + Limit(walk.request),
               !.seen = @ \cup page,
               !.repeated = @ \/ page \cap walk.seen # {},
               !.miscounted = @ \/ total # Cardinality(Listed(walk.request))]

(* The in-memory List: one read lock over filter, sort and slice. *)
ListPage ==
    /\ walk.at = "page" /\ walk.repository = "memory"
    /\ \E tie \in Ties :
          Turn(Page(walk.request, tie, walk.offset), Cardinality(Listed(walk.request)),
               HasMore(walk.offset + Limit(walk.request), Cardinality(Listed(walk.request))))
    /\ UNCHANGED row

(* The PostgreSQL List counts first ...                                    *)
CountRows ==
    /\ walk.at = "page" /\ walk.repository = "postgres"
    /\ walk' = [walk EXCEPT !.at = "counted", !.counted = Cardinality(Listed(walk.request))]
    /\ UNCHANGED row

(* ... and queries the page in a statement of its own.                     *)
QueryRows ==
    /\ walk.at = "counted"
    /\ \E tie \in Ties :
          LET page == Page(walk.request, tie, walk.offset)
          IN  Turn(page, walk.counted,
                   HasMore(walk.offset + Cardinality(page), walk.counted))
    /\ UNCHANGED row

Next ==
    \/ \E id \in Ids :
          \/ Store(id) \/ Delete(id)
          \/ \E now \in Stamps :
                \/ Build(id, now)
                \/ \E status \in Status : UpdateStatus(id, status, now)
    \/ \E repository \in Repository, q \in Requests : StartWalk(repository, q)
    \/ ListPage \/ CountRows \/ QueryRows

Spec == Init /\ [][Next]_vars

-----------------------------------------------------------------------------
(* Properties *)

(* No other incident of the list has the sort key of this one. *)
Alone(q, id) == \A j \in Listed(q) \ {id} : Key(q, j) # Key(q, id)

(* Paging by creation time misses no incident that was there all along and *)
(* whose stamp no other listed incident shares, although incidents are     *)
(* created and updated between the pages, with equal stamps among them,    *)
(* and may be stored out of the order of their stamps: when no incident of *)
(* the list leaves it, the last page (has_more = false) completes them.    *)
(* With PostgreSQL an incident that arrives between the count and the      *)
(* query makes the count stale and is excepted.                            *)
PagesMissNothing ==
    /\ walk.at = "done" /\ SortBy(walk.request) = "created_at"
    /\ ~walk.left /\ ~walk.torn
    => \A id \in walk.first : Alone(walk.request, id) => id \in walk.seen

DistinctKeys(q) == \A id \in Listed(q) : Alone(q, id)

(* Without changes, and without equal sort keys, the pages of any order    *)
(* are exactly the matches, each once, under a correct total.              *)
QuietWalkExact ==
    /\ walk.at = "done" /\ ~walk.changed /\ DistinctKeys(walk.request)
    => /\ walk.seen = Listed(walk.request)
       /\ ~walk.repeated /\ ~walk.miscounted

-----------------------------------------------------------------------------
(* The inductive invariant behind the properties. *)

Walking == walk.at \in {"page", "counted"}

Ahead(q, id) == {j \in Listed(q) : Sooner(q, j, id)}

FirstStay == Walking /\ ~walk.left => walk.first \subseteq Listed(walk.request)

CountFresh ==
    walk.at = "counted" /\ ~walk.left /\ ~walk.torn =>
        walk.counted = Cardinality(Listed(walk.request))

(* What has been in the list from the start and was on no page yet stands  *)
(* at or behind the offset: newcomers only push it further.  Where several *)
(* share a stamp, each page may order them anew, and nothing holds.        *)
UnseenAhead ==
    /\ Walking /\ SortBy(walk.request) = "created_at"
    /\ ~walk.left /\ ~walk.torn
    => \A id \in walk.first \ walk.seen :
          Alone(walk.request, id) =>
             Cardinality(Ahead(walk.request, id)) >= walk.offset

(* In an undisturbed walk the pages so far are the first offset incidents. *)
QuietSeen ==
    /\ Walking /\ ~walk.changed /\ DistinctKeys(walk.request)
    => /\ walk.seen = {id \in Listed(walk.request) :
                         Cardinality(Ahead(walk.request, id)) < walk.offset}
       /\ ~walk.repeated /\ ~walk.miscounted
       /\ walk.at = "counted" => walk.counted = Cardinality(Listed(walk.request))

ListingInv ==
    /\ TypeOK /\ FirstStay /\ CountFresh /\ UnseenAhead /\ QuietSeen
    /\ PagesMissNothing /\ QuietWalkExact

=============================================================================
