-------------------------- MODULE MCIncidentListing --------------------------
(* A small instance of IncidentListing for TLC. *)
EXTENDS IncidentListing, TLC

CONSTANTS i1, i2, i3

Interchangeable == Permutations(Ids)

SomeStatus == {"triggered", "resolved"}

Priority == [s \in SomeStatus |-> IF s = "triggered" THEN 0 ELSE 3]

Everything(by, order, limit) ==
    [status |-> {}, sort_by |-> by, sort_order |-> order, limit |-> limit]

(* The default request, both directions of paging one by one or in twos,   *)
(* a filter on the field that updates change, and refused requests.        *)
SomeRequests ==
    {Everything("", "", 0), Everything("created_at", "asc", 2),
     Everything("updated_at", "desc", 1), Everything("status", "asc", 1),
     [Everything("", "", 1) EXCEPT !.status = {"triggered"}],
     Everything("title", "", 1), Everything("", "", 1001)}

=============================================================================
