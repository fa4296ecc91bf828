-------------------------- MODULE MCIncidentService --------------------------
(* Small instances of IncidentService for TLC. *)
EXTENDS IncidentService, TLC

CONSTANTS c1, c2, i1, i2, r1

Interchangeable == Permutations(Clients) \cup Permutations(Ids)

StatusAndEvent == {"create", "status", "event"}

=============================================================================
