---------------------------- MODULE MCIncidentAPI ----------------------------
(* Small instances of IncidentAPI for TLC. *)
EXTENDS IncidentAPI, TLC

CONSTANTS c1, c2, i1, i2, r1

Symmetric == Permutations(Clients)

HTTPKinds == {"create", "status", "event", "delete"}

(* Forward, reopening, resolving, and from "resolved" one that is refused. *)
SomeStatuses == {"triggered", "acknowledged", "resolved"}

=============================================================================
