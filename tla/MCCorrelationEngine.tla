------------------------- MODULE MCCorrelationEngine -------------------------
(* A small instance of CorrelationEngine for TLC. *)
EXTENDS CorrelationEngine

Content(t, d, s, c) == [title |-> t, description |-> d, service |-> s, critical |-> c]

(* Two contents of one service that differ in the description, so that     *)
(* they share the signal fingerprint and not the content fingerprint, and  *)
(* a critical one of another service.                                      *)
MCKinds == {Content("high latency", "api", "web", FALSE),
            Content("high latency", "db", "web", FALSE),
            Content("disk full", "db", "store", TRUE)}

MCRules == <<"labels", "fingerprint", "service">>

=============================================================================
