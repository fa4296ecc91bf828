-------------------------- MODULE MCScheduleService --------------------------
(* Small instances of ScheduleService for TLC: 2 ticks a day and a second.  *)
EXTENDS ScheduleService, TLC

CONSTANTS s1, team, p1, p2, p3, e1, e2

Times == 0..36

Rota(type, people, start, duration) ==
    [type |-> type, participants |-> people, start |-> start, duration |-> duration]

Object(rotation, enabled, name) ==
    [id |-> s1, name |-> name, team |-> team, zone |-> "known",
     rotation |-> rotation, enabled |-> enabled, created |-> 0, updated |-> 0]

(* Valid schedules of every type, some with a start date between two       *)
(* seconds, one disabled; and objects each rule of Validate refuses.       *)
SomeDrafts ==
    {Object(Rota("daily", <<p1, p2>>, 3, 0), TRUE, s1),
     Object(Rota("weekly", <<p1, p2, p3>>, 4, 0), TRUE, team),
     Object(Rota("custom", <<p2, p1, p3>>, 5, 3), TRUE, s1),
     Object(Rota("custom", <<p1, p2>>, 2, 20), TRUE, s1),
     Object(Rota("daily", <<p1>>, 6, 0), FALSE, s1),
     Object(Rota("custom", <<p1, p2>>, 2, 0), TRUE, s1),
     Object(Rota("daily", <<p1, p1>>, 2, 0), TRUE, s1),
     Object(Rota("monthly", <<p1, p2>>, 2, 0), TRUE, s1),
     Object(Rota("weekly", <<>>, 2, 0), TRUE, s1)}

Interchangeable == Permutations(Editors)

=============================================================================
