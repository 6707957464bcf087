---------------------------- MODULE MCRunService ----------------------------
(* The calls that are made together: a start that overlaps a stop and a       *)
(* second start; a switch that overlaps a start, a stop and a configuration   *)
(* write; two switches, of which one may fail and restart the old service.    *)
EXTENDS RunService

CONSTANTS s1, s2, p1, w1, w2, x1

MCScenarios == {{s1, s2, p1}, {s1, p1, w1}, {s1, w1, x1}, {s1, w1, w2}}

=============================================================================
