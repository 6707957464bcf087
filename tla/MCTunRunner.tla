----------------------------- MODULE MCTunRunner -----------------------------
(* A startup against a stop and a signal at every moment, two startups one  *)
(* after the other, and two that overlap.  Two route commands make a step   *)
(* that can fail half-way.                                                  *)
EXTENDS TunRunner

CONSTANTS r1, r2, s1, s2

MCScenarios ==
    {[calls |-> {r1, r2, s1, s2}, overlap |-> FALSE, faults |-> TRUE],
     [calls |-> {r1, r2, s1},     overlap |-> FALSE, faults |-> FALSE],
     [calls |-> {r1, r2, s1},     overlap |-> TRUE,  faults |-> FALSE]}
=============================================================================
