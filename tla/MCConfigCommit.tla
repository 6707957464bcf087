---------------------------- MODULE MCConfigCommit ----------------------------
(* Two core updates, a customer update and an activation: enough for a commit *)
(* that fails after two others have succeeded at different paths.             *)
EXTENDS ConfigCommit

CONSTANTS c1, c2, u1, u2, a1

MCScenarios ==
    {[calls |-> {c1, c2, u1, a1}, fileFails |-> TRUE],
     [calls |-> {c1, c2, u1, u2}, fileFails |-> FALSE]}

=============================================================================
