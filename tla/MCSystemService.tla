--------------------------- MODULE MCSystemService ---------------------------
(* The service of the operating system for TLC: calls of the API and of the *)
(* command line one after the other, on each of the three systems.          *)
EXTENDS SystemService

Init == SvcInit

Next == SvcNext

Spec == Init /\ [][Next]_svcVars
=============================================================================
