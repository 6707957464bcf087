---------------------------- MODULE MCAuthSession ----------------------------
(* The calls are one-shot.  Two refreshes, a tick and a login are enough for  *)
(* a refresh to wait behind another one whose token it was called with; the   *)
(* harsh scenarios overlap a restore, a logout and an update with a tick, and *)
(* a logout with a refresh and a login, under every failure.                  *)
EXTENDS AuthSession

CONSTANTS r1, r2, t1, s1, l1, o1, u1

MCScenarios ==
    {[calls |-> {r1, r2, t1, l1}, harsh |-> FALSE],
     [calls |-> {t1, s1, u1},     harsh |-> TRUE],
     [calls |-> {s1, o1},         harsh |-> TRUE],
     [calls |-> {r1, l1, o1},     harsh |-> TRUE]}

MCUpdateScenarios == {[calls |-> {r1, r2, u1}, harsh |-> FALSE]}

=============================================================================
