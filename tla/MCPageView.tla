----------------------------- MODULE MCPageView -----------------------------
(* A book of two pages: one with two lines, and one that has lost all but  *)
(* its third.                                                              *)
EXTENDS PageView

Ids(p) == IF p = 1 THEN {1, 2} ELSE {3}
Corrected(p) == IF p = 1 THEN {2} ELSE {3}

=============================================================================
