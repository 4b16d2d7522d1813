----------------------------- MODULE MCPackages -----------------------------
(* Two requests at a time, an administrator and other users. *)
EXTENDS Packages, TLC

CONSTANTS root, user, w1, w2

Workers    == {w1, w2}
SplitLists == {<<user, root>>}
Symmetry   == Permutations(Workers)

=============================================================================
