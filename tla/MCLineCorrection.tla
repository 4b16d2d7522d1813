-------------------------- MODULE MCLineCorrection --------------------------
(* Instances of LineCorrection for TLC. *)
EXTENDS LineCorrection

CONSTANTS p1, p2, b1

\* One project: every request for a line uses the same key.
OneProject == [p \in {p1} |-> b1]

\* A book and a package of the book: two keys for each line.
BookAndPackage == [p \in {p1, p2} |-> b1]

=============================================================================
