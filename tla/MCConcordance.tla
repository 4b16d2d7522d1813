--------------------------- MODULE MCConcordance ----------------------------
(* The first two matches are in one line, every other has its own.          *)
EXTENDS Concordance

Place(t) == IF t = 2 THEN 1 ELSE t

=============================================================================
