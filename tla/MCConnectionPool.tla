-------------------------- MODULE MCConnectionPool --------------------------
(* Three workers on two connections. *)
EXTENDS ConnectionPool

CONSTANTS w1, w2, w3

Workers == {w1, w2, w3}

=============================================================================
