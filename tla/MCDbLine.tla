------------------------------ MODULE MCDbLine ------------------------------
(* New OCR results with cuts behind the line's box and with cuts that run   *)
(* backwards.                                                               *)
EXTENDS DbLine

ClientCuts == {<<>>, <<5>>, <<14, 5>>, <<14, 3, 8>>}

=============================================================================
