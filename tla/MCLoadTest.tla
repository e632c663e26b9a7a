------------------------------ MODULE MCLoadTest ------------------------------
(***************************************************************************)
(* A small instance of LoadTest.                                           *)
(***************************************************************************)
EXTENDS LoadTest

CONSTANTS first, second

MCWorkers == {first, second}

=============================================================================
