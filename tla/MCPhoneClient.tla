---------------------------- MODULE MCPhoneClient ----------------------------
(***************************************************************************)
(* A small instance of PhoneClient: two polling tasks, so that one that    *)
(* was told to stop can outlive the start of the next, and one task of the *)
(* user's.                                                                 *)
(***************************************************************************)
EXTENDS PhoneClient

CONSTANTS before, after, user, none

MCTasks == {before, after, user}
MCLoops == {before, after}

=============================================================================
