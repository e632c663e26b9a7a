----------------------------- MODULE MCPageClient -----------------------------
(***************************************************************************)
(* A small instance of PageClient: init's task, which is free for timers   *)
(* once init has ended, and one more.                                      *)
(***************************************************************************)
EXTENDS PageClient

CONSTANTS boot, other

MCTasks == {boot, other}

=============================================================================
