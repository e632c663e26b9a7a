---------------------------- MODULE MCMessageLog ----------------------------
(***************************************************************************)
(* MessageLog for TLC.                                                     *)
(***************************************************************************)
EXTENDS MessageLog

First == CHOOSE r \in Requests : TRUE

\* One send goes to every key, the others to any.  Which key sends the first one is
\* all the same.
LiveInit ==
  /\ Init
  /\ to[First] = Keys
  /\ sender[First] = CHOOSE k \in Keys : TRUE

LiveSpec == LiveInit /\ [][Next]_vars /\ Fairness
=============================================================================
