----------------------------- MODULE MCKeyStore -----------------------------
(***************************************************************************)
(* KeyStore for TLC: two calls that sign while keys are made and replaced. *)
(***************************************************************************)
EXTENDS KeyStore, TLC

CallOrder == Permutations(Calls)
=============================================================================
