---------------------------- MODULE MCWebClient ----------------------------
(***************************************************************************)
(* WebClient for TLC; the bounds are in the configurations.                *)
(***************************************************************************)
EXTENDS WebClient
=============================================================================
