------------------------------ MODULE MCMigrate ------------------------------
(***************************************************************************)
(* Instances of Migrate for TLC.                                           *)
(***************************************************************************)
EXTENDS Migrate

CONSTANTS job, pod, old, new, shell

\* A job and a server of the newest build migrate at once; a pod of that build
\* insists on its schema, beside a server of an older build; somebody looks.
Rollout == [p \in Procs |->
              CASE p \in {job}      -> "migrate"
                [] p \in {old, new} -> "serve"
                [] p = pod          -> "insist"
                [] p = shell        -> "status"]

Builds == [p \in Procs |-> IF p = old THEN 1 ELSE 2]

=============================================================================
